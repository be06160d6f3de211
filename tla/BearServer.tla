------------------------------ MODULE BearServer ------------------------------
(***************************************************************************)
(* The furniture service of the web application ("bears" in the source):   *)
(* an Express server that keeps its list in memory.  Node runs one handler *)
(* at a time, so each request is one action.  A bear's name, weight and    *)
(* image travel together and are one value here, a form.                   *)
(*                                                                         *)
(* A definition whose name begins with "Mutant" is a wrong version of the  *)
(* one that follows it, used only to show that a property can fail.        *)
(***************************************************************************)
EXTENDS Integers, SequencesExt

CONSTANTS
  Forms,        \* what a form may hold: name, weight and img together
  InitialBears  \* the list the program starts with

Bear == [id : Nat, form : Forms]

Increasing(list) ==
  \A i, j \in 1..Len(list) : i < j => list[i].id < list[j].id

ASSUME BearAssumption ==
  InitialBears \in Seq(Bear) /\ Increasing(InitialBears)

VARIABLE bears

\* The id after the last one, as the server and the form both compute it.
MutantNextIdIsLength(list) == Len(list)
NextId(list) == IF list = <<>> THEN 0 ELSE list[Len(list)].id + 1

\* findIndex: the first index with that id, as a set that is empty for -1.
FindIndex(id) ==
  {k \in 1..Len(bears) : bears[k].id = id /\ \A j \in 1..(k-1) : bears[j].id # id}

Post(form) == bears' = Append(bears, [id |-> NextId(bears), form |-> form])

Put(id, form) == \E k \in FindIndex(id) : bears' = [bears EXCEPT ![k].form = form]

\* bears[-1].name = ... throws: the request ends in an error and nothing changes.
PutFails(id) == FindIndex(id) = {} /\ UNCHANGED bears

\* splice(index, 1), where index -1 counts from the end: a missing id removes the
\* last bear.
MutantDeleteReplaces(id) ==
  \E k \in FindIndex(id) : bears' = ReplaceAt(bears, k, bears[Len(bears)])
Delete(id) ==
  \/ \E k \in FindIndex(id) : bears' = RemoveAt(bears, k)
  \/ FindIndex(id) = {} /\ bears' = IF bears = <<>> THEN bears ELSE Front(bears)

\* The process restarts: nothing is persisted.
Restart == bears' = InitialBears

ServerInit == bears = InitialBears

ServerNext ==
  \/ \E form \in Forms : Post(form)
  \/ \E id \in Nat, form \in Forms : Put(id, form)
  \/ \E id \in Nat : Delete(id)
  \/ Restart

ServerSpec == ServerInit /\ [][ServerNext]_bears

\* The list seen as a table.
Table == INSTANCE BearTable WITH
  rows <- {bears[i] : i \in DOMAIN bears},
  FirstRows <- {InitialBears[i] : i \in DOMAIN InitialBears}

-----------------------------------------------------------------------------
ServerTypeOK == bears \in Seq(Bear)

\* Ids increase along the list, whatever is added, changed or removed: no two
\* bears share an id, so findIndex finds the one that is meant, and the last id
\* plus one is always new to the list.
IdsIncrease == Increasing(bears)

\* The list implements a table: push, assignment and splice at positions computed
\* from ids create, change or remove exactly one row, never two and never another's
\* form or id.
ImplementsTable == Table!TableSpec

=============================================================================
