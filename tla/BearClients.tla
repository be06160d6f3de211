----------------------------- MODULE BearClients -----------------------------
(***************************************************************************)
(* Browsers that work on the furniture service, each with its own copy of  *)
(* the list in a redux store.  A click sends a request and awaits the      *)
(* answer; the store is then changed by what the click handler captured,   *)
(* never by what the answer says (GET excepted).  Requests of one browser  *)
(* may overlap and are handled in any order; requests and answers may be   *)
(* lost, which rejects the promise and dispatches nothing.  Requests also  *)
(* come from elsewhere, and the server may restart.                        *)
(*                                                                         *)
(* A definition whose name begins with "Mutant" is a wrong version of the  *)
(* one that follows it, used only to show that a property can fail.        *)
(***************************************************************************)
EXTENDS BearServer

CONSTANTS
  Clients,
  Slots,   \* bound: the requests, of any client, under way at a time
  MaxId    \* bound: the ids that the server hands out and a form guesses

ASSUME ClientAssumption == MaxId \in Nat

VARIABLES
  list,       \* per client: state.bears of its store
  slots,      \* per slot: the request under way there
  undisturbed \* auxiliary, per client: since its last GET nobody else changed the
              \* list, it did not overlap requests and no answer was lost

vars == <<bears, list, slots, undisturbed>>

Idle == [stage |-> "idle"]
Sent(c, req) == [stage |-> "sent", by |-> c, req |-> req]
Answered(c, req, data) == [stage |-> "answered", by |-> c, req |-> req, data |-> data]

Waits(c, s) == slots[s] # Idle /\ slots[s].by = c
Quiet(c) == \A s \in Slots : ~Waits(c, s)
Fill(s, value) == slots' = [slots EXCEPT ![s] = value]

-----------------------------------------------------------------------------
(* Clicks: what the handler captures from the rendered list and the form. *)

Send(c, req) ==
  /\ \E s \in Slots : slots[s] = Idle /\ Fill(s, Sent(c, req))
  /\ undisturbed' = [undisturbed EXCEPT ![c] = @ /\ Quiet(c)]
  /\ UNCHANGED <<bears, list>>

\* getBears, when Home or BearList mounts.
GetBears(c) == Send(c, [op |-> "get"])

\* addBear: the id the new bear will have in the store is fixed by the list that
\* was rendered when the button was clicked.
AddBear(c) ==
  LET guess == NextId(list[c])
  IN  /\ guess <= MaxId
      /\ \E form \in Forms : Send(c, [op |-> "post", form |-> form, guess |-> guess])

UpdateBear(c) ==
  \E i \in 1..Len(list[c]), form \in Forms :
    Send(c, [op |-> "put", id |-> list[c][i].id, form |-> form])

DeleteBear(c) ==
  \E i \in 1..Len(list[c]) :
    Send(c, [op |-> "delete", id |-> list[c][i].id])

-----------------------------------------------------------------------------
(* The server handles a request. *)

\* The other clients' copies are out of date as soon as the list changes.
OthersDisturbed(c) ==
  undisturbed' = [d \in Clients |-> undisturbed[d] /\ (d = c \/ bears' = bears)]

Handle(s) ==
  /\ slots[s].stage = "sent"
  /\ LET req == slots[s].req
     IN  /\ \/ req.op = "get" /\ UNCHANGED bears
            \/ req.op = "post" /\ NextId(bears) <= MaxId /\ Post(req.form)
            \/ req.op = "put" /\ Put(req.id, req.form)
            \/ req.op = "delete" /\ Delete(req.id)
         /\ Fill(s, Answered(slots[s].by, req, IF req.op = "get" THEN bears ELSE <<>>))
  /\ OthersDisturbed(slots[s].by)
  /\ UNCHANGED list

\* A PUT for an id that is gone: status 500 rejects the promise.
HandleFails(s) ==
  /\ slots[s].stage = "sent"
  /\ slots[s].req.op = "put"
  /\ PutFails(slots[s].req.id)
  /\ Fill(s, Idle)
  /\ UNCHANGED <<list, undisturbed>>

\* A request from a program that keeps no copy: whatever other clients may do to
\* the list, as far as this one's clients can tell.
HandleElsewhere ==
  /\ \/ \E form \in Forms : NextId(bears) <= MaxId /\ Post(form)
     \/ \E id \in 0..MaxId, form \in Forms : Put(id, form)
     \/ \E id \in 0..MaxId : Delete(id)
  /\ undisturbed' = [c \in Clients |-> undisturbed[c] /\ bears' = bears]
  /\ UNCHANGED <<list, slots>>

\* The process restarts with its first list.
ServerRestarts ==
  /\ Restart
  /\ undisturbed' = [c \in Clients |-> FALSE]
  /\ UNCHANGED <<list, slots>>

-----------------------------------------------------------------------------
(* The answer arrives and the handler dispatches. *)

\* bearReducer.
Updated(old, id, bear) == [i \in DOMAIN old |-> IF old[i].id = id THEN bear ELSE old[i]]
Without(old, id) ==
  FoldLeft(LAMBDA kept, bear : IF bear.id # id THEN Append(kept, bear) ELSE kept, <<>>, old)

MutantReduceLength(old, req, data) ==
  CASE req.op = "get"    -> data
    [] req.op = "post"   -> Append(old, [id |-> Len(old), form |-> req.form])
    [] req.op = "put"    -> Updated(old, req.id, [id |-> req.id, form |-> req.form])
    [] req.op = "delete" -> Without(old, req.id)
MutantReduceBareForm(old, req, data) ==
  CASE req.op = "get"    -> data
    [] req.op = "post"   -> Append(old, [id |-> req.guess, form |-> req.form])
    [] req.op = "put"    -> Updated(old, req.id, [form |-> req.form])
    [] req.op = "delete" -> Without(old, req.id)
Reduce(old, req, data) ==
  CASE req.op = "get"    -> data
    [] req.op = "post"   -> Append(old, [id |-> req.guess, form |-> req.form])
    [] req.op = "put"    -> Updated(old, req.id, [id |-> req.id, form |-> req.form])
    [] req.op = "delete" -> Without(old, req.id)

Receive(s) ==
  /\ slots[s].stage = "answered"
  /\ LET answer == slots[s]
         alone  == \A t \in Slots \ {s} : ~Waits(answer.by, t)
     IN  /\ list' = [list EXCEPT ![answer.by] = Reduce(@, answer.req, answer.data)]
         /\ undisturbed' = [undisturbed EXCEPT ![answer.by] =
              IF answer.req.op = "get" THEN alone /\ answer.data = bears ELSE @]
  /\ Fill(s, Idle)
  /\ UNCHANGED bears

\* The network fails before the request reaches the server.
LoseRequest(s) ==
  /\ slots[s].stage = "sent"
  /\ Fill(s, Idle)
  /\ UNCHANGED <<bears, list, undisturbed>>

\* The network fails after it: what was done is done, and the store never learns.
LoseAnswer(s) ==
  /\ slots[s].stage = "answered"
  /\ Fill(s, Idle)
  /\ undisturbed' = [undisturbed EXCEPT ![slots[s].by] = @ /\ slots[s].req.op = "get"]
  /\ UNCHANGED <<bears, list>>

-----------------------------------------------------------------------------
Init ==
  /\ ServerInit
  /\ list = [c \in Clients |-> <<>>]
  /\ slots = [s \in Slots |-> Idle]
  /\ undisturbed = [c \in Clients |-> FALSE]

Next ==
  \/ \E c \in Clients : GetBears(c) \/ AddBear(c) \/ UpdateBear(c) \/ DeleteBear(c)
  \/ \E s \in Slots :
       Handle(s) \/ HandleFails(s) \/ Receive(s) \/ LoseRequest(s) \/ LoseAnswer(s)
  \/ HandleElsewhere
  \/ ServerRestarts

Spec == Init /\ [][Next]_vars

-----------------------------------------------------------------------------
\* The server's list and every store hold sequences of whole bears, and a request
\* under way is one of the four kinds.
TypeOK ==
  /\ ServerTypeOK
  /\ list \in [Clients -> Seq(Bear)]
  /\ undisturbed \in [Clients -> BOOLEAN]
  /\ \A s \in Slots : slots[s] # Idle =>
       /\ slots[s].by \in Clients
       /\ slots[s].req.op \in {"get", "post", "put", "delete"}
       /\ \/ slots[s] = Sent(slots[s].by, slots[s].req)
          \/ /\ slots[s].data \in Seq(Bear)
             /\ slots[s] = Answered(slots[s].by, slots[s].req, slots[s].data)

\* A client that works alone keeps an exact copy: although the store never looks
\* at an answer, the guessed id, the filter and the map it applies agree with the
\* server's own id, splice and assignment, and a lost request or a failed update
\* costs nothing.
InSync ==
  \A c \in Clients : undisturbed[c] /\ Quiet(c) => list[c] = bears

\* "Delete a bear", answered with "Bear deleted: " and the id: a DELETE request
\* removes no bear that has another id than the one it names.
DeleteRemovesOnlyItsBear ==
  [][\A s \in Slots :
       slots[s].stage = "sent" /\ slots'[s].stage = "answered" /\ slots[s].req.op = "delete" =>
         \A i \in 1..Len(bears) :
           \/ bears[i].id = slots[s].req.id
           \/ \E j \in 1..Len(bears') : bears'[j] = bears[i]]_vars

=============================================================================
