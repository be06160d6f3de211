------------------------------ MODULE BearTable ------------------------------
(***************************************************************************)
(* What the furniture service amounts to, whatever its list looks like     *)
(* inside: a table of rows with an id and a form.  A request creates one   *)
(* row under an id above all others, changes the form of one row or        *)
(* removes one row; a restart brings the first rows back.  Which row a     *)
(* DELETE removes is left open, because the code removes one in any case.  *)
(***************************************************************************)
EXTENDS Integers

CONSTANTS
  Forms,     \* what a form may hold
  FirstRows  \* the rows the program starts with

VARIABLE rows

Create == \E row \in rows' :
  /\ row.form \in Forms
  /\ \A other \in rows : other.id < row.id
  /\ rows' = rows \union {row}

Change == \E row \in rows, form \in Forms :
  rows' = (rows \ {row}) \union {[row EXCEPT !.form = form]}

Remove == \E row \in rows : rows' = rows \ {row}

Reset == rows' = FirstRows

TableNext == Create \/ Change \/ Remove \/ Reset

TableSpec == rows = FirstRows /\ [][TableNext]_rows

=============================================================================
