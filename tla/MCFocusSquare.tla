---------------------------- MODULE MCFocusSquare ----------------------------
(* Bounded instance of FocusSquare for TLC. *)
EXTENDS FocusSquare

=============================================================================
