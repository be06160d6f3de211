--------------------------- MODULE MCObjectLoading ---------------------------
(* Bounded instance of ObjectLoading for TLC. *)
EXTENDS ObjectLoading, TLC

\* The objects are interchangeable; used by the runs that check only invariants.
Symmetry == Permutations(Objects)

\* Objects of different alignments: any of them may find a place.
AnyAlignment == SUBSET Objects

=============================================================================
