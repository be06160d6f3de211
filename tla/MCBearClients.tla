---------------------------- MODULE MCBearClients ----------------------------
(* Bounded instance of BearClients for TLC. *)
EXTENDS BearClients

CONSTANTS plain, fancy

\* One bear stands for the twelve of the source.
OneBear == <<[id |-> 0, form |-> plain]>>

\* Ids grow past the length of a list: bounds the lists, not the ids.
Short == Len(bears) <= 2 /\ \A c \in Clients : Len(list[c]) <= 2

Symmetry == Permutations(Clients) \union Permutations(Slots)

=============================================================================
