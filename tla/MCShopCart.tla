------------------------------ MODULE MCShopCart ------------------------------
(* Bounded instance of ShopCart for TLC. *)
EXTENDS ShopCart

\* Prices whose sums tell every set of products apart.
PowersOfTwo == [p \in Products |-> 2^(p-1)]

\* Bounds how long a reader scrolls up and down.
FewScrolls == Len(asked) <= 6

===============================================================================
