--------------------------- MODULE MCAuctionHouse ---------------------------
(* Small instances of AuctionHouse for TLC. *)
EXTENDS AuctionHouse, TLC

\* Players are interchangeable: no definition orders or names them.
Symmetry == Permutations(Player)
=============================================================================
