--------------------------- MODULE MCWorldSocket ---------------------------
(* Small instances of WorldSocket for TLC. *)
EXTENDS WorldSocket

\* The world's packets fit in an empty buffer and leave room for a header only.
MCSizes == {2}
=============================================================================
