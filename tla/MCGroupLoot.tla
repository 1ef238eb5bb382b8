---------------------------- MODULE MCGroupLoot ----------------------------
(* Small instances of GroupLoot for TLC. *)
EXTENDS GroupLoot

MCPlayer == 1 .. 3
MCCorpse == {"wolf", "chest"}
MCNear   == [c \in MCCorpse |-> IF c = "wolf" THEN {1, 2} ELSE {3}]
MCUsable == [c \in MCCorpse |-> IF c = "wolf" THEN {2} ELSE {}]
MCMapOf  == [c \in MCCorpse |-> IF c = "wolf" THEN "forest" ELSE "cave"]
=============================================================================
