---------------------------- MODULE MCMapUpdater ----------------------------
(* Small instances of MapUpdater for TLC. *)
EXTENDS MapUpdater

CONSTANTS w1, w2, w3, m1, m2, m3

MCWorker == {w1, w2, w3}
MCMap    == {m1, m2, m3}

\* The pools of the first two maps have members on the third.
MCLinks  == {<<m1, m3>>, <<m2, m3>>}
=============================================================================
