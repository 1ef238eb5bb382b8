----------------------------- MODULE MCSqlDelay -----------------------------
(* Small instances of SqlDelay for TLC. *)
EXTENDS SqlDelay, TLC

CONSTANTS world, net    \* the world thread, and a network thread

MCThreads == {world, net}
MCReaders == {world}

\* Two writers, at most this many calls each.
None == [t \in MCThreads |-> 0]
Two  == [t \in MCThreads |-> 2]

\* The world thread alone makes the call, or the network thread alone.
WorldTwo == world :> 2 @@ net :> 0
NetOne   == world :> 0 @@ net :> 1
=============================================================================
