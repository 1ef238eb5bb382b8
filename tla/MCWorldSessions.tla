--------------------------- MODULE MCWorldSessions ---------------------------
(* Small instances of WorldSessions for TLC. *)
EXTENDS WorldSessions, TLC

CONSTANTS s1, s2, s3, s4

\* All accounts are ordinary players, or the third is a game master's.
MCAccount == 1 .. 3
Players == [a \in MCAccount |-> 0]
OneGM   == [a \in MCAccount |-> IF a = 3 THEN 2 ELSE 0]

\* Four connections, two of them by account 1.
FourSessions  == {s1, s2, s3, s4}
FourAccountOf == s1 :> 1 @@ s2 :> 1 @@ s3 :> 2 @@ s4 :> 3

\* Two connections of one account.
TwoSessions  == {s1, s2}
TwoAccountOf == s1 :> 1 @@ s2 :> 1

NoLevels  == {}
NoPLimits == {}
UpAndDown == {<<2, 1>>, <<1, 3>>}
NoTime    == {0}
SomeTime  == {0, 2}
NoPackets  == {}
LoginOnly  == {"login"}
AllPackets == {"login", "logout", "cancel"}
=============================================================================
