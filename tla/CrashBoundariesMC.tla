-------------------------- MODULE CrashBoundariesMC --------------------------
(***************************************************************************)
(* The gates of the scripts on one path and key: a request gate, a         *)
(* response gate and a dropping one for the first match, and a dropping    *)
(* response gate for the second, which only the test "any" uses.           *)
(***************************************************************************)
EXTENDS CrashBoundaries

MCRequests == 1..4
MCGates == {first, reply, loss, answer}
MCMatches == [g \in Gates |-> Requests]
MCNth == [g \in Gates |-> IF g = answer THEN 2 ELSE 1]
MCOnResponse == [g \in Gates |-> g # first]
MCDrops == [g \in Gates |-> g \in {loss, answer}]
=============================================================================
