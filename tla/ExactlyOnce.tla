---------------------------- MODULE ExactlyOnce ----------------------------
(***************************************************************************)
(* What the load generator relies on: counters on which every numbered     *)
(* write of every writer takes effect exactly once and in order, and is    *)
(* acknowledged at most once and only afterwards.                          *)
(***************************************************************************)
EXTENDS Integers

CONSTANTS Writers, Records

VARIABLES
    done,    \* done[w][k]: writes of w on record k that took effect
    acked,   \* acked[w][k]: those w knows of
    value    \* value[k]: the counter of record k

Init ==
    /\ done = [w \in Writers |-> [k \in Records |-> 0]]
    /\ acked = [w \in Writers |-> [k \in Records |-> 0]]
    /\ value = [k \in Records |-> 0]

\* The next write of w on k takes effect: no other of its writes there is
\* still unacknowledged.
Commit(w, k) ==
    /\ done[w][k] = acked[w][k]
    /\ done' = [done EXCEPT ![w][k] = @ + 1]
    /\ value' = [value EXCEPT ![k] = @ + 1]
    /\ UNCHANGED acked

\* w learns of its last write on each of the records S.
Acknowledge(w, S) ==
    /\ \A k \in S : done[w][k] = acked[w][k] + 1
    /\ acked' = [acked EXCEPT ![w] = [k \in Records |-> IF k \in S THEN @[k] + 1 ELSE @[k]]]
    /\ UNCHANGED <<done, value>>

Next ==
    \/ \E w \in Writers, k \in Records : Commit(w, k)
    \/ \E w \in Writers, S \in SUBSET Records : Acknowledge(w, S)

Spec == Init /\ [][Next]_<<done, acked, value>>
=============================================================================
