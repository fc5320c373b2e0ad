----------------------------- MODULE SoakCycleMC -----------------------------
(***************************************************************************)
(* The servers of SoakCycle's run: an asynchronous one whose Worker        *)
(* restarts and repeats its last record, a synchronous one whose attempts  *)
(* end with their calls, one whose effects come at any later time, and one *)
(* that loses what it acknowledged.                                        *)
(***************************************************************************)
EXTENDS SoakCycle

MCServers == {
  [asynchronous |-> TRUE, late |-> FALSE, patient |-> TRUE, faulty |-> FALSE,
   replayable |-> 1, faults |-> 3, restarts |-> 2],
  [asynchronous |-> FALSE, late |-> FALSE, patient |-> TRUE, faulty |-> FALSE,
   replayable |-> 0, faults |-> 3, restarts |-> 0],
  [asynchronous |-> FALSE, late |-> TRUE, patient |-> FALSE, faulty |-> FALSE,
   replayable |-> 0, faults |-> 3, restarts |-> 0],
  [asynchronous |-> TRUE, late |-> FALSE, patient |-> FALSE, faulty |-> TRUE,
   replayable |-> 1, faults |-> 3, restarts |-> 1] }
==============================================================================
