------------------------------- MODULE SoakPool -------------------------------
(***************************************************************************)
(* The workers of the storage soak and their end                           *)
(* (TestStorageBackendSoak and runSoakWorker in                            *)
(* integration/soak_integration_test.go).  Two contexts control them: the  *)
(* scheduling one ends with the configured duration and stops new cycles,  *)
(* the operation one ends with the first error and interrupts the cycles   *)
(* under way.  The first error is the one a channel of capacity one holds. *)
(***************************************************************************)
EXTENDS WorkerPool, Integers, Sequences, FiniteSets

CONSTANTS
  MinimumCycles,  \* SINK_SOAK_MIN_CYCLES
  MaxCycles       \* bound: cycles one worker begins

ASSUME PoolConstants ==
  IsFiniteSet(Workers) /\ MinimumCycles \in Nat \ {0} /\ MaxCycles \in Nat

VARIABLES
  failure,     \* the error each worker holds: none, genuine or interrupted
  sequence,    \* the cycles each worker has begun
  genuine,     \* the workers that saw the server misbehave
  completed,   \* completedCycles
  scheduling,  \* schedulingContext is alive
  operating,   \* operationContext is alive
  channel      \* errorsChannel

poolVars == <<at, failure, sequence, genuine, completed, scheduling, operating,
          channel, verdict>>

PoolInit ==
  /\ at = [w \in Workers |-> "scheduling"]
  /\ failure = [w \in Workers |-> "none"]
  /\ sequence = [w \in Workers |-> 0]
  /\ genuine = {} /\ completed = 0
  /\ scheduling = TRUE /\ operating = TRUE
  /\ channel = <<>> /\ verdict = "running"

\* The loop's head: another cycle, or none after the scheduling context's end.
Begin(w) ==
  /\ at[w] = "scheduling" /\ scheduling /\ sequence[w] < MaxCycles
  /\ Move(w, "cycling")
  /\ sequence' = [sequence EXCEPT ![w] = @ + 1]
  /\ UNCHANGED <<failure, genuine, completed, scheduling, operating, channel,
                 verdict>>

Leave(w) ==
  /\ at[w] = "scheduling" /\ ~scheduling
  /\ Move(w, "left")
  /\ UNCHANGED <<failure, sequence, genuine, completed, scheduling, operating,
                 channel, verdict>>

CycleCompletes(w) ==
  /\ at[w] = "cycling"
  /\ Move(w, "scheduling")
  /\ completed' = completed + 1
  /\ UNCHANGED <<failure, sequence, genuine, scheduling, operating, channel,
                 verdict>>

\* The server misbehaves, or the cycle's own time limit passes.
CycleFails(w) ==
  /\ at[w] = "cycling"
  /\ Move(w, "judging")
  /\ failure' = [failure EXCEPT ![w] = "genuine"]
  /\ genuine' = genuine \cup {w}
  /\ UNCHANGED <<sequence, completed, scheduling, operating, channel, verdict>>

\* Mutated form: the cycle's context is derived from the scheduling one.
InterruptibleByDeadline == ~scheduling

\* The context a cycle runs under is derived from the operation context.
Interruptible == ~operating

CycleInterrupted(w) ==
  /\ at[w] = "cycling" /\ Interruptible
  /\ Move(w, "judging")
  /\ failure' = [failure EXCEPT ![w] = "interrupted"]
  /\ UNCHANGED <<sequence, genuine, completed, scheduling, operating, channel,
                 verdict>>

\* Mutated form: the scheduling context is asked instead.
JudgeByDeadline(w) ==
  /\ at[w] = "judging"
  /\ Move(w, IF scheduling THEN "reporting" ELSE "left")
  /\ UNCHANGED <<failure, sequence, genuine, completed, scheduling, operating,
                 channel, verdict>>

\* An error after the operation context's end is taken for its consequence.
Judge(w) ==
  /\ at[w] = "judging"
  /\ Move(w, IF operating THEN "reporting" ELSE "left")
  /\ UNCHANGED <<failure, sequence, genuine, completed, scheduling, operating,
                 channel, verdict>>

\* Mutated form: without the default case a second error waits for room.
ReportBlocking(w) ==
  /\ at[w] = "reporting" /\ channel = <<>>
  /\ channel' = <<failure[w]>>
  /\ Move(w, "stopping")
  /\ UNCHANGED <<failure, sequence, genuine, completed, scheduling, operating,
                 verdict>>

\* The select with a default: the first error is kept, later ones are dropped.
Report(w) ==
  /\ at[w] = "reporting"
  /\ \/ channel = <<>> /\ channel' = <<failure[w]>> /\ Move(w, "stopping")
     \/ channel # <<>> /\ UNCHANGED channel /\ Move(w, "left")
  /\ UNCHANGED <<failure, sequence, genuine, completed, scheduling, operating,
                 verdict>>

StopScheduling(w) ==
  /\ at[w] = "stopping"
  /\ scheduling' = FALSE
  /\ Move(w, "canceling")
  /\ UNCHANGED <<failure, sequence, genuine, completed, operating, channel,
                 verdict>>

CancelOperations(w) ==
  /\ at[w] = "canceling"
  /\ operating' = FALSE
  /\ Move(w, "left")
  /\ UNCHANGED <<failure, sequence, genuine, completed, scheduling, channel,
                 verdict>>

\* The configured duration passes.
Deadline ==
  /\ scheduling' = FALSE
  /\ UNCHANGED <<at, failure, sequence, genuine, completed, operating, channel,
                 verdict>>

\* The test waits for every worker, then reads the channel.
Conclude ==
  /\ verdict = "running" /\ AllLeft
  /\ operating' = FALSE
  /\ verdict' = IF channel # <<>> THEN Head(channel)
                ELSE IF completed < MinimumCycles THEN "too few" ELSE "passed"
  /\ UNCHANGED <<at, failure, sequence, genuine, completed, scheduling, channel>>

Step(w) ==
  \/ Begin(w) \/ Leave(w) \/ CycleCompletes(w) \/ CycleFails(w)
  \/ CycleInterrupted(w) \/ Judge(w) \/ Report(w) \/ StopScheduling(w)
  \/ CancelOperations(w)

PoolNext == (\E w \in Workers : Step(w)) \/ Deadline \/ Conclude

PoolSpec == PoolInit /\ [][PoolNext]_poolVars

\* Goroutines run, timers fire, and every cycle has a time limit.
FairPoolSpec == PoolSpec /\ (\A w \in Workers : WF_poolVars(Step(w))) /\ WF_poolVars(Deadline)
                 /\ WF_poolVars(Conclude)

------------------------------------------------------------------------------
PoolTypeOK ==
  /\ at \in [Workers -> {"scheduling", "cycling", "judging", "reporting",
                         "stopping", "canceling", "left"}]
  /\ failure \in [Workers -> {"none", "genuine", "interrupted"}]
  /\ sequence \in [Workers -> 0..MaxCycles]
  /\ genuine \subseteq Workers
  /\ completed \in Nat
  /\ scheduling \in BOOLEAN /\ operating \in BOOLEAN
  /\ channel \in Seq({"genuine", "interrupted"}) /\ Len(channel) <= 1
  /\ verdict \in {"running", "passed", "too few", "genuine", "interrupted"}

\* The soak passes only when no cycle of any worker found a fault, though
\* errors are dropped from a full channel, and swallowed after a cancellation.
PassedIsClean == verdict = "passed" => genuine = {}

\* The error reported is a fault some cycle found, never the interruption that
\* another worker's error, or the end of the configured time, caused.
FailureIsGenuine == verdict # "interrupted"

\* The test ends, however many workers fail at once.
Concludes == <>(verdict # "running")
==============================================================================
