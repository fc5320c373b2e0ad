------------------------------- MODULE LoadPool -------------------------------
(***************************************************************************)
(* The representative load test                                            *)
(* (TestRepresentativeProductMergeLoad in                                  *)
(* integration/load_integration_test.go).  A feeder hands task numbers to  *)
(* workers over an unbuffered channel, every task a worker tries leaves    *)
(* one result, and one context limits the time of everything.  The test    *)
(* waits for the workers, looks at the context, then at the failures, then *)
(* at the number of results, and last reads the first and the last record  *)
(* back.  The server is external: a write may take effect without an       *)
(* answer, and an answer that reports success follows its effect.          *)
(***************************************************************************)
EXTENDS WorkerPool, Integers

CONSTANTS
  OperationCount    \* SINK_LOAD_OPERATIONS

ASSUME LoadConstants == Workers # {} /\ OperationCount \in Nat \ {0}

Tasks == 0..(OperationCount - 1)

VARIABLES
  next,      \* the task the feeder hands out next
  feeder,    \* sending, or closed when it has returned
  task,      \* the task each worker was given last
  result,    \* what each task left in the results channel
  written,   \* the tasks whose merge has taken effect
  expired    \* the context has ended

loadVars == <<next, feeder, at, task, result, written, expired, verdict>>

LoadInit ==
  /\ next = 0 /\ feeder = "sending"
  /\ at = [w \in Workers |-> "receiving"] /\ task = [w \in Workers |-> 0]
  /\ result = [t \in Tasks |-> "none"] /\ written = {}
  /\ expired = FALSE /\ verdict = "running"

Deliver(w, outcome) == result' = [result EXCEPT ![task[w]] = outcome]

------------------------------------------------------------------------------
(* The feeder *)

\* Mutated form: the loop ends one task early.
AllSentEarly == next = OperationCount - 1

AllSent == next = OperationCount

\* Sender and receiver meet; the select may choose this after the end, too.
HandOver(w) ==
  /\ feeder = "sending" /\ ~AllSent /\ at[w] = "receiving"
  /\ task' = [task EXCEPT ![w] = next]
  /\ next' = next + 1
  /\ Move(w, "received")
  /\ UNCHANGED <<feeder, result, written, expired, verdict>>

\* Mutated form: without the select the feeder waits for a receiver only.
GivesUpNever == FALSE

GivesUp == expired

CloseJobs ==
  /\ feeder = "sending" /\ (AllSent \/ GivesUp)
  /\ feeder' = "closed"
  /\ UNCHANGED <<next, at, task, result, written, expired, verdict>>

------------------------------------------------------------------------------
(* A worker *)

\* The range loop ends with the channel.
LeaveJobs(w) ==
  /\ at[w] = "receiving" /\ feeder = "closed"
  /\ Move(w, "left")
  /\ UNCHANGED <<next, feeder, task, result, written, expired, verdict>>

\* A task received after the end is dropped without a result.
DropTask(w) ==
  /\ at[w] = "received" /\ expired
  /\ Move(w, "left")
  /\ UNCHANGED <<next, feeder, task, result, written, expired, verdict>>

\* newLoadTask fails: a result, and the next task.
Reject(w) ==
  /\ at[w] = "received" /\ ~expired
  /\ Deliver(w, "failed")
  /\ Move(w, "receiving")
  /\ UNCHANGED <<next, feeder, task, written, expired, verdict>>

Write(w) ==
  /\ at[w] = "received" /\ ~expired
  /\ Move(w, "writing")
  /\ UNCHANGED <<next, feeder, task, result, written, expired, verdict>>

\* External: the merge takes effect.
TakeEffect(w) ==
  /\ at[w] = "writing"
  /\ written' = written \cup {task[w]}
  /\ UNCHANGED <<next, feeder, at, task, result, expired, verdict>>

\* The call returns: applied, not applied or an error of the server, or the end
\* of the context.
Return(w) ==
  /\ at[w] = "writing"
  /\ \/ task[w] \in written /\ Deliver(w, "applied")
     \/ Deliver(w, "failed")
     \/ expired /\ Deliver(w, "canceled")
  /\ Move(w, "receiving")
  /\ UNCHANGED <<next, feeder, task, written, expired, verdict>>

TimeIsUp ==
  /\ ~expired /\ verdict \in {"running", "measuring"}
  /\ expired' = TRUE
  /\ UNCHANGED <<next, feeder, at, task, result, written, verdict>>

------------------------------------------------------------------------------
(* The verdict *)

Failed == \E t \in Tasks : result[t] \in {"failed", "canceled"}
Missing == \E t \in Tasks : result[t] = "none"

\* Mutated forms: failures come first, or are left out.
JudgedFailuresFirst ==
  IF Failed THEN "failed" ELSE IF expired THEN "timed out"
  ELSE IF Missing THEN "incomplete" ELSE "measuring"
JudgedResultsOnly ==
  IF expired THEN "timed out" ELSE IF Missing THEN "incomplete" ELSE "measuring"

Judged ==
  IF expired THEN "timed out" ELSE IF Failed THEN "failed"
  ELSE IF Missing THEN "incomplete" ELSE "measuring"

\* Every worker has left: the results are counted.
JudgeLoad ==
  /\ verdict = "running" /\ AllLeft
  /\ verdict' = Judged
  /\ UNCHANGED <<next, feeder, at, task, result, written, expired>>

\* The position of the 95th percentile among n sorted durations.
P95Index(n) == LET rank == (95 * n + 99) \div 100 IN IF rank > 1 THEN rank - 1 ELSE 0

\* The durations may be too long; reading back fails after the context's end or
\* when the first or the last record is missing.
ReadBack ==
  /\ verdict = "measuring"
  /\ \E slow \in BOOLEAN :
       verdict' = IF expired \/ ~({0, OperationCount - 1} \subseteq written)
                  THEN "unverified" ELSE IF slow THEN "too slow" ELSE "passed"
  /\ UNCHANGED <<next, feeder, at, task, result, written, expired>>

LoadStep(w) ==
  \/ LeaveJobs(w) \/ DropTask(w) \/ Reject(w) \/ Write(w) \/ TakeEffect(w) \/ Return(w)

LoadNext ==
  \/ \E w \in Workers : HandOver(w) \/ LoadStep(w)
  \/ CloseJobs \/ TimeIsUp \/ JudgeLoad \/ ReadBack

LoadSpec == LoadInit /\ [][LoadNext]_loadVars

\* Goroutines run, the timer fires, and a call returns when its context ends.
FairLoadSpec ==
  /\ LoadSpec
  /\ WF_loadVars(\E w \in Workers : HandOver(w)) /\ WF_loadVars(CloseJobs)
  /\ \A w \in Workers : WF_loadVars(LeaveJobs(w) \/ DropTask(w) \/ Reject(w) \/ Write(w) \/ Return(w))
  /\ WF_loadVars(TimeIsUp) /\ WF_loadVars(JudgeLoad) /\ WF_loadVars(ReadBack)

------------------------------------------------------------------------------
Places == {"receiving", "received", "writing", "left"}
Verdicts == {"running", "measuring", "timed out", "failed", "incomplete",
             "unverified", "too slow", "passed"}

LoadTypeOK ==
  /\ next \in 0..OperationCount /\ feeder \in {"sending", "closed"}
  /\ at \in [Workers -> Places] /\ task \in [Workers -> Tasks]
  /\ result \in [Tasks -> {"none", "applied", "failed", "canceled"}]
  /\ written \subseteq Tasks
  /\ expired \in BOOLEAN /\ verdict \in Verdicts

\* The load passes only when every operation of it has been applied, though no
\* worker knows how many tasks there are and tasks are dropped near the end.
PassedIsComplete == verdict \in {"too slow", "passed"} => written = Tasks

\* A failed load had an operation that failed for a reason of its own, not
\* only calls that the end of the time canceled.
FailedIsGenuine == verdict = "failed" => \E t \in Tasks : result[t] = "failed"

\* Within the time limit no task is lost between the feeder and the workers:
\* the count of the results never has to report one.
NothingIsLost == verdict # "incomplete"

\* The test and its feeder end, whatever the server answers.
LoadConcludes == <>(verdict \notin {"running", "measuring"} /\ feeder = "closed")
==============================================================================
