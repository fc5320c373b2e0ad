-------------------------- MODULE HistoryWorkload --------------------------
(***************************************************************************)
(* One round of conformance/history_test.go: clients run their scripted    *)
(* calls concurrently on one record through Sink, stamp each call with a   *)
(* shared logical clock, read the record once more when all have finished, *)
(* and hand the recorded history to the checker.  Sink and its store are   *)
(* external: a call takes effect atomically between its stamps, unless a   *)
(* fault of the store loses or repeats it.                                 *)
(***************************************************************************)
EXTENDS SequentialDocument, Sequences

CONSTANTS
    Rounds,      \* the rounds there may be: clients, the calls of each (steps,
                 \* 3 in the code), what the calls are (script), what the store
                 \* may do wrong (faults: "lost", "repeated"), and whether
                 \* calls may fail (may_fail)
    Documents, MaxEntries, Budget

\* A round has its calls, and they fit with the final read into one history.
ASSUME RoundsAssumption ==
    /\ {MaxEntries, Budget} \subseteq Nat \ {0}
    /\ \A r \in Rounds :
          /\ {r.clients, r.steps} \subseteq Nat \ {0} /\ r.clients * r.steps < MaxEntries
          /\ r.script \in [1..(r.clients * r.steps) -> [kind : Kinds, input : Int]]

VARIABLES
    plan,        \* the round of this run
    clock,       \* the shared atomic counter
    step,        \* calls each client has finished
    stage,       \* where each client is in its current call
    answer,      \* what Sink will answer it
    doc,         \* the record in the store
    failed,      \* the entries whose call returned an error
    outcome,     \* the result of the round
    history, initial, stack, rejected, exhausted, verdict

Checker == INSTANCE HistoryCheck WITH Histories <- {}, Initials <- {Absent}

round == <<clock, step, stage, answer, doc, failed>>
search == <<initial, stack, rejected, exhausted, verdict>>
vars == <<round, outcome, history, search, plan>>

Clients == plan.clients
Steps == plan.steps
Planned == Clients * Steps
Unrun(i, call) ==
    [id |-> i, start |-> 0, end |-> 0, kind |-> call.kind, input |-> call.input,
     result |-> Applied(FALSE)]

\* Client c's current entry.
Index(c) == (c - 1) * Steps + step[c] + 1

Init ==
    /\ plan \in Rounds
    /\ history = [i \in 1..Planned |-> Unrun(i, plan.script[i])]
    /\ clock = 0 /\ doc = Absent /\ failed = {} /\ outcome = "calling"
    /\ step = [c \in 1..Clients |-> 0]
    /\ stage = [c \in 1..Clients |-> "ready"]
    /\ answer = [c \in 1..Clients |-> Applied(FALSE)]
    /\ initial = Absent /\ stack = <<>> /\ rejected = {} /\ exhausted = FALSE
    /\ verdict = "unchecked"

\* The start stamp, then the call.
Begin(c) ==
    /\ stage[c] = "ready" /\ step[c] < Steps
    /\ clock' = clock + 1
    /\ history' = [history EXCEPT ![Index(c)].start = clock + 1]
    /\ stage' = [stage EXCEPT ![c] = "invoked"]
    /\ UNCHANGED <<step, answer, doc, failed, outcome, search, plan>>

\* External: the call takes effect, perhaps after its client gave it up.
Serve(c) ==
    /\ stage[c] \in {"invoked", "abandoned"}
    /\ stage' = [stage EXCEPT ![c] = IF @ = "invoked" THEN "served" ELSE "stopped"]
    /\ LET e == history[Index(c)] IN
       /\ answer' = [answer EXCEPT ![c] = Answer(doc, e)]
       /\ \/ doc' = After(doc, e)
          \/ "lost" \in plan.faults /\ doc' = doc
          \/ "repeated" \in plan.faults /\ doc' = After(After(doc, e), e)
    /\ UNCHANGED <<clock, step, failed, outcome, history, search, plan>>

\* External: compare-and-swap attempts run out, without effect.
Conflict(c) ==
    /\ stage[c] = "invoked"
    /\ history[Index(c)].kind \in {"add", "replace"}
    /\ stage' = [stage EXCEPT ![c] = "served"]
    /\ answer' = [answer EXCEPT ![c] = Conflicted]
    /\ UNCHANGED <<clock, step, doc, failed, outcome, history, search, plan>>

\* Mutated form: a conflict is recorded as a failed condition.
RecordedBlind(c) == [answer[c] EXCEPT !.conflict = FALSE]

\* What the client records of the answer.
Recorded(c) == answer[c]

\* The end stamp and the result of a call that was answered.
Return(c) ==
    /\ stage[c] = "served"
    /\ clock' = clock + 1
    /\ history' = [history EXCEPT ![Index(c)].end = clock + 1,
                                  ![Index(c)].result = Recorded(c)]
    /\ stage' = [stage EXCEPT ![c] = "ready"]
    /\ step' = [step EXCEPT ![c] = @ + 1]
    /\ UNCHANGED <<answer, doc, failed, outcome, search, plan>>

\* Mutated form: the failed call is recorded as if it had been applied.
FailOptimistic(c) ==
    /\ plan.may_fail /\ stage[c] \in {"invoked", "served"}
    /\ clock' = clock + 1
    /\ history' = [history EXCEPT ![Index(c)].end = clock + 1,
                                  ![Index(c)].result = Applied(TRUE)]
    /\ failed' = failed \cup {Index(c)}
    /\ stage' = [stage EXCEPT ![c] = "stopped"]
    /\ UNCHANGED <<step, answer, doc, outcome, search, plan>>

\* The call returns an error, whether or not it took effect or still will: it
\* is stamped with an empty result and the client runs no more calls.
Fail(c) ==
    /\ plan.may_fail /\ stage[c] \in {"invoked", "served"}
    /\ clock' = clock + 1
    /\ history' = [history EXCEPT ![Index(c)].end = clock + 1]
    /\ failed' = failed \cup {Index(c)}
    /\ stage' = [stage EXCEPT ![c] = IF @ = "served" THEN "stopped" ELSE "abandoned"]
    /\ UNCHANGED <<step, answer, doc, outcome, search, plan>>

Finished(c) == stage[c] \in {"abandoned", "stopped"} \/ (stage[c] = "ready" /\ step[c] = Steps)

\* When every client has finished, the round reads the record once more, with
\* an empty result if the read returns an error, and starts the checker on the
\* whole history.
FinalRead ==
    /\ outcome = "calling"
    /\ \A c \in 1..Clients : Finished(c)
    /\ clock' = clock + 2
    /\ \E result \in {Observed(doc), Applied(FALSE)} :
          /\ history' = Append(history,
                [id |-> Planned + 1, start |-> clock + 1, end |-> clock + 2,
                 kind |-> "read", input |-> 0, result |-> result])
          /\ \/ result = Observed(doc) /\ failed' = failed
             \/ plan.may_fail /\ result = Applied(FALSE) /\ failed' = failed \cup {Planned + 1}
    /\ outcome' = "checking"
    /\ UNCHANGED <<step, stage, answer, doc, search, plan>>

ClientOf(i) == IF i > Planned THEN 1 ELSE ((i - 1) \div Steps) + 1

\* historyOverlaps: calls of different clients ran at the same time.
Overlaps ==
    \E i, j \in 1..Len(history) :
        /\ i < j /\ ClientOf(i) # ClientOf(j)
        /\ history[i].start < history[j].end /\ history[j].start < history[i].end

Search == outcome = "checking" /\ Checker!Next /\ UNCHANGED <<round, outcome, plan>>

\* The round fails for a failed call, a verdict other than acceptance, or a
\* history that never overlapped.
Judge ==
    /\ outcome = "checking" /\ verdict \notin {"unchecked", "searching"}
    /\ outcome' = IF failed = {} /\ verdict = "accepted" /\ Overlaps
                  THEN "passed" ELSE "failed"
    /\ UNCHANGED <<round, history, search, plan>>

Next ==
    \/ \E c \in 1..Clients : Begin(c) \/ Serve(c) \/ Conflict(c) \/ Return(c) \/ Fail(c)
    \/ FinalRead \/ Search \/ Judge

Spec == Init /\ [][Next]_vars
-----------------------------------------------------------------------------
\* With an honest store the checker blames nobody: however the calls overlap
\* and whichever conflict, the recorded history is accepted unless a call
\* returned an error.
NoFalseAlarm ==
    plan.faults = {} /\ verdict \in {"malformed", "illegal", "exhausted"} => failed # {}

\* An unknown result is never dropped from a history: an addition whose call
\* returned an error stays in it and keeps it from being accepted.
FailedAddsStayUnexplained ==
    verdict = "accepted" => \A i \in failed : history[i].kind # "add"
=============================================================================
