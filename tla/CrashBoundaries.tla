-------------------------- MODULE CrashBoundaries --------------------------
(***************************************************************************)
(* conformance/faults_test.go and kafka_faults_test.go: the crash and      *)
(* fault tests of writes, run against a candidate behind the fault-        *)
(* injecting proxy of BackendProxy.  The candidate is external; it keeps   *)
(* its promises or breaks one kind of them.  A script passes every honest  *)
(* candidate, and what a passing script claims of its candidate is true.   *)
(* The test "any" is no script: it leaves gates and exchanges free.        *)
(***************************************************************************)
EXTENDS BackendProxy, FiniteSets

CONSTANTS first, reply, loss, answer

\* Every script has one gate on the record it writes: for the first request,
\* for the first response, or for the first response, which it drops.
ASSUME GateNames ==
    /\ Gates = {first, reply, loss, answer} /\ first # reply
    /\ IsFiniteSet(Requests) /\ Requests = 1..Cardinality(Requests) /\ {1, 2} \subseteq Requests
    /\ \A g \in {first, reply, loss} : Matches[g] = Requests /\ Nth[g] = 1
    /\ \A g \in Gates : OnResponse[g] <=> g # first
    /\ ~Drops[reply] /\ Drops[loss]

VARIABLES
    test,       \* the script, or "any"
    fault,      \* what the candidate does wrong: "none", "early", "replay", "place"
    step,       \* steps of the script taken
    verdict,    \* "running", "passed", "failed"
    alive,      \* a candidate process runs
    task,       \* the mutation it works on: "idempotent", "increment", "none"
    told,       \* what its caller knows of it: "pending", "applied", "unknown"
    offset,     \* the records the worker has committed
    place,      \* and its own idea of it
    merged,     \* it has read the record and merged
    current,    \* the last exchange it sent for the task, or Nobody
    snapshots,  \* reads of the record through the proxy
    document,   \* the counter and the last idempotent operation stored
    carries,    \* the mutation of each exchange
    orphans,    \* exchanges whose connection may be closed
    early       \* the first mutation was acknowledged before its answer came

candidate == <<alive, task, told, offset, place, merged, current, snapshots, carries, early>>
script == <<test, fault, step, verdict>>
allVars == <<vars, script, candidate, document, orphans>>

\* The tests that have a gate, and that gate.
GatedTests == {"before", "after", "lost", "cancelled", "acceptedBefore", "acceptedAfter"}

GateOf(t) ==
    CASE t = "lost"                          -> loss
      [] t \in {"before", "acceptedBefore"} -> first
      [] OTHER                               -> reply

Tests == GatedTests \cup {"acknowledged", "acceptedOffset"}

\* After the crash of a synchronous write come a retry and a new mutation.
Script(t) ==
    CASE t = "before" ->
            <<"start", "hold", "idempotent", "caught", "backend0", "pending", "crash", "discard", "unknown",
              "start", "counter0", "idempotent", "applied", "counter1", "increment", "applied", "counter2">>
      [] t = "after" ->
            <<"start", "hold", "idempotent", "caught", "backend1", "pending", "crash", "open", "unknown",
              "start", "counter1", "idempotent", "applied", "counter1", "increment", "applied", "counter2">>
      [] t = "acknowledged" ->
            <<"start", "idempotent", "applied", "crash",
              "start", "counter1", "idempotent", "applied", "counter1", "increment", "applied", "counter2">>
      [] t = "lost" ->
            <<"start", "hold", "increment", "caught", "backend1", "pending", "open", "unknown",
              "counter1", "oneWrite", "increment", "applied", "counter2">>
      [] t = "cancelled" ->
            <<"start", "hold", "increment", "caught", "backend1", "cancel", "unknown", "open",
              "counter1", "increment", "applied", "counter2">>
      [] t = "acceptedBefore" ->
            <<"hold", "start", "caught", "backend0", "uncommitted", "crash",
              "discard", "counter0", "start", "drained", "counter1", "replayed">>
      [] t = "acceptedAfter" ->
            <<"hold", "start", "caught", "backend1", "uncommitted", "crash",
              "open", "start", "drained", "counter1", "replayed">>
      [] t = "acceptedOffset" ->
            <<"start", "committed", "counter1", "crash",
              "start", "drained", "counter1", "notReplayed">>

Accepting == test \in {"acceptedBefore", "acceptedAfter", "acceptedOffset"}

AllInit ==
    /\ Init
    /\ test \in Tests \cup {"any"}
    /\ fault \in IF test = "any" THEN {"none"} ELSE {"none", "early", "replay", "place"}
    /\ step = 0 /\ verdict = "running"
    /\ alive = FALSE /\ task = "none" /\ told = "pending" /\ offset = 0 /\ place = 0
    /\ merged = FALSE /\ current = Nobody /\ snapshots = 0 /\ document = [counter |-> 0, marked |-> FALSE]
    /\ carries = [r \in Requests |-> "none"] /\ orphans = {} /\ early = FALSE
-----------------------------------------------------------------------------
(* The script. *)

Now(name) ==
    /\ test # "any" /\ verdict = "running"
    /\ step < Len(Script(test)) /\ Script(test)[step + 1] = name

\* The step is done, and with the last one the test has passed.
Done ==
    /\ step' = step + 1
    /\ verdict' = IF step' = Len(Script(test)) THEN "passed" ELSE "running"
    /\ UNCHANGED <<test, fault>>

\* t.Fatal unless the condition holds.
Require(condition) ==
    IF condition THEN Done ELSE verdict' = "failed" /\ UNCHANGED <<test, fault, step>>

Quiet == UNCHANGED <<vars, candidate, document, orphans>>

\* hold, discard and open of the test's gate.
Gating ==
    /\ test \in GatedTests
    /\ \/ Now("hold") /\ Hold(GateOf(test))
       \/ Now("discard") /\ Discard(GateOf(test))
       \/ Now("open") /\ Open(GateOf(test))
    /\ Done /\ UNCHANGED <<candidate, document, orphans>>

\* wait, applied, assertUnknownWrite and waitCommitted wait for the candidate.
Awaiting ==
    /\ \/ Now("caught") /\ caught[GateOf(test)] # Nobody /\ Done
       \/ Now("applied") /\ told # "pending" /\ Require(told = "applied")
       \/ Now("unknown") /\ told # "pending" /\ Require(told = "unknown")
       \/ Now("committed") /\ offset # 0 /\ Require(offset = 1)
       \/ Now("drained") /\ offset = 2 /\ Done
    /\ Quiet

\* Mutated form: nobody compares the number of snapshots.
NotCounted(counts) == TRUE

\* How often the record was read, as the proxy has counted.
ReadTimes(counts) == snapshots \in counts

\* count: the writes the proxy has seen.
Exchanges == Cardinality({r \in Requests : at[r] # "unsent"})

\* The assertions that look once.
Asserting ==
    /\ \/ (Now("counter0") \/ Now("backend0")) /\ Require(document.counter = 0)
       \/ (Now("counter1") \/ Now("backend1")) /\ Require(document.counter = 1)
       \/ Now("counter2") /\ Require(document.counter = 2)
       \/ Now("pending") /\ Require(told = "pending")
       \/ Now("uncommitted") /\ Require(offset = 0)
       \/ Now("oneWrite") /\ Require(Exchanges = 1)
       \/ Now("replayed") /\ Require(ReadTimes(Nat \ {0, 1}))
       \/ Now("notReplayed") /\ Require(ReadTimes({1}))
    /\ Quiet

\* writeAsync.
Write ==
    /\ \E kind \in {"idempotent", "increment"} : Now(kind) /\ task' = kind
    /\ told' = "pending" /\ merged' = FALSE /\ current' = Nobody
    /\ Done
    /\ UNCHANGED <<vars, alive, offset, place, snapshots, carries, early, document, orphans>>

InFlight == {r \in Requests : at[r] \notin Finished \cup {"unsent"}}

\* The caller gives up: the candidate may drop its exchange.
Cancel ==
    /\ Now("cancel")
    /\ told' = IF told = "pending" THEN "unknown" ELSE told
    /\ orphans' = orphans \cup InFlight
    /\ Done
    /\ UNCHANGED <<vars, alive, task, offset, place, merged, current, snapshots, carries, early, document>>

\* SIGKILL: the connections of the process are closed.
Crash ==
    /\ Now("crash")
    /\ alive' = FALSE /\ task' = "none" /\ merged' = FALSE /\ current' = Nobody
    /\ told' = IF told = "pending" THEN "unknown" ELSE told
    /\ orphans' = orphans \cup InFlight
    /\ Done
    /\ UNCHANGED <<vars, offset, place, snapshots, carries, early, document>>

\* startCandidate; a worker resumes at the committed offset, one that loses
\* its place anywhere.
Start ==
    /\ Now("start")
    /\ alive' = TRUE
    /\ place' \in IF fault = "place" THEN {0, 1} ELSE {offset}
    /\ Done
    /\ UNCHANGED <<vars, task, told, offset, merged, current, snapshots, carries, early, document, orphans>>

\* A wait ends after its timeout; an honest candidate is faster than that.
TimeOut ==
    /\ fault # "none" /\ \E name \in {"caught", "applied", "unknown", "committed", "drained"} : Now(name)
    /\ verdict' = "failed"
    /\ UNCHANGED <<test, fault, step>> /\ Quiet

TestStep ==
    Gating \/ Awaiting \/ Asserting \/ Write \/ Cancel \/ Crash \/ Start \/ TimeOut
-----------------------------------------------------------------------------
(* External: the candidate. *)

Working == test # "any" /\ verdict = "running" /\ alive
ByCandidate == UNCHANGED <<script, document, orphans>>

\* Where its last exchange of the task is.
Exchange == IF current = Nobody THEN "unsent" ELSE at[current]

\* A worker takes the next record: the mutation of the test, then one nobody
\* gates, which completes at once.
Take ==
    /\ Working /\ Accepting /\ task = "none"
    /\ \/ /\ place = 0 /\ task' = "idempotent" /\ told' = "pending"
          /\ merged' = FALSE /\ current' = Nobody
          /\ UNCHANGED <<offset, place>>
       \/ /\ place = 1 /\ \E i \in 1..step : Script(test)[i] = "crash"
          /\ offset' = 2 /\ place' = 2 /\ UNCHANGED <<task, told, merged, current>>
    /\ UNCHANGED <<vars, alive, snapshots, carries, early>> /\ ByCandidate

\* Reads the record and merges; one that replays does so after a failure too.
Read ==
    /\ Working /\ task # "none" /\ ~merged
    /\ Exchange = "unsent" \/ (fault = "replay" /\ Exchange \in Finished \ {"answered"})
    /\ merged' = TRUE /\ snapshots' = snapshots + 1
    /\ UNCHANGED <<vars, alive, task, told, offset, place, current, carries, early>> /\ ByCandidate

\* Sends the merged record.
Send ==
    /\ Working /\ merged
    /\ \E r \in Requests :
          /\ at[r] = "unsent" /\ \A q \in 1..(r - 1) : at[q] # "unsent"
          /\ Arrive(r)
          /\ current' = r /\ carries' = [carries EXCEPT ![r] = task]
    /\ merged' = FALSE
    /\ UNCHANGED <<alive, task, told, offset, place, snapshots, early>> /\ ByCandidate

\* Tells the caller, or commits the offset.
Tell(outcome) ==
    /\ told' = IF told = "pending" THEN outcome ELSE told
    /\ IF Accepting /\ outcome = "applied" THEN offset' = 1 /\ place' = 1
                                           ELSE UNCHANGED <<offset, place>>

\* The backend's answer is passed on, a failure as a failure.
Settle ==
    /\ Working /\ task # "none" /\ ~merged /\ Exchange \in Finished
    /\ Tell(IF Exchange = "answered" THEN "applied" ELSE "unknown")
    /\ task' = "none"
    /\ UNCHANGED <<vars, alive, merged, current, snapshots, carries, early>> /\ ByCandidate

\* The test's first mutation is under way.
FirstWrite == \A i \in 1..step : Script(test)[i] \notin {"crash", "unknown"}

\* A hasty candidate acknowledges what it has not finished.
Hasten ==
    /\ Working /\ fault = "early" /\ task # "none" /\ told = "pending" /\ offset = 0
    /\ Exchange # "answered"
    /\ Tell("applied")
    /\ early' = (early \/ FirstWrite)
    /\ UNCHANGED <<vars, alive, task, merged, current, snapshots, carries>> /\ ByCandidate

Candidate == Take \/ Read \/ Send \/ Settle \/ Hasten
-----------------------------------------------------------------------------
(* The proxy and the backend. *)

\* What executing an exchange leaves: the idempotent program looks at the
\* last operation it stored.
Executed(r) ==
    IF carries[r] = "idempotent"
    THEN IF document.marked THEN document
         ELSE [counter |-> document.counter + 1, marked |-> TRUE]
    ELSE [document EXCEPT !.counter = @ + 1]

Proxy(r) ==
    /\ Handle(r)
    /\ document' = IF r \in committed' \ committed THEN Executed(r) ELSE document
    /\ UNCHANGED <<script, candidate, orphans>>

\* The proxy learns that a connection is closed.
Part(r) ==
    /\ r \in orphans /\ Disconnect(r)
    /\ UNCHANGED <<script, candidate, document, orphans>>

\* The test "any": two exchanges, a request gate for the first and a dropping
\* response gate for the second, in every order.
Free ==
    /\ test = "any"
    /\ \/ \E g \in {first, answer} : Hold(g) \/ Open(g) \/ Discard(g)
       \/ \E r \in {1, 2} : Arrive(r) \/ Disconnect(r)
    /\ UNCHANGED <<script, candidate, document, orphans>>

Cleanup ==
    /\ test # "any" => verdict # "running"
    /\ OpenAll
    /\ UNCHANGED <<script, candidate, document, orphans>>

Close ==
    /\ (\E g \in Gates : CloseRelease(g)) \/ CloseServer
    /\ UNCHANGED <<script, candidate, document, orphans>>

AllNext ==
    \/ TestStep \/ Candidate \/ Free \/ Cleanup \/ Close
    \/ \E r \in Requests : Proxy(r) \/ Part(r)

\* The test and the candidate go on, and so do the proxy's handlers; a
\* caller that is never answered is the candidate's fault.
AllSpec ==
    /\ AllInit /\ [][AllNext]_allVars
    /\ WF_allVars(TestStep) /\ WF_allVars(Candidate)
    /\ WF_allVars(Cleanup) /\ WF_allVars(Close)
    /\ \A r \in Requests : WF_allVars(Proxy(r))
-----------------------------------------------------------------------------
\* No script fails a candidate that keeps its promises, wherever the crash or
\* the lost exchange falls.
NoFalseFailure == fault = "none" => verdict # "failed"

\* A candidate that passes a script acknowledged its first write only after
\* the backend's answer where a gate held that, wrote every mutation once and
\* a write of unknown outcome not again by itself, and its worker replayed the
\* record if and only if it had not committed it.  The test of a cancelled
\* write alone counts no writes: a replay may still be on its way.
PassedIsSafe ==
    verdict = "passed" =>
        /\ test \in GatedTests => ~early
        /\ test # "cancelled" => document.counter = IF Accepting THEN 1 ELSE 2
        /\ test \in {"lost", "acceptedBefore", "acceptedAfter"} => Exchanges = 2
        /\ test = "acceptedOffset" => Exchanges = 1
=============================================================================
