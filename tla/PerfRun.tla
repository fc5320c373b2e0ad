------------------------------- MODULE PerfRun -------------------------------
(***************************************************************************)
(* A whole run of tools/sink-perf: seeding, the paced workers and the      *)
(* frames of their answers, the report and its verdict.  It implements     *)
(* PerfLoad, where a call is answered in one step and a worker leaves when *)
(* it likes.  External: Sink sends one result per operation in any order,  *)
(* "applied" when it took effect, "refused" when it never will.            *)
(***************************************************************************)
EXTENDS Integers, FiniteSetsExt, SequencesExt

CONSTANTS
    Concurrency, AskedKeys, HotKeys, Batch, Workloads, LateEffects, ReadSize,
    MaxSeq,
    SeedSize,      \* records per seeding call
    Warmups,       \* connections to warm, 0 without -warm-connections
    Tickets,       \* calls that fall due before the deadline at the -rate
    Offered        \* calls the report expects

VARIABLES
    record, counts, pending, position, executed, loose, workload, phase,
    begin, size, reconciled,
    setup,         \* "seeding", "warming", "running" or "failed"
    seeded,        \* records created
    warmed,        \* connections warmed
    stage,         \* where each worker is: "loop", "waiting", "writing", "reading", "left"
    tickets,       \* calls claimed
    keys,          \* the records of a worker's call, in the order asked for
    results,       \* the results received for it, in the order received
    rpcs,          \* calls a worker has finished
    erred,         \* the workers with an error
    ended,         \* "no", "deadline" passed, or the context "interrupted"
    damaged        \* the store has damaged a record

Load == INSTANCE PerfLoad WITH
    calling <- [w \in 0..(Concurrency - 1) |->
                  IF stage[w] = "writing" THEN ToSet(keys[w]) ELSE {}],
    left <- {w \in 0..(Concurrency - 1) : stage[w] = "left"}

\* ceil(rate * duration) calls fall due, the report takes the floor.  Without
\* -rate nothing is expected, and Tickets only bounds the calls.
ASSUME PaceAssumption ==
    /\ SeedSize \in Nat \ {0} /\ Warmups \in Nat
    /\ Tickets \in Nat \ {0} /\ Offered \in {0, Tickets - 1, Tickets}

\* The settings validateSettings lets through.
ASSUME LoadAssumption == Load!SettingsAssumption /\ Load!ValidAssumption

Workers == Load!Workers
store == <<record, loose, executed>>
ledger == <<counts, pending, position, workload>>
audit == <<phase, begin, size, reconciled>>
prepared == <<setup, seeded, warmed>>
calls == <<stage, tickets, keys, results, rpcs, erred>>
environment == <<ended, damaged>>
vars == <<store, ledger, audit, prepared, calls, environment>>

Init ==
    /\ stage = [w \in Workers |-> "loop"] /\ keys = [w \in Workers |-> <<>>]
    /\ results = [w \in Workers |-> <<>>] /\ rpcs = [w \in Workers |-> 0]
    /\ tickets = 0 /\ erred = {}
    /\ setup = "seeding" /\ seeded = 0 /\ warmed = 0
    /\ ended = "no" /\ damaged = FALSE
    /\ Load!Init
-----------------------------------------------------------------------------
(* seed and the warm-up. *)

Seed ==
    /\ setup = "seeding"
    /\ seeded' = Load!Least(Load!TotalKeys, seeded + SeedSize)
    /\ setup' = IF seeded' < Load!TotalKeys THEN "seeding"
                ELSE IF Warmups = 0 THEN "running" ELSE "warming"
    /\ UNCHANGED <<store, ledger, audit, warmed, calls, environment>>

\* Reads record 0 on the next connection.
Warm ==
    /\ setup = "warming"
    /\ warmed' = warmed + 1
    /\ setup' = IF warmed' = Warmups THEN "running" ELSE "warming"
    /\ UNCHANGED <<store, ledger, audit, seeded, calls, environment>>

SetupFails ==
    /\ setup \in {"seeding", "warming"}
    /\ setup' = "failed"
    /\ UNCHANGED <<store, ledger, audit, seeded, warmed, calls, environment>>

Prepare == Seed \/ Warm \/ SetupFails
-----------------------------------------------------------------------------
(* worker.run. *)

Move(w, from, to) == stage[w] = from /\ stage' = [stage EXCEPT ![w] = to]

\* Takes the next ticket and waits until it is due, or leaves when that is
\* not before the deadline.
Claim(w) ==
    /\ setup = "running" /\ ended = "no"
    /\ Move(w, "loop", IF tickets < Tickets THEN "waiting" ELSE "left")
    /\ tickets' = tickets + 1
    /\ UNCHANGED <<store, ledger, audit, prepared, keys, results, rpcs, erred, environment>>

\* The condition of the loop fails, or the wait is cut short.
Leave(w) ==
    /\ setup = "running"
    /\ \/ ended # "no" /\ Move(w, "loop", "left")
       \/ ended = "interrupted" /\ Move(w, "waiting", "left")
    /\ UNCHANGED <<store, ledger, audit, prepared, tickets, keys, results, rpcs, erred, environment>>

\* Whether the call of an iteration is a read or a count.
IsRead(iteration) ==
    workload \in {"read", "count"} \/ (workload = "mixed" /\ iteration % 5 = 0)

\* A worker's ticket is due, however late.
Call(w) ==
    /\ Move(w, "waiting", IF IsRead(rpcs[w]) THEN "reading" ELSE "writing")
    /\ keys' = [keys EXCEPT ![w] =
          [i \in 1..Batch |-> Load!First(w) + ((position[w] + i - 1) % Load!PerWorker)]]
    /\ \A i \in 1..Batch : counts[w][keys'[w][i]] < MaxSeq
    /\ position' = [position EXCEPT ![w] = Load!Advanced(w)]
    /\ UNCHANGED <<store, counts, pending, workload, audit, prepared, tickets, results,
                   rpcs, erred, environment>>

\* Mutated form: a failed write is tried again at once.
FinishRetried(w, success) ==
    /\ stage' = [stage EXCEPT ![w] = IF success THEN "loop" ELSE "waiting"]
    /\ keys' = [keys EXCEPT ![w] = <<>>] /\ results' = [results EXCEPT ![w] = <<>>]
    /\ rpcs' = [rpcs EXCEPT ![w] = IF success THEN @ + 1 ELSE @]
    /\ erred' = IF success THEN erred ELSE erred \cup {w}
    /\ UNCHANGED <<record, position, workload, audit, prepared, tickets, environment>>

\* The call is over, and counted as a success or with its errors.
Finish(w, success) ==
    /\ stage' = [stage EXCEPT ![w] = "loop"]
    /\ keys' = [keys EXCEPT ![w] = <<>>] /\ results' = [results EXCEPT ![w] = <<>>]
    /\ rpcs' = [rpcs EXCEPT ![w] = @ + 1]
    /\ erred' = IF success THEN erred ELSE erred \cup {w}
    /\ UNCHANGED <<record, position, workload, audit, prepared, tickets, environment>>

ReadReturns(w) ==
    /\ stage[w] = "reading"
    /\ \E success \in BOOLEAN : Finish(w, success)
    /\ UNCHANGED <<counts, pending, executed, loose>>
-----------------------------------------------------------------------------
(* collectWrite and worker.write. *)

Statuses == {"applied", "refused", "unknown"}
Received(w) == {r.index : r \in ToSet(results[w])}
KeyOf(w, result) == keys[w][result.index]

\* External: an operation of a live call takes effect, unless it was refused.
Execute(w, k) ==
    /\ UNCHANGED <<ledger, audit, prepared, calls, environment>>
    /\ \A r \in ToSet(results[w]) : r.status = "refused" => KeyOf(w, r) # k
    /\ Load!Execute(w, k)

\* A frame brings the next result.
Receive(w) ==
    /\ stage[w] = "writing"
    /\ \E i \in (1..Batch) \ Received(w), status \in Statuses :
          /\ status = "applied" => keys[w][i] \in executed[w]
          /\ status = "refused" => keys[w][i] \notin executed[w]
          /\ results' = [results EXCEPT ![w] = Append(@, [index |-> i, status |-> status])]
    /\ UNCHANGED <<store, ledger, audit, prepared, stage, tickets, keys, rpcs, erred, environment>>

\* Mutated form: results stay in the order they came in.
Unsorted(received) == received

\* The results of a stream that has ended, in the order of its operations.
Sorted(received) ==
    CHOOSE answer \in [DOMAIN received -> ToSet(received)] :
        /\ ToSet(answer) = ToSet(received)
        /\ \A i, j \in DOMAIN received : i < j => answer[i].index < answer[j].index

\* The stream ended with a result for every operation.
Account(w) ==
    /\ stage[w] = "writing" /\ Len(results[w]) = Batch
    /\ LET answer == Sorted(results[w])
           With(status) == {keys[w][i] : i \in {j \in 1..Batch : answer[j].status = status}}
           open == pending[w] \cup With("unknown")
       IN /\ counts' = [counts EXCEPT ![w] =
                [k \in Load!Keys |-> IF k \in With("applied") THEN @[k] + 1 ELSE @[k]]]
          /\ pending' = [pending EXCEPT ![w] = open \ With("applied")]
          /\ loose' = loose \cup {Load!Operation(w, k) : k \in With("unknown")}
          /\ Finish(w, With("applied") = ToSet(keys[w]))
    /\ executed' = [executed EXCEPT ![w] = {}]

\* The call failed, or its stream failed or ended too early: what was
\* received is dropped.
LoseAnswer(w) ==
    /\ stage[w] = "writing"
    /\ pending' = [pending EXCEPT ![w] = @ \cup ToSet(keys[w])]
    /\ loose' = loose \cup {Load!Operation(w, k) : k \in ToSet(keys[w])}
    /\ executed' = [executed EXCEPT ![w] = {}]
    /\ Finish(w, FALSE)
    /\ UNCHANGED counts
-----------------------------------------------------------------------------
(* The deadline, the signals, the store, and what follows the workers. *)

Running == setup = "running" /\ phase = "load"

\* Only a worker at the head of its loop looks at the time, so that the step
\* is taken no earlier than that.
Deadline ==
    /\ Running /\ \E w \in Workers : stage[w] = "loop"
    /\ ended = "no" /\ ended' = "deadline"
    /\ UNCHANGED <<store, ledger, audit, prepared, calls, damaged>>

\* The same for the context, which waits and reads look at too.
Interrupt ==
    /\ setup = "running"
    /\ \/ phase = "verifying"
       \/ phase = "load" /\ \E w \in Workers : stage[w] \in {"loop", "waiting"}
    /\ ended # "interrupted" /\ ended' = "interrupted"
    /\ UNCHANGED <<store, ledger, audit, prepared, calls, damaged>>

\* External: the store damages a record, once and between two calls.
Damage(k) ==
    /\ Running /\ ~damaged /\ damaged' = TRUE
    /\ \A w \in Workers : stage[w] \in {"loop", "left"}
    /\ UNCHANGED <<ledger, audit, prepared, calls, ended>>
    /\ Load!Corrupt(k)

\* Reconciliation; every read fails once the context is cancelled.
Conclude ==
    /\ setup = "running"
    /\ UNCHANGED <<store, ledger, prepared, calls, environment>>
    /\ \/ Load!Reconcile
       \/ Load!Verify /\ (ended = "interrupted" => phase' = "aborted")

Next ==
    \/ Prepare \/ Deadline \/ Interrupt \/ Conclude
    \/ \E w \in Workers :
          \/ Claim(w) \/ Leave(w) \/ Call(w) \/ ReadReturns(w) \/ Receive(w)
          \/ Account(w) \/ LoseAnswer(w)
          \/ \E k \in Load!Keys : Execute(w, k)
    \/ \E k \in Load!Keys : Damage(k)

\* Setup calls and reconciliation reads have timeouts, so do the workers'
\* calls; timers fire and the deadline passes.  Nobody has to be answered.
Spec ==
    /\ Init /\ [][Next]_vars
    /\ WF_vars(Prepare) /\ WF_vars(Deadline) /\ WF_vars(Conclude)
    /\ \A w \in Workers :
          /\ WF_vars(Claim(w) \/ Leave(w)) /\ WF_vars(Call(w))
          /\ WF_vars(ReadReturns(w)) /\ WF_vars(Account(w) \/ LoseAnswer(w))
-----------------------------------------------------------------------------
(* The report. *)

RPCs == SumFunction(rpcs)
NotIssued == IF RPCs < Offered THEN Offered - RPCs ELSE 0

\* Mutated form: only reconciliation decides.
HealthyByData == phase = "verified"

Healthy == phase = "verified" /\ erred = {} /\ NotIssued = 0

Writes(w) == Cardinality({i \in 0..(rpcs[w] - 1) : ~IsRead(i)})

\* A run that reports itself healthy made every call it offered, had every
\* operation it issued acknowledged, left none open, and the store holds
\* exactly those, damage or not.
HealthyIsEarned ==
    Healthy =>
        /\ RPCs >= Offered
        /\ \A w \in Workers : pending[w] = {}
        /\ Load!Acknowledged = Batch * SumFunction([w \in Workers |-> Writes(w)])
        /\ Load!Stored = Load!Acknowledged

\* A run accuses the store only of damage it did, and reports calls as not
\* issued only when the deadline or an interruption cut it short.
UnhealthyIsGenuine ==
    /\ phase \in {"wrong_sequence", "wrong_value"} => damaged
    /\ phase # "load" /\ NotIssued > 0 => ended # "no"

\* A run that verifies has lost and doubled no acknowledged write.
VerifiedAccounts == Load!VerifiedAccounts

\* Frames in any order, tickets, reads and interruptions only ever do what
\* the load generator of PerfLoad may do.
Implements == Load!FaultySpec

\* A run always ends, in a verdict or a failed setup.
Concludes == <>(setup = "failed" \/ phase \notin {"load", "verifying"})
=============================================================================
