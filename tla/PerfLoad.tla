------------------------------ MODULE PerfLoad ------------------------------
(***************************************************************************)
(* tools/sink-perf/main.go: concurrent workers send numbered writes for    *)
(* batches of records, keep going when calls fail, and in the end compare  *)
(* what is stored with what was acknowledged.  Sink is external: an        *)
(* operation of a live call takes effect at most once, and one whose       *)
(* answer was lost may still take effect later, any number of times.       *)
(***************************************************************************)
EXTENDS Integers, FiniteSets, Functions

CONSTANTS
    Concurrency,   \* workers
    AskedKeys,     \* the -keys flag
    HotKeys,       \* the -hot-keys flag: shared records, 0 for partitions
    Batch,         \* operations per call
    Workloads,     \* the -workload flags considered
    LateEffects,   \* an operation with a lost answer may take effect later
    ReadSize,      \* the first batch size of reconciliation
    MaxSeq         \* bound on the writes of one worker to one record

ASSUME SettingsAssumption ==
    /\ Concurrency \in Nat \ {0} /\ AskedKeys \in Nat \ {0} /\ HotKeys \in Nat
    /\ Batch \in Nat \ {0} /\ ReadSize \in Nat \ {0} /\ MaxSeq \in Nat
    /\ Workloads \subseteq {"merge", "heavy-merge", "upsert", "read", "count", "mixed"}
    /\ LateEffects \in BOOLEAN

Workers == 0..(Concurrency - 1)

\* validateSettings: records per worker and altogether.
PerWorker ==
    IF HotKeys > 0 THEN HotKeys
    ELSE IF Batch > (AskedKeys + Concurrency - 1) \div Concurrency
         THEN Batch ELSE (AskedKeys + Concurrency - 1) \div Concurrency
TotalKeys == IF HotKeys > 0 THEN HotKeys ELSE PerWorker * Concurrency

\* The settings validateSettings lets through.
ASSUME ValidAssumption ==
    /\ Batch <= PerWorker
    /\ HotKeys > 0 => "upsert" \notin Workloads
    /\ "count" \in Workloads => Batch = 1

Keys == 0..(TotalKeys - 1)

\* The records worker w writes.
First(w) == IF HotKeys > 0 THEN 0 ELSE w * PerWorker
Owned(w) == First(w)..(First(w) + PerWorker - 1)

VARIABLES
    record,      \* the stored documents
    counts,      \* counts[w][k]: acknowledged writes
    pending,     \* pending[w]: records with a write of unknown outcome
    position,    \* where in its records each worker continues
    calling,     \* the records of each worker's live call
    executed,    \* those of its operations that have taken effect
    loose,       \* operations whose answers were lost
    workload,    \* the -workload flag
    left,        \* the workers that have returned
    phase,
    begin,       \* the first record still to reconcile
    size,        \* records per reconciliation read
    reconciled   \* unacknowledged writes found to have taken effect

load == <<counts, pending, position, calling, executed, loose>>
audit == <<phase, begin, size, reconciled>>
run == <<workload, left>>
vars == <<record, load, run, audit>>

Init ==
    /\ record = [k \in Keys |-> [value |-> 0, seen |-> [w \in Workers |-> 0]]]
    /\ counts = [w \in Workers |-> [k \in Keys |-> 0]]
    /\ pending = [w \in Workers |-> {}]
    /\ position = [w \in Workers |-> 0]
    /\ calling = [w \in Workers |-> {}] /\ executed = [w \in Workers |-> {}]
    /\ loose = {} /\ workload \in Workloads /\ left = {}
    /\ phase = "load" /\ begin = 0 /\ size = ReadSize /\ reconciled = 0
-----------------------------------------------------------------------------
(* The workload. *)

\* Mutated form: the merge program does not compare sequence numbers.
WrittenBlindly(doc, w, seq) ==
    [value |-> doc.value + 1, seen |-> [doc.seen EXCEPT ![w] = seq]]

\* The document after an operation: the merge program ignores a sequence
\* number it has seen, an upsert replaces everything.
Written(doc, w, seq) ==
    IF workload = "upsert" THEN [value |-> seq, seen |-> [v \in Workers |-> IF v = w THEN seq ELSE 0]]
    ELSE IF seq <= doc.seen[w] THEN doc
    ELSE [value |-> doc.value + 1, seen |-> [doc.seen EXCEPT ![w] = seq]]

Operation(w, k) == [writer |-> w, key |-> k, seq |-> counts[w][k] + 1]
Store(op) == record' = [record EXCEPT ![op.key] = Written(@, op.writer, op.seq)]

BatchOf(w) == {First(w) + ((position[w] + i) % PerWorker) : i \in 0..(Batch - 1)}

\* Where worker w continues after a batch.
Advanced(w) == (position[w] + Batch) % PerWorker

\* Worker w starts a call for the next records in its cycle.
Issue(w) ==
    /\ w \notin left /\ calling[w] = {}
    /\ \A k \in BatchOf(w) : counts[w][k] < MaxSeq
    /\ calling' = [calling EXCEPT ![w] = BatchOf(w)]
    /\ position' = [position EXCEPT ![w] = Advanced(w)]
    /\ UNCHANGED <<record, counts, pending, executed, loose, run, audit>>

\* Worker w reads or counts instead, which only moves it on.
Browse(w) ==
    /\ w \notin left /\ calling[w] = {}
    /\ position' = [position EXCEPT ![w] = Advanced(w)]
    /\ UNCHANGED <<record, counts, pending, calling, executed, loose, run, audit>>

\* External: an operation of a live call takes effect.
Execute(w, k) ==
    /\ k \in calling[w] \ executed[w]
    /\ Store(Operation(w, k))
    /\ executed' = [executed EXCEPT ![w] = @ \cup {k}]
    /\ UNCHANGED <<counts, pending, position, calling, loose, run, audit>>

\* External: an operation whose answer was lost takes effect after all.
Straggle(op) ==
    /\ LateEffects /\ op \in loose
    /\ Store(op)
    /\ UNCHANGED <<load, run, audit>>

\* The call fails as a whole or its answer is incomplete: every operation has
\* an unknown outcome.
LoseAnswer(w) ==
    /\ calling[w] # {}
    /\ pending' = [pending EXCEPT ![w] = @ \cup calling[w]]
    /\ loose' = loose \cup {Operation(w, k) : k \in calling[w]}
    /\ calling' = [calling EXCEPT ![w] = {}]
    /\ executed' = [executed EXCEPT ![w] = {}]
    /\ UNCHANGED <<record, counts, position, run, audit>>

\* Mutated form: a refusal clears what earlier calls left unknown.
SettledByRefusal(applied, refused) == applied \cup refused

\* The records an answer leaves without a write of unknown outcome.
Settled(applied, refused) == applied

\* The answer arrives: operations were applied, refused without effect
\* (mayHaveCommitted is false), or neither for certain.
Answer(w) ==
    /\ calling[w] # {}
    /\ \E applied \in SUBSET executed[w] :
       \E refused \in SUBSET (calling[w] \ executed[w]) :
          LET unknown == calling[w] \ (applied \cup refused) IN
          /\ counts' = [counts EXCEPT ![w] =
                [k \in Keys |-> IF k \in applied THEN @[k] + 1 ELSE @[k]]]
          /\ pending' = [pending EXCEPT ![w] =
                (@ \cup unknown) \ Settled(applied, refused)]
          /\ loose' = loose \cup {Operation(w, k) : k \in unknown}
    /\ calling' = [calling EXCEPT ![w] = {}]
    /\ executed' = [executed EXCEPT ![w] = {}]
    /\ UNCHANGED <<record, position, run, audit>>

\* External: the store damages a record.
Corrupt(k) ==
    /\ phase = "load"
    /\ \/ \E n \in {record[k].value - 1, record[k].value + 1} :
             record' = [record EXCEPT ![k].value = n]
       \/ \E w \in Workers : \E n \in 0..record[k].seen[w] :
             record' = [record EXCEPT ![k].seen[w] = n]
    /\ record'[k].value \in 0..(MaxSeq * Concurrency)
    /\ UNCHANGED <<load, run, audit>>

\* Worker w is done: the deadline, the last ticket or an interruption.
Leave(w) ==
    /\ calling[w] = {}
    /\ left' = left \cup {w}
    /\ UNCHANGED <<record, load, workload, audit>>

\* Every worker has returned.
Reconcile ==
    /\ phase = "load" /\ left = Workers
    /\ phase' = "verifying"
    /\ UNCHANGED <<record, load, run, begin, size, reconciled>>
-----------------------------------------------------------------------------
(* verify. *)

Least(m, n) == IF m < n THEN m ELSE n
BatchEnd == Least(TotalKeys, begin + size)
Reading == begin..(BatchEnd - 1)

\* The response exceeds the deployment's limit: read fewer records.
ReadLess ==
    /\ BatchEnd - begin > 1
    /\ size' = (BatchEnd - begin) \div 2
    /\ UNCHANGED <<phase, begin, reconciled>>

ReadFails == phase' = "aborted" /\ UNCHANGED <<begin, size, reconciled>>

\* A write of unknown outcome turns out to have taken effect.
Recovered(w, k) ==
    record[k].seen[w] = counts[w][k] + 1 /\ k \in pending[w]
Expected(w, k) == IF Recovered(w, k) THEN counts[w][k] + 1 ELSE counts[w][k]

\* Mutated form: a worker's first record is taken for its predecessor's.
OwnersNext(k) == {w \in Workers : k - 1 \in Owned(w)}

\* The workers that write record k.
Owners(k) == {w \in Workers : k \in Owned(w)}

SequencesMatch(k) == \A w \in Owners(k) : record[k].seen[w] = Expected(w, k)

\* Mutated form: only the sequences are compared.
ValueUnchecked(k) == TRUE

ValueMatches(k) ==
    record[k].value = SumFunctionOnSet([w \in Workers |-> Expected(w, k)], Owners(k))

ReadBatch ==
    /\ \A k \in Reading : SequencesMatch(k) /\ ValueMatches(k)
    /\ reconciled' = reconciled +
          Cardinality({wk \in Workers \X Reading :
                         wk[1] \in Owners(wk[2]) /\ Recovered(wk[1], wk[2])})
    /\ begin' = BatchEnd
    /\ phase' = IF BatchEnd = TotalKeys THEN "verified" ELSE phase
    /\ UNCHANGED size

\* The first record that does not agree ends the reconciliation.
Disagree(k) ==
    /\ k \in Reading
    /\ \A j \in Reading : j < k => SequencesMatch(j) /\ ValueMatches(j)
    /\ \/ ~SequencesMatch(k) /\ phase' = "wrong_sequence"
       \/ SequencesMatch(k) /\ ~ValueMatches(k) /\ phase' = "wrong_value"
    /\ UNCHANGED <<begin, size, reconciled>>

Verify ==
    /\ phase = "verifying"
    /\ ReadLess \/ ReadFails \/ ReadBatch \/ \E k \in Keys : Disagree(k)
    /\ UNCHANGED <<record, load, run>>

Next ==
    \/ \E w \in Workers :
          \/ Issue(w) \/ Browse(w) \/ LoseAnswer(w) \/ Answer(w) \/ Leave(w)
          \/ \E k \in Keys : Execute(w, k)
    \/ \E op \in loose : Straggle(op)
    \/ Reconcile \/ Verify

Spec == Init /\ [][Next]_vars

\* The same over a store that damages records during the load.
FaultySpec == Init /\ [][Next \/ \E k \in Keys : Corrupt(k)]_vars
-----------------------------------------------------------------------------
TypeOK ==
    /\ record \in [Keys -> [value : Int, seen : [Workers -> Nat]]]
    /\ counts \in [Workers -> [Keys -> Nat]]
    /\ pending \in [Workers -> SUBSET Keys]
    /\ position \in [Workers -> 0..(PerWorker - 1)]
    /\ calling \in [Workers -> SUBSET Keys]
    /\ executed \in [Workers -> SUBSET Keys]
    /\ loose \subseteq [writer : Workers, key : Keys, seq : Nat]
    /\ workload \in Workloads /\ left \subseteq Workers
    /\ phase \in {"load", "verifying", "verified", "wrong_sequence", "wrong_value", "aborted"}
    /\ begin \in 0..TotalKeys /\ size \in Nat \ {0} /\ reconciled \in Nat

\* Whatever was lost, retried or late, a writer's stored sequence is never
\* behind what was acknowledged to it and never more than one ahead, and a
\* write that is ahead is one the worker knows may have been applied.
AtMostOneAhead ==
    \A w \in Workers, k \in Keys :
        LET ahead == record[k].seen[w] - counts[w][k] IN
        ahead \in 0..1 /\ (ahead = 1 => k \in pending[w] \cup calling[w])

\* Reconciliation never accuses a backend that kept its promises.
NoFalseAlarm == phase \notin {"wrong_sequence", "wrong_value"}

Acknowledged == SumFunction([w \in Workers |-> SumFunction(counts[w])])
Stored == SumFunction([k \in Keys |-> record[k].value])
Unknown == SumFunction([w \in Workers |-> Cardinality(pending[w])])

\* Whatever the store did during the load, a run that verifies has lost and
\* doubled no acknowledged write, and what it reports as reconciled is stored.
VerifiedAccounts ==
    phase = "verified" =>
        Acknowledged + reconciled <= Stored /\ Stored <= Acknowledged + Unknown

\* Retried, duplicated and late merges count exactly once.
Ledger == INSTANCE ExactlyOnce WITH
    Writers <- Workers, Records <- Keys, acked <- counts,
    done <- [w \in Workers |-> [k \in Keys |-> record[k].seen[w]]],
    value <- [k \in Keys |-> record[k].value]
CountsOnce == Ledger!Spec
=============================================================================
