# A TLA+ model of the Sink production suite

The repository qualifies Sink, a document service whose own source is elsewhere.
What it contains is therefore a collection of *judges*: checkers, load
generators, soak tests, a fault proxy, crash tests and reference models that
decide whether a server kept its promises.  A judge can be wrong in two ways.  It
can accuse a server that did nothing wrong, or it can pass one that did.  Almost
every property in this directory says that one of the two cannot happen, under
the interleavings, lost answers, late effects, crashes and restarts the judge is
exposed to.  The server is the environment of every model: external,
nondeterministic, and either honest or faulty in a stated way.

References such as `history.go:83` are to files of the repository; PROJECT.json
maps every definition to the lines it models.

## Inventory

| Component | State it keeps | Operations | What is hard | What makes it correct |
| --- | --- | --- | --- | --- |
| History checker, `internal/historycheck/history.go` | call stack of `visit`, memo `rejected`, `exhausted` | `Check`, `visit`, `apply` | pruning on a memo, two meanings of `false`, strict real time | acceptance and rejection are both right; the memo is sound; the search ends |
| Concurrent histories, `conformance/history_test.go` | shared clock, one history entry per call | stamp, call, stamp, final read, check | clients interleave; calls fail after taking effect | an honest server is accepted; lost and repeated effects are not |
| Load generator, `tools/sink-perf` | seeding position, ticket counter; per worker: counts, pending marks, position, errors; reconciliation cursor | seed, warm, claim a ticket, call, collect results, reconcile, report | lost answers, results out of order, late and repeated merges, shrinking reads, deadline and signals | every write counts once; reconciliation is right both ways; a healthy report is earned |
| Fault proxy, `conformance/harness_test.go` | gates with counters, `entered` and `release` channels, held exchanges | hold, open, discard, handle, disconnect, clean up | handlers race with the test and with a crash | what a test concludes from a caught exchange is true; cleanups end |
| Crash and fault tests, `conformance/faults_test.go`, `kafka_faults_test.go` | the step of the script, the processes, the gate | hold, write, wait, crash, open or discard, restart, retry, count | the crash falls between any two steps of proxy and candidate | an honest candidate passes; a passing one did what the test says |
| Storage soak, `integration/soak_integration_test.go` | per cycle: step, observation window; per test: two contexts, an error channel | create, merge, delete with reconciliation; cancel; conclude | ambiguous outcomes, late effects, redelivery, first-error race | no correct server fails it; a pass is earned |
| Load test, `integration/load_integration_test.go` | unbuffered job channel, results, one context | feed, work, judge, read back | feeder and workers leave at a time limit | no task is lost; the verdict names the cause |
| Test events, `internal/testevents/events.go`, `cmd/check-test-events` | three maps, a counter, the required names | one transition per event | packages interleave; streams break off | accepted exactly if green |
| State checker, `internal/statecheck/model.go` | expected documents, unsent batch | write, flush, delete, read | prediction ahead of a batch | accuses only a server that erred; passes only the sequential semantics |
| Lua engine and JSON bridge, `internal/luatest/engine.go`, `json_bridge.go` | the virtual machine, the time a merge sees, the `active` tables of a conversion | load, merge, convert both ways, close | shared, cyclic and holed tables; typed and untyped ones; every error path | cycles and only cycles are refused; what is converted is what was returned; documents come back |
| Merges, `internal/reference`, `programs/*.lua`, `internal/luatest/sink_v1.lua` | one document | merge | two implementations, two ways to tell items apart, caps, redelivery | the two agree; repeats change nothing |

How they interact: the history test calls the checker on what its clients
recorded; the soak and load tests call a server that runs the merge programs; the
crash tests steer the proxy between a candidate process and the backend; the Lua
engine runs the merge programs for the comparison with the reference model; the
scripts hand the output of all of them to the test-event validator.  Shared state
exists within a component only (channels, contexts, the proxy's mutex, the history
test's atomic clock, the load generator's ticket counter); between components
there are calls and files.

PROJECT.json lists all 21 parts of the repository.  See *Not modelled* for those
left out.

## Modules

| Module | Role |
| --- | --- |
| `SequentialDocument` | the sequential record: effect and answer of every kind of call (`apply`) |
| `Linearizability` | what explains a history (`Explainable`), and the single step of the search |
| `HistoryCheck` | the search itself as a state machine |
| `HistoryWorkload` | the concurrent test; composes `HistoryCheck` (`Checker == INSTANCE`) on the history it records |
| `PerfLoad` | the writes of the load generator, its backend, and reconciliation |
| `ExactlyOnce` | abstract counters; `PerfLoad` implements them (`CountsOnce`) |
| `PerfRun` | a whole run of the load generator, from seeding to the report; implements `PerfLoad` (`Implements`, with `Load == INSTANCE PerfLoad WITH ...`) |
| `BackendProxy` | gates, handlers, cleanup |
| `CrashBoundaries` | the crash and fault tests as scripts, a candidate and the stored record; extends `BackendProxy` and implements its specification |
| `WorkerPool` | the workers, where each is, and the result, which the two pools share |
| `SoakCycle`, `SoakPool` | one cycle against a server; the workers and the end of the test |
| `LoadPool` | feeder, workers and verdict of the load test |
| `TestEvents` | `go test -json`, the validator that reads it, the command around it |
| `StateCheck` | the oracle, its batches and a server that may err |
| `JsonBridge` | Lua values and tables, documents, and what the bridge reads off them |
| `LuaEngine` | the engine and the recursive conversion as a stack of live calls |
| `MergeLists`, `ProductMerge`, `OfferMerge` | list helpers and Lua tables; the two merges, each in Go and in Lua, as operators |
| `MergeReplay` | a partition's log merged by both implementations side by side; composes `ProductMerge` and `OfferMerge` |
| `*MC` | values of constants for TLC; `SequentialJudgesMC` lets one judge or the other run, as they share nothing |
| `HistoryCheckProofs`, `HistoryWorkloadProofs`, `PerfLoadProofs`, `PerfRunProofs` | theorems about the module of that name |
| `CrashBoundariesProofs` | theorems about `BackendProxy`, through refinement about `CrashBoundaries`, and about what its scripts conclude |
| `IntegrationProofs` | theorems about `SoakCycle`, `SoakPool` and `LoadPool` |
| `SequentialJudgesProofs` | theorems about `TestEvents` and `StateCheck` |
| `LuaProofs` | theorems about `LuaEngine` and `MergeReplay` |

### How the state corresponds

- **HistoryCheck.**  A frame of `stack` is a live call of `visit`: the visited
  bit mask as a set of indices, the value, and the next loop index.  `Reaches`
  is the loop with its `continue`s; `Accept`, `Prune`, `Exhaust` and `Descend`
  are what the body does, in the order of the early returns (`history.go:80-99`);
  `Backtrack` is the end of the loop with the write to the memo.  Counters are
  integers rather than 64-bit words.
- **HistoryWorkload.**  `stage` separates the stamp, the effect and the return of
  a call.  A failed call may take effect later (`abandoned`), as a timed-out RPC
  may.  The final read, which may fail too, the overlap requirement and the verdict are `FinalRead`,
  `Overlaps`, `Judge`.
- **PerfLoad.**  `counts`, `pending` and `position` are the worker's own arrays;
  `calling`/`executed` are a call under way, `loose` its operations after the
  answer was lost, `left` the workers that have returned.  `Settled` is where an
  acknowledgement clears the pending mark and a refusal does not
  (`main.go:711-715`).  The second half is `verify`: shrinking reads, recovery of
  unacknowledged writes, both error returns.  `Spec` is a store that damages
  nothing; `FaultySpec` adds damage.
- **PerfRun.**  `setup` is seeding and warming; `stage` is a worker's place in
  `run`: at the head of its loop, waiting for its ticket to fall due, in a write
  or a read.  `results` are the frames of `collectWrite` in the order received;
  `Sorted` restores the order of the operations before they are accounted.
  `erred`, `rpcs` and `NotIssued` are what the report's verdict looks at besides
  reconciliation.  `ended` is the deadline or a signal.
- **BackendProxy.**  `caught` is the `entered` channel, `release` the channel a
  handler waits on, with `marked` for the instant in `discard` between setting
  the flag and closing the channel.  `held` are the gates an exchange matched
  when it was counted under the lock; it passes them in the order of their
  registration (`Turn`).  `gone` is the request context: the proxy may learn of a
  crash long after it.
- **CrashBoundaries.**  `Script` has a row per test, read off its body: each name
  is a call or an assertion of the test, and `step` is how far it is.  `Gating`,
  `Awaiting`, `Asserting`, `Write`, `Cancel`, `Crash`, `Start` are those calls.
  The candidate is external: it reads, merges, sends, and tells its caller or
  commits an offset; `fault` says how it breaks its word (acknowledges early,
  replays a write, resumes at the wrong place).  `document` is what is stored.
  The test "any" is no script: it leaves gates and exchanges free.
- **SoakCycle.**  `mode` is the place in `writeSoakWithReconciliation` and its
  delete twin: calling, awaiting, observing (after an ambiguous answer),
  verifying (after a positive one).  The server keeps attempts in `pending`; an
  asynchronous one applies them in log order and repeats the `replayable` last
  effects after a restart, a late synchronous one applies them in any order and at
  any time.  The window ends on its timer, whatever the server still holds;
  `overdue` remembers that it held a create.  **SoakPool** abstracts a cycle to its outcome and
  models the two contexts and the channel of capacity one.
- **LoadPool.**  `HandOver` is a meeting on the unbuffered channel; `Judged` the
  order of the checks after the wait (`load_integration_test.go:121-136`).
- **TestEvents.**  Each action writes one event and the validator reads it; the
  environment knows what really happened (`life`, `status`), the validator only
  its maps.  `list` is the `-require` flag as split at its commas, `OpenFile` the
  command's own error path.
- **StateCheck.**  `state`/`expected` are the checker's predictions, `stored` the
  server, and `ideal`/`due` what the server's semantics demands; the last two
  exist in the model only.
- **LuaEngine.**  A frame of `stack` is a live call of `luaToGo` inside a table:
  the table, the path from the root and the keys still to visit.  `active` is the
  parameter of that name; `output` maps every path converted so far to its kind
  and the value it came from.  `Descend` is one turn of a loop, `Return` the
  deferred `delete(active, ...)`, `Refuse` any error, which unwinds all calls.  A
  heap gives each table its entries, its type mark, and the length Lua answers
  for it: with holes, `#` may be any border.
- **Merges.**  Fields that the code treats alike are one field.  An item is a key
  and a body where both sides compute the same key (`OwnKey`).  A stock is told
  apart by its variables, arbitrary JSON: `productStockKey` takes a digest, the
  program's `stock_key` the text that `canonical` makes, and each merge is given its
  own key.  `canonical` gives an empty list, an empty object and null one text, and
  numbers that `Tostring` writes alike too (`Confusable`).  A Lua table is a function whose domain lacks absent fields, so that
  nil, zero and empty differ where they differ in the code; `Encode` and `Decode`
  are the JSON round trip with its `omitempty`.

Definitions introduced by "Mutated form" are wrong variants of the definition
below them: with one of them in its place the named run must find its property
violated.  They are not part of the model.

## Runs

Bounds are constants of the modules, chosen so that each run contains the
cases its property is about.

| Run | Instance | States | Shows |
| --- | --- | --- | --- |
| `history_check` | all histories of two or three calls from a menu of 11 over six overlap patterns, malformed ones, and four overlapping calls; `Budget` 6, `MaxEntries` 4 | 116,624 | both verdicts right (`AcceptedIsExplained`, `IllegalIsUnexplainable`), memo sound, search ends. With four overlapping calls the budget does run out. |
| `history_workload` | two clients with two calls of every kind on an honest store; three clients with one addition on a store that loses and repeats effects while calls fail; `Budget` and `MaxEntries` of the code | 1,188,171 | honest histories are accepted, a failed addition is never explained away |
| `perf_hot` | two workers, two shared records, calls of two, `MaxSeq` 2, answers partial or lost, late and repeated effects | 624,549 | stored sequences at most one ahead; no false alarm; refinement of `ExactlyOnce` |
| `perf_run` | two workers with partitions of two records, two tickets, calls of two, an upsert and a mixed workload; at most one damaged record; deadline and signals | 458,816 | a healthy report is earned, an unhealthy one genuine, a verified one accounts for every acknowledged write; the run implements `PerfLoad`; a run ends |
| `crash_boundaries` | eight scripts, each with an honest candidate and three kinds of broken ones, and the free test "any" with two exchanges, a request gate and a dropping response gate | 51,493 | crash boundaries, discarded requests, no false failure, what a pass means, cleanups end |
| `soak_cycle` | four servers in one run: asynchronous (3 faults, 2 restarts), synchronous (3 faults), synchronous with effects at any later time (3 faults), lossy (3 faults, 1 restart) | 5,900 | no correct server fails and nothing is left behind, unless a create is overdue; success is earned; the cycle completes |
| `soak_pool` | three workers, `MaxCycles` 2, `MinimumCycles` 2 | 7,516 | a pass is clean, a reported error genuine, the test ends |
| `load_pool` | two workers, four operations (more tasks than workers, so that the feeder blocks) | 31,802 | verdicts mean what they say, no task lost, feeder and test end |
| `sequential_judges` | the validator: two packages, two tests of the same names, `MaxRuns` 2, four `-require` flags; the state checker: two keys, sequences of three steps, batches of two, `MaxErrors` 1 | 316,296 | evidence accepted exactly if green; the state checker accuses only a server that erred and passes only the sequential semantics |
| `lua_engine` | three tables with up to two entries that may be each other, typed or not, arrays with holes and every length Lua may answer for them, every kind of value; one merge | 179,526 | cycles and only cycles refused, results converted faithfully, documents come back, a merge ends |
| `merge_replay` | limits 3, `MaxLog` 2, `MaxRestarts` 1, thirteen feeds that each vary one group of fields | 489,523 | Go and Lua agree, on stocks unless some that come in are confusable; repeats converge below the limits |
| `merge_confused` | as `merge_replay`, with one feed: stocks that differ in an empty list, an empty object or null | 203 | violated: the reference model and the program do not agree exactly (see the finding below) |

Why these bounds are enough to be useful: the hazards are races of two parties
or a sequence of two or three faults, and every run has at least that many; list
limits are reached with fewer items than a feed has; batches split unevenly;
partitions have a boundary; budgets run out; a crash falls between any two steps
of the proxy.  In `perf_run` each worker can make both calls, so that `MaxSeq` 2
never binds, and its store ends an attempt with its call (`LateEffects` is
FALSE): with late attempts upserts do raise a false alarm, see below.  In
`perf_run` the deadline and a signal happen when somebody is about to look at
them, and damage between two calls, which loses no outcome and keeps the run
small.  They are small instances nevertheless, which is why the arguments that
count or order something are also proved.

`CHECK_DEADLOCK` is off everywhere: every component terminates, and reaching the
end is a liveness property where the code promises it.

Types are stated in `TypeOK` of `HistoryCheck`, `PerfLoad`, `BackendProxy`,
`SoakCycle` and `LuaEngine`, in `PoolTypeOK`, `LoadTypeOK` and `EventsTypeOK` of
`SoakPool`, `LoadPool` and `TestEvents`.  No run spends a property on them.  All
are proved: as theorems (`TypeCorrectness`, `CycleTypes`, `PoolTypes`,
`LoadTypes`) or, for the proxy, within the inductive invariant (`Core`).  The
types of the other modules are stated where their proofs need them (`RunTypeOK`,
`ClientsOK`, `TypeOK` in the proof modules).

### Fairness

- `HistoryCheck`: weak fairness of the search; it is sequential code.
- `PerfRun`: setup, the workers' steps and reconciliation go on, since every call
  has a timeout and every wait a timer, and the deadline passes.  Nothing makes
  the backend apply or answer anything: a call may always end without an answer.
- `CrashBoundaries` (`AllSpec`): the test takes its next step, the candidate and
  each handler that can proceed do; gates are opened by the test or by its
  cleanup, never by assumption, and a proxy need not learn of a closed connection.
- `SoakCycle`: the client's own steps (each has a timeout or a ticker), and what
  the server holds takes effect in the end.  `Completes` is claimed only where
  the number of faults is finite and the cycle's time limit outlasts them.
- `SoakPool`, `LoadPool`: each goroutine runs, timers fire, calls return by the
  end of their context.
- `LuaEngine` (`FairSpec`): a call of the program returns by the engine's time
  limit, and the conversion is sequential code.

`PerfLoad`, `BackendProxy`, `TestEvents`, `StateCheck` and `MergeReplay` claim
safety only, and have no fairness.

## Proofs

TLAPS proves the 45 theorems listed in `PROJECT.json`, each for every value of the
constants.  Of the 40 properties the passing runs check they cover all 33 safety
properties; the seven liveness properties are named at the end.

**HistoryCheckProofs** (histories of any length, any budget, any documents).
The invariant is `IInv == TypeOK /\ PathOK /\ RefutedOK`.  `PathOK`: consecutive
frames of the stack are related by the entry the outer loop is at, so the stack
spells out a partial order of calls; when it accepts, that order is complete and
justified (`AcceptanceSound`).  `RefutedOK`: every entry a live loop has passed
leads nowhere, and, unless the search was abandoned, nor does any position in the
memo.  It needs the lemma `ExplanationBegins`: an explanation of a position
starts with some explicable entry and goes on from its successor.  Neither
verdict's property is inductive alone, since each speaks of the end of a search
whose middle they say nothing about.  Results: `TypeCorrectness`,
`AcceptanceSound`, `RejectionSound`, `MemoSound`.

**HistoryWorkloadProofs** (any number of clients and calls, any scripts and
budget).  What has to be found is an explanation of the recorded history, which
no variable holds: `HonestOK` says that one exists, namely the order in which the
calls took effect, the documents they left and the results they gave
(`Effects`), which belong to the calls that have taken effect and respect real
time (`Witnessed`).  A call that takes effect comes last in that order
(`EffectIInv`), a conflict too, without effect; a return stamps an end later than
every start before it (`ReturnIInv`), which is what keeps the order real; the
final read completes the order (`Explained`).  `Slot` divides the history among
the clients, and `Places` is its arithmetic.  From there on the invariant of the
checker takes over: `HC == INSTANCE HistoryCheckProofs` brings its lemmas along,
and `SameSearch` shows that the checker the test runs is that one.  Results:
`HonestIsNotRejected`, `FailedAddsUnexplained`.  `HonestIsNotRejected` leaves out
the verdict "exhausted": whether the budget suffices depends on the budget, and the
run shows it for that of the code.

**PerfLoadProofs** (any number of workers, records, operations per call).
`TypeCorrectness` holds of `FaultySpec` too and needs no assumption beyond the
settings the program validates.  The others assume `OnlyMergesLate`: where an
attempt may outlive its call, no upserts are run (see below why).  On a store that
damages nothing but may lose and delay anything (`Spec`), `Counted` brackets each
stored sequence between acknowledged and one more, ties the difference to a live
or pending operation, and says that a straggler's sequence is at most the next
one, and pending if it is.  From it follow `NeverFurtherAhead`, `NeverAccused`
(no sequence and no *value* is blamed) and `Refinement` of `ExactlyOnce`.  On any
store, `Audited` keeps the books of reconciliation record by record, so a run that
verifies has stored what was acknowledged and what it recovered
(`AccountsVerified`).  Values are sums over finite sets; the lemmas at the head of
the module prove what the library's fold computes (adding, removing and splitting
a set, rows of a table), by induction on the size of the set.

**PerfRunProofs** (any settings).  Every step of a run is a step of the load
generator over a store that may damage records, or leaves it alone:
`RunImplementsLoad`, without any hypothesis.  `LP == INSTANCE PerfLoadProofs`
carries the invariants over.  What the report adds is counted by `Tallied`: the
operations of the calls that went well, the tickets, and what is still pending;
`Paced` says why a call was not issued.  Results, where late attempts are merges:
`RunVerifiesAccounts`, `RunBlamesFairly`, `RunEarnsHealth`.

**CrashBoundariesProofs** (any gates, in any order, any exchanges).
`CrashBoundary` speaks of a caught exchange while its gate is shut.  The invariant
adds where that exchange can be: the catch of a shut request gate is still held by
it or lost (`RequestsAreHeld`), the catch of a response gate has been executed and
is held by it until the gate opens (`ResponsesAreHeld`).  An exchange may match
several gates and passes them in the order of registration, so `ResponsesInTurn`
is needed to see that a shut gate's catch has not been answered past it.  Results
about the proxy: `BoundaryIsTrue`, `DiscardLoses`.  About the tests:
`AllSpec => Spec`, as every step of a script, its candidate or the free test is a
step of the proxy or leaves it alone (`TestsRunTheProxy`), so what is proved of
the proxy holds in every test (`BoundaryInTests`), whatever the candidate does.

*The scripts* (any number of exchanges).  A verdict speaks of the end of a test
only; why it is right depends on all that the script believes on its way there.
So the invariant (`ScriptsInv`) says that as long as no script has failed, things
are where the script takes them to be (`Parts`).  Marks in the text of the
scripts (`After`) tell whether one is past its crash, its opened gate, its second
write.  In terms of them: which process is alive and what it has
been given (`Progress`); the script's gate catches the first exchange, no other,
and holds it until let go (`Gate`); which exchanges were lost, and how (`Fate`);
what each exchange carries and that an earlier one has ended before the next is
sent, except for a replay (`Carrying`); what the caller has been told and when
(`Told`); the document as a count of the writes that have been executed
(`Documents`); the offset, where a restart resumes, and how often the worker has
read (`Accepted`).  Each step is taken part by part.  `Due` finds the lines of the
scripts where a given call or assertion stands, `OnlyMoves` the marks that it
sets; the steps of the candidate and the proxy set none.  An assertion holds of a
candidate that keeps its promises (`StepIsFair`), and a script that has reached
its end has seen enough (`EndedIsSafe`).  Results: `HonestPasses`
(`NoFalseFailure`), `PassedScriptsAreSafe` (`PassedIsSafe`).  `GateNames` is what
they assume of the gates: a test registers its one gate on the record it writes, for
the first request or the first response, and drops the response only in the test
of a lost one.

**IntegrationProofs** (any servers; any number of workers, cycles, operations).
*The cycle.*  `Earned`: a step of the cycle never gets ahead of the document, so a
completed cycle has been through all of its states, against every server
(`CompletionIsEarned`).  `Obedient`: all that an asynchronous server still holds
or may repeat is the mutation applied last or the cycle's own, in that order
(`InOrder`); a synchronous one may hold any number of old merges and deletes in
any order, none of which changes the document any more, and a create only while
the cycle waits for it or observes (`Harmless`).  This is kept (`OrderIsKept`)
against a server that repeats at most one record per restart (`Absorbed`), until
the cycle stops observing a create the server still holds (`overdue`); the section
on the code says what happens beyond.  Under it `SoakAccusesNobody` and
`SoakCleansUp`.  *The soak.*  The operation context is cancelled only by a
worker whose error the channel holds, or after the verdict; hence swallowed errors
are never the only ones (`PassIsClean`) and interruptions are never reported
(`ReportIsGenuine`).  *The load.*  A task handed out is held by exactly one
worker, has a result, or was dropped after the time limit (`HeldOnce`,
`Accounted`); so when all workers have left in time every result is there
(`AllInTime`): `PassIsComplete`, `LoadBlamesFairly`, `NoTaskIsLost`.
`NearestRank` shows that the index of the 95th percentile is inside the samples
and is the nearest rank for every sample size, rounding included.

**SequentialJudgesProofs.**  *Test events* (any number of packages, tests and
repetitions).  While nothing has been lost the validator's maps hold what the
packages and tests are doing (`Followed`).  The list of passed names is the
exception, as a name stays on it when its test runs again; at the end the map of
the started tests makes up for that (`SufficientIsGreen`).  Results:
`AcceptanceIsEarned`, `GreenPasses`.  *The state checker* (any keys, programs and
batches).  The checker predicts write by write while the server executes a batch
at a time, so the two meet only where a batch ends.  `Executed` is unfolded one
operation at a time, which shows that executing the unsent batch on what is stored
gives the prediction (`Honest`); a batch that was executed wrongly and answered as
predicted has stored what was predicted.  Results: `PredictionIsExact`,
`AccusesNobody`, `PassIsFaithful`.

**LuaProofs.**  *The merges* (any limits, documents, logs and restarts).  What
`Unique` does to a list is determined by its law for one appended item
(`UniqueLaws`); from it follow by induction on lists all that the merges need:
adding what is there already changes nothing (`RepeatLaws`), and the Go way to
extend a list and the Lua way (append, drop empty strings, deduplicate) give the
same one (`AliasesAgree`).  A Lua table has no field where the document has an
empty one, so the two sides are related field by field (`StandsForProduct`,
`StandsForOffer`), and one merge keeps the relation (`ProductStep`, `OfferStep`).
Between the two merges of products stands a third, `TextMerge`: the reference
merge, but with stocks told apart by their texts.  The program agrees with it on
everything (`ProductAgrees`).  It agrees with the reference merge on all fields
but the stocks (`MergedButStocks`), since no field depends on another, and on the
stocks as well where keys and texts tell the same ones apart (`SameMerge`): stocks
with the same key always have the same text (`KeysMakeTexts`), and without
confusable ones the converse holds of all that come in (`Discerned`).  A merge
makes no stocks of its own, which is what the invariant (`SidesAgree`) keeps
besides.  Result: `SidesAlwaysAgree`.  *Their replay.*  That a repeat changes nothing is not
inductive: in the middle of a repeat the document is not what the log has made of
it, since older documents have overwritten newer fields.  `Converging` says what
it is: the kept fields (histories, aliases, addresses) already absorb every
document of the log (`Absorbs`), each replaced field holds what it held before the
restart or what the last of the documents repeated so far has set it to
(`LastSet`), and a product's offers are those of the repeated documents, the
newest first, before what there was (`Word`).  At the end of the log
this is the document from before (`ReplayEnds`).  Result: `ReplaysConverge`.
*The engine* (any finite tables).  The conversion builds a tree of paths
(`Rooted`, `Held`, `Exhaustive`), and the live calls are one branch of it
(`Branch`): a table met again on the branch closes a cycle, so a refusal is
right.  The tables off the branch are complete, and a table is completed after
all it leads to; so no set of complete tables has a successor for each of its
members (`Acyclic`), and when the branch is empty the whole result has no cycle.
Exhaustive and held, the tree is the returned value.  Results: `CyclesRefused`,
`ConversionIsFaithful`.  For a document that is returned as it was given, `Kinds`
adds that every converted value has the kind its table has; then the paths of the
output and of the document are the same, by induction on their length
(`LevelsAgree`).  Result: `DocumentsComeBack`.

Induction.  The library's induction theorems take an operator as a parameter, which
the installed provers cannot instantiate.  The proofs use sets instead: a set of
numbers that has no least member is empty (`LeastNumber`), and from it follow
induction over numbers and over finite sets for the set of those that have the
property.  What a fold computes is proved the same way, from the recursive function
that the fold's definition chooses.

Assumptions: only those named in the modules (`SizesAssumption`,
`HistoriesAssumption`, `InitialsAssumption`, `RoundsAssumption`,
`SettingsAssumption`, `ValidAssumption`, `PaceAssumption`, `LoadAssumption`,
`GatesAssumption`, `GateNames`, `SoakConstants`, `PoolConstants`,
`LoadConstants`, `EventConstants`, `CheckConstants`, `HeapsAssumption`,
`ReplayLimits`, `ReplayBounds`, `ReplayFeeds`), which TLC
evaluates in the runs, and the hypotheses named above, which the servers and
workloads of the runs satisfy.  `HeapsAssumption` says that tables are finite,
which those of an engine with a memory limit are, and that the documents are what
`encoding/json` decodes (`IsJson`); `ReplayFeeds` that a feed carries documents of
one kind, with every field of the type its Go struct gives it; `RoundsAssumption` that a round
has calls and that they fit, with the final read, into a history the checker takes.

Only model-checked: all liveness, as temporal properties under fairness are out of
the prover's reach (`Terminates` of `HistoryCheck`, `Concludes` of `PerfRun` and of
`SoakPool`, `Closes` of `CrashBoundaries`, `Completes` of `SoakCycle`,
`LoadConcludes` of `LoadPool`, `Ends` of `LuaEngine`); and that the budget suffices
in `history_workload`.

## What the model says about the code

One of these contradicts a statement of the repository and is listed as a finding:

- *Stocks of a product.*  `src/README.md:174-176` requires "exact agreement between
  the Go reference and Lua results".  `canonical` (`product_merge.lua:4`) writes
  every table without entries as `{}`, so an empty list, an empty object and null
  have one text; the digest of the reference model tells them apart.  Of two stocks
  with variables `{"flags":[]}` and `{"flags":{}}` the reference model keeps both
  and the program one.  `merge_confused` finds it with a single document
  (`ExactAgreement`).  Fractions that Lua writes with the same digits are confused
  likewise.  `Agree` leaves the stocks out where the feed has such a pair, and
  nothing else.  No test has stocks with empty variables, so the suite passes.

The others contradict none; each is a fact a maintainer may want to know.

- *Soak, synchronous.*  `observeSoakMutation` returns on its five-second timer
  alone (`soak_integration_test.go:527`) and the caller sends again.  If the create
  whose answer was lost is still under way then, one lost answer is enough: the
  retried create and the merge go through, the delete is being verified, the first
  create lands, and the document is neither the desired nor the previous one; the
  soak fails a correct server.  If it lands after the cycle is done, the document
  stays behind.  `NoFalseAlarm` and `CleansUp` are therefore stated without an
  overdue create.  Merges and deletes may be late in any number: the operation id,
  the refusal of a merge without a document, and the delete being last absorb
  them.
- *Soak, asynchronous.*  The runner kills Workers during the soak
  (`scripts/test-integration.sh:305`).  A Worker that repeats one record of a key
  is absorbed; one that repeats two brings back an earlier state, and the cycle
  fails.  As the cycle publishes a mutation only after it has read the effect of
  the last one, two unsettled records need a commit of offsets that lags a read
  and a publication.
- *Load generator, upserts.*  A put has no sequence guard.  If an attempt
  outlives its call, an older value may overwrite an acknowledged newer one and
  reconciliation reports a loss.  The merge workload is immune, and proved so.
- *Load test.*  A load that completes just before its time limit is reported as
  timed out, because the context is looked at first.
- *Cancelled writes.*  `TestCancellationAfterCommitRetainsState` counts no writes:
  a candidate that replays the cancelled write late passes it.  `PassedIsSafe`
  claims the count for the other scripts only.
- *Lua arrays with holes.*  The bridge compares `#` with the number of entries
  (`luaArrayToGo`).  Where `#` of an array with holes happens to equal its count,
  the holes are converted to null and the entries beyond the count are dropped
  without an error, even one that would close a cycle.  `Faithful` is stated
  without that case (`Ambiguous`).
- *Lua integers.*  An integer beyond 64 bits of a document reaches the program as
  a float and comes back as one.
- *Offers of a product.*  Incoming offers go in front and the list is cut to its
  tail (`product.go:74`), so at the limit the newest offers are dropped.
- *Sellers.*  `comment_count` and `from_maybe` are not merged and are lost
  (`offer.go:49`), in both implementations alike.
- *Replay of products.*  `src/README.md` speaks of rotation at capped histories.
  The order of `uids` also rotates on a replay after a change of uid, without any
  cap; `ReplayConverges` therefore compares aliases as a set.
- *Proxy.*  `discard()` of a response gate behaves like `open()`
  (`harness_test.go:570`); no test does it.
- *Test events.*  Required names are not scoped by package (`events.go:69`), a
  package that never starts is not missed, and an empty name between two commas of
  `-require` can never pass.

## Abstractions

- Wording of errors, statistics, latency, padding and logs are left out.
- Documents are reduced to the fields a property can tell apart; keys, labels and
  identifiers are model values or small numbers.
- Durations appear only as events: a deadline passes, a ticket falls due, a window
  ends, a call ends.
- What both sides of the merges compute alike is one thing in the model: the keys
  of histories other than stocks, of offers, addresses and contacts (`OwnKey`),
  and the upper-casing of the brand, for which the program calls the engine's
  `strings.ToUpper` (`engine.go:66-87`).  Comments are told apart by JSON too, and
  `stocks` stands for both.  `Tostring` is external, any function from numbers to
  texts.  That the reference model decodes numbers to 64-bit floats is not modelled:
  integers beyond 2^53 in variables, which it rounds, are left out.
- A pair of package and test is a pair: the validator joins them with a slash
  (`events.go:34`), which could confuse only a package whose last element is the
  name of a test.
- The proxy answers a request whose body it cannot read with an error and neither
  counts nor forwards it (`harness_test.go:543-546`).  In the model such a request
  has not been sent.
- The crash tests of the Worker also read the record that follows and the end of
  the dead-letter topic (`kafka_faults_test.go:152,160`).  The model keeps neither;
  the record that follows appears as the offset that it moves.
- A write that returns its document is also compared with what was sent
  (`main.go:718-726`), which changes the report's errors and no count; runs
  with `-return-document` are not modelled.
- The server of `StateCheck` errs in what it stores and in what it answers to a
  write; its reads answer what is stored.  A read that is wrong in the other way
  can hide a wrong document from any checker.
- The server's admission, batching and storage engines appear only through their
  visible effects: applied, refused, lost, late, repeated.

## Not modelled

- The admission, protocol, operations and backend scenarios are straight-line
  scripts whose subject is the external server: they have no state or concurrency
  beyond a call and its assertion.
- Of the fault tests, the shutdown during a broker outage and the classification
  of failures as retryable; of the harness, starting candidates, metrics and Kafka
  helpers.  They observe what the external server does with signals and brokers.
- Fixtures, runners, benchmarks, the overlay for the server's own checkout, the
  majority-loss drill, and deployment files: constants, or sequential
  orchestration of processes.
- The coverage gate and the timeline checker of the drill are single passes over a
  file in Python; they could be added as operators.

## Plan

Done: the judges with concurrency or search (checker, workload, load generator,
proxy with its crash tests, soak, load test), the sequential ones (test events,
state checker, Lua engine, merges), and the proofs above.

Left, in this order:

1. Kafka's offset commit in `SoakCycle`, so that `replayable` follows from the
   order of effect and commit instead of being a parameter.
2. The coverage union of `check-coverage.py` and the window arithmetic of
   `check-mongodb-quorum.py` as operators.
