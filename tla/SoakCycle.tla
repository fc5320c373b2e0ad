------------------------------ MODULE SoakCycle ------------------------------
(***************************************************************************)
(* One cycle of the storage soak (integration/soak_integration_test.go).   *)
(* A worker owns one key.  It creates the document, merges an increment    *)
(* guarded by an operation id, and deletes it, each mutation sent until    *)
(* its effect has been seen.  An attempt whose answer is lost may still    *)
(* take effect, so the worker watches the stored document: the desired     *)
(* state resolves the mutation, the previous state for a whole observation *)
(* window allows a retry, anything else fails the soak.                    *)
(*                                                                         *)
(* The server is external.  A synchronous attempt takes effect before its  *)
(* positive answer; an asynchronous one is answered once it is in the      *)
(* partition's log, and the log's order is the order of the effects.       *)
(***************************************************************************)
EXTENDS Naturals, Sequences

CONSTANTS
  Servers   \* the kinds of server and of cycle, of which a run has one

\* asynchronous: the cycle asks for RETURN_AFTER_ACCEPTED; late: a synchronous
\* attempt may take effect after its caller left; patient: the cycle's three
\* minutes outlast every outage; faulty: the server may lose a mutation it
\* acknowledged; replayable: effects at the end of the log that a restarted
\* Worker repeats; faults: bound on lost, refused or forgotten attempts;
\* restarts: bound on restarts of the Worker.
ASSUME SoakConstants ==
  Servers \subseteq [asynchronous : BOOLEAN, late : BOOLEAN, patient : BOOLEAN,
                     faulty : BOOLEAN, replayable : Nat, faults : Nat, restarts : Nat]

VARIABLES
  server,    \* the server and the cycle of this run
  doc,       \* the stored document
  pending,   \* attempts the server holds whose effect is still to come
  repeated,  \* the latest effects, that a restart may repeat
  step,      \* the mutation the cycle is at
  mode,      \* where the cycle is inside that mutation
  outcome,   \* what became of the attempt being waited for
  timer,     \* the observation window is running (previousTimer)
  reached,   \* the states of the document's life it has gone through
  overdue,   \* history: an observation ended while the server still held a create
  faults, restarts

vars == <<server, doc, pending, repeated, step, mode, outcome, timer, reached,
          overdue, faults, restarts>>

Steps == {"create", "merge", "delete"}
Ended == {"done", "failed", "expired"}

------------------------------------------------------------------------------
(* The document and the mutations *)

Absent  == [found |-> FALSE, counter |-> 0, operation_id |-> "none"]
Created == [found |-> TRUE, counter |-> 0, operation_id |-> "create"]
Merged  == [found |-> TRUE, counter |-> 1, operation_id |-> "merge"]

\* soakIdempotentCounterMerge: the increment is skipped when the document
\* already carries this operation's id.
CounterMerge(current) ==
  IF current.operation_id = "merge" THEN current
  ELSE [current EXCEPT !.counter = @ + 1, !.operation_id = "merge"]

\* An upsert replaces, a merge program fails on a missing document.
Refuses(kind, current) == kind = "merge" /\ ~current.found

Effect(kind, current) ==
  CASE kind = "create" -> Created
    [] kind = "merge"  -> IF Refuses(kind, current) THEN current
                          ELSE CounterMerge(current)
    [] kind = "delete" -> Absent

Desired(kind)  == CASE kind = "create" -> Created [] kind = "merge" -> Merged
                    [] kind = "delete" -> Absent
Previous(kind) == CASE kind = "create" -> Absent [] kind = "merge" -> Created
                    [] kind = "delete" -> Merged

Following(kind) == IF kind = "create" THEN "merge" ELSE "delete"

Matches(observed, expectation) ==
  /\ observed.found = expectation.found
  /\ observed.found => observed = expectation

------------------------------------------------------------------------------
(* The server *)

Drop(s, i) == SubSeq(s, 1, i - 1) \o SubSeq(s, i + 1, Len(s))

Remembered(s) == SubSeq(s, IF Len(s) > server.replayable THEN Len(s) - server.replayable + 1
                           ELSE 1, Len(s))

NextReached(stored) ==
  CASE reached = "absent" /\ stored = Created -> "created"
    [] reached = "created" /\ stored = Merged -> "merged"
    [] reached = "merged" /\ stored = Absent  -> "deleted"
    [] OTHER -> reached

Awaited(entry) == mode = "awaiting" /\ entry.latest

Outstanding == \E i \in 1..Len(pending) : pending[i].latest

\* A held attempt takes effect: in log order when asynchronous, in any order
\* when synchronous calls run side by side.
Land(i) ==
  LET kind == pending[i].kind IN
  /\ server.asynchronous => i = 1
  /\ doc' = Effect(kind, doc)
  /\ pending' = Drop(pending, i)
  /\ repeated' = Remembered(Append(repeated, kind))
  /\ reached' = NextReached(doc')
  /\ outcome' = IF ~server.asynchronous /\ Awaited(pending[i])
                THEN IF Refuses(kind, doc) THEN "refused" ELSE "applied"
                ELSE outcome
  /\ UNCHANGED <<server, step, mode, timer, overdue, faults, restarts>>

\* The server forgets a synchronous attempt it has not acknowledged; a faulty
\* one may acknowledge it all the same, or forget a record of its log.
Forget(i) ==
  /\ server.asynchronous => server.faulty
  /\ faults < server.faults /\ faults' = faults + 1
  /\ pending' = Drop(pending, i)
  /\ outcome' = IF server.faulty /\ ~server.asynchronous /\ Awaited(pending[i]) THEN "applied"
                ELSE outcome
  /\ UNCHANGED <<server, doc, repeated, step, mode, timer, reached, overdue, restarts>>

\* The Worker restarts behind its committed offset and repeats what follows it.
Restart ==
  /\ server.asynchronous /\ restarts < server.restarts /\ repeated # <<>>
  /\ restarts' = restarts + 1
  /\ pending' = [i \in 1..Len(repeated) |->
                   [kind |-> repeated[i], latest |-> FALSE]] \o pending
  /\ repeated' = <<>>
  /\ UNCHANGED <<server, doc, step, mode, outcome, timer, reached, overdue, faults>>

------------------------------------------------------------------------------
(* The cycle *)

Cycle == <<server, doc, repeated, reached, restarts>>   \* what its own steps leave alone

\* A new attempt reaches the server.
Call ==
  /\ mode = "calling"
  /\ mode' = "awaiting"
  /\ pending' = Append([i \in 1..Len(pending) |->
                          [pending[i] EXCEPT !.latest = FALSE]],
                       [kind |-> step, latest |-> TRUE])
  /\ outcome' = IF server.asynchronous THEN "applied" ELSE "unknown"
  /\ UNCHANGED <<step, timer, overdue, faults, Cycle>>

\* The attempt fails before it is taken, or its answer is lost, late or a
\* retryable failure: whether it has or will have an effect is not known.
Unreachable ==
  /\ mode = "calling" /\ faults < server.faults
  /\ faults' = faults + 1
  /\ mode' = "observing"
  /\ UNCHANGED <<pending, step, outcome, timer, overdue, Cycle>>

\* Mutated form: the attempt is repeated without watching its effect.
LoseAnswerAndRepeat ==
  /\ mode = "awaiting" /\ faults < server.faults
  /\ server.asynchronous \/ server.late \/ ~Outstanding
  /\ faults' = faults + 1
  /\ mode' = "calling"
  /\ UNCHANGED <<pending, step, outcome, timer, overdue, Cycle>>

LoseAnswer ==
  /\ mode = "awaiting" /\ faults < server.faults
  /\ server.asynchronous \/ server.late \/ ~Outstanding
  /\ faults' = faults + 1
  /\ mode' = "observing"
  /\ UNCHANGED <<pending, step, outcome, timer, overdue, Cycle>>

\* validateSoakWriteResult, validateSoakDeleteResult.
Answer ==
  /\ mode = "awaiting" /\ outcome # "unknown"
  /\ mode' = IF outcome = "applied" THEN "verifying" ELSE "failed"
  /\ UNCHANGED <<pending, step, outcome, timer, overdue, faults, Cycle>>

\* The attempt was forgotten without an answer: it ends as a timeout.
TimeOut ==
  /\ mode = "awaiting" /\ outcome = "unknown" /\ ~Outstanding
  /\ mode' = "observing"
  /\ UNCHANGED <<pending, step, outcome, timer, overdue, faults, Cycle>>

Advance ==
  /\ mode' = IF step = "delete" THEN "done" ELSE "calling"
  /\ step' = IF step = "delete" THEN step ELSE Following(step)
  /\ timer' = FALSE

\* A synchronous create whose answer was lost, and that may still take effect.
CreateHeld ==
  ~server.asynchronous /\ \E i \in 1..Len(pending) : pending[i].kind = "create"

\* Mutated form: the window is never opened.
ObserveForever ==
  /\ mode = "observing"
  /\ \/ Matches(doc, Desired(step)) /\ Advance
     \/ /\ ~Matches(doc, Desired(step)) /\ ~Matches(doc, Previous(step))
        /\ mode' = "failed" /\ UNCHANGED <<step, timer>>
  /\ overdue' = (overdue \/ CreateHeld)
  /\ UNCHANGED <<pending, outcome, faults, Cycle>>

\* observeSoakMutation: one read, one comparison, the window opened by the
\* first sight of the previous state.  A retryable read error only costs the
\* worker a tick, so it is no step; any other, which only a faulty server
\* answers, fails the cycle.
Observe ==
  /\ mode = "observing"
  /\ \/ Matches(doc, Desired(step)) /\ Advance
     \/ /\ ~Matches(doc, Desired(step)) /\ Matches(doc, Previous(step))
        /\ timer' = TRUE /\ UNCHANGED <<mode, step>>
     \/ /\ \/ ~Matches(doc, Desired(step)) /\ ~Matches(doc, Previous(step))
           \/ server.faulty
        /\ mode' = "failed" /\ UNCHANGED <<step, timer>>
  /\ overdue' = (overdue \/ (mode' # "observing" /\ CreateHeld))
  /\ UNCHANGED <<pending, outcome, faults, Cycle>>

\* The window ends without the desired state: wait, then send again, whatever
\* has become of the attempts before.
Retry ==
  /\ mode = "observing" /\ timer
  /\ mode' = "calling"
  /\ timer' = FALSE
  /\ overdue' = (overdue \/ CreateHeld)
  /\ UNCHANGED <<pending, step, outcome, faults, Cycle>>

\* Mutated forms: accepted is taken for visible, or for sufficient.
VerifyAtOnce ==
  /\ mode = "verifying"
  /\ \/ Matches(doc, Desired(step)) /\ Advance
     \/ /\ ~Matches(doc, Desired(step))
        /\ mode' = "failed" /\ UNCHANGED <<step, timer>>
  /\ UNCHANGED <<pending, outcome, overdue, faults, Cycle>>
VerifyNothing ==
  /\ mode = "verifying" /\ Advance
  /\ UNCHANGED <<pending, outcome, overdue, faults, Cycle>>

\* waitForSoakDocumentState after a positive answer: the previous state is
\* waited out, without a window and without a retry.
Verify ==
  /\ mode = "verifying"
  /\ \/ Matches(doc, Desired(step)) /\ Advance
     \/ /\ ~Matches(doc, Desired(step)) /\ ~Matches(doc, Previous(step))
        /\ mode' = "failed" /\ UNCHANGED <<step, timer>>
  /\ UNCHANGED <<pending, outcome, overdue, faults, Cycle>>

\* soakCycleTimeout ends whatever the cycle is waiting for.
Expire ==
  /\ ~server.patient /\ mode \notin Ended
  /\ mode' = "expired"
  /\ UNCHANGED <<pending, step, outcome, timer, overdue, faults, Cycle>>

------------------------------------------------------------------------------
Init ==
  /\ server \in Servers
  /\ doc = Absent /\ pending = <<>> /\ repeated = <<>>
  /\ step = "create" /\ mode = "calling" /\ outcome = "unknown"
  /\ timer = FALSE /\ reached = "absent" /\ overdue = FALSE /\ faults = 0 /\ restarts = 0

Server == (\E i \in 1..Len(pending) : Land(i) \/ Forget(i)) \/ Restart

Worker == Call \/ Unreachable \/ LoseAnswer \/ Answer \/ TimeOut \/ Observe
            \/ Retry \/ Verify \/ Expire

Next == Server \/ Worker

Spec == Init /\ [][Next]_vars

\* Every call has a deadline and every loop a ticker, so the worker always
\* goes on; what the server holds takes effect in the end.
FairSpec ==
  /\ Spec
  /\ WF_vars(\E i \in 1..Len(pending) : Land(i))
  /\ WF_vars(Call) /\ WF_vars(Answer) /\ WF_vars(TimeOut) /\ WF_vars(Observe)
  /\ WF_vars(Retry) /\ WF_vars(Verify)

------------------------------------------------------------------------------
Documents == [found : BOOLEAN, counter : 0..1,
              operation_id : {"none", "create", "merge"}]

\* The cycle's state stays in its types; in particular no sequence of retries
\* and repeats adds the increment twice.
TypeOK ==
  /\ server \in Servers
  /\ doc \in Documents
  /\ pending \in Seq([kind : Steps, latest : BOOLEAN])
  /\ repeated \in Seq(Steps) /\ Len(repeated) <= server.replayable
  /\ step \in Steps
  /\ mode \in Ended \cup {"calling", "awaiting", "observing", "verifying"}
  /\ outcome \in {"unknown", "applied", "refused"}
  /\ timer \in BOOLEAN /\ overdue \in BOOLEAN
  /\ reached \in {"absent", "created", "merged", "deleted"}
  /\ faults \in 0..server.faults /\ restarts \in 0..server.restarts

\* A server that keeps its promises never fails the soak, whichever answers are
\* lost and attempts repeated or late, within what Servers allows: merges and
\* deletes may land after their retry, after the next mutation and after the
\* cycle, and neither add a second increment nor show an unexpected document.
\* Not so a create.  The upsert replaces whatever it finds, so one that lands
\* after the cycle stopped observing it can undo a merge or a delete; the cycle
\* waits for no attempt and takes that for a fault of the server.
NoFalseAlarm == ~server.faulty /\ ~overdue => mode # "failed"

\* A finished cycle leaves nothing behind, then or later: no attempt still held
\* by the server brings the document back, an overdue create apart.
CleansUp == ~overdue /\ mode = "done" => ~doc.found

\* A cycle counts as completed only when the document has really been created,
\* merged and deleted, even against a server that loses what it acknowledged.
DoneIsEarned == mode = "done" => reached = "deleted"

\* While the outages are shorter than the cycle's time limit, a bounded number
\* of them delays a cycle but does not stop it.
Completes == server.patient /\ ~server.faulty => <>(mode = "done")
==============================================================================
