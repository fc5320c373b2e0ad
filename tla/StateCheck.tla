------------------------------ MODULE StateCheck ------------------------------
(***************************************************************************)
(* The sequential state checker (internal/statecheck/model.go).  It draws  *)
(* a sequence of puts, merges, failing merges, deletes and reads, keeps    *)
(* the expected documents in a map, sends the writes in batches, and after *)
(* every batch compares the results and then all the stored documents.     *)
(* The server is external; a faulty one errs once, anywhere, in what it    *)
(* stores or in what it answers.                                           *)
(***************************************************************************)
EXTENDS Integers, Sequences, SequencesExt, FiniteSets

CONSTANTS
  Keys, Values,
  BatchSize, Steps,   \* the options of the checker; Steps bounds the sequence
  MaxErrors           \* bound: errors of the server

ASSUME CheckConstants ==
  /\ Values \subseteq Int \ {0} /\ BatchSize \in Nat \ {0}
  /\ Steps \in Nat \ {0} /\ MaxErrors \in Nat

VARIABLES
  position,     \* the step of the sequence under way
  state,        \* the checker's own documents
  operations,   \* the batch not yet sent
  expected,     \* the results it must have
  pc, step,     \* what the checker does next, and for which step
  stored,       \* the server's documents
  ideal,        \* what the steps so far have to leave stored
  due,          \* the results the batch has to have by the server's semantics
  misanswered,  \* some result was not the one due
  errors

vars == <<position, state, operations, expected, pc, step, stored, ideal,
          due, misanswered, errors>>

\* A label is the value it was written with; the empty one is zero.
Missing == [found |-> FALSE, counter |-> 0, label |-> 0]
Document(counter, label) == [found |-> TRUE, counter |-> counter, label |-> label]
Put(value) == Document(value, value)

Kinds == {"create", "upsert", "replace", "merge", "invalid", "delete", "read"}
WriteKinds == Kinds \ {"delete", "read"}
StepsOf(kinds) == [kind : kinds, key : Keys, value : Values]

Init ==
  /\ position = 1 /\ operations = <<>> /\ expected = <<>>
  /\ pc = "next" /\ step \in StepsOf({"read"})
  /\ state = [k \in Keys |-> Missing]
  /\ stored = state /\ ideal = state
  /\ due = <<>> /\ misanswered = FALSE /\ errors = 0

------------------------------------------------------------------------------
(* The server *)

\* addProgram: absent fields count from nothing.
Added(current, value) == Document(current.counter + value, current.label)

Result(s, documents) ==
  CASE s.kind = "create" /\ documents[s.key].found   -> "precondition failed"
    [] s.kind = "replace" /\ ~documents[s.key].found -> "precondition failed"
    [] s.kind = "invalid"                            -> "failed"
    [] OTHER                                         -> "applied"

After(s, documents) ==
  IF Result(s, documents) # "applied" THEN documents
  ELSE [documents EXCEPT ![s.key] = CASE s.kind = "merge"  -> Added(@, s.value)
                                      [] s.kind = "delete" -> Missing
                                      [] OTHER             -> Put(s.value)]

\* One batch, in order; the operation at place "wrong", if any, stores "document"
\* and answers "answer" instead.
Executed(batch, documents, wrong, document, answer) ==
  FoldLeft(LAMBDA acc, s :
             IF Len(acc.results) + 1 = wrong
             THEN [documents |-> [acc.documents EXCEPT ![s.key] = document],
                   results |-> Append(acc.results, answer)]
             ELSE [documents |-> After(s, acc.documents),
                   results |-> Append(acc.results, Result(s, acc.documents))],
           [documents |-> documents, results |-> <<>>], batch)

\* Bound: the counters of the documents an error may leave.
ErroneousDocuments ==
  {Missing} \cup {Document(c, l) : c \in -3..3, l \in Values}

\* checkState: every key is read and compared.
Agree(documents, model) == \A k \in Keys : documents[k] = model[k]

\* The server answers a batch; the checker, which expects these results and
\* documents, goes on or fails.
Respond(batch, results, wanted, model, next) ==
  \E wrong \in 0..(IF errors < MaxErrors THEN Len(batch) ELSE 0) :
  \E document \in IF wrong = 0 THEN {Missing}
                  ELSE ErroneousDocuments :
  \E answer \in IF wrong = 0 THEN {"applied"}
                ELSE {"applied", "precondition failed", "failed"} :
    LET server == Executed(batch, stored, wrong, document, answer)
    IN /\ stored' = server.documents
       /\ misanswered' = (misanswered \/ server.results # results)
       /\ errors' = errors + IF wrong = 0 THEN 0 ELSE 1
       /\ pc' = IF server.results = wanted /\ Agree(server.documents, model)
                THEN next ELSE "failed"

------------------------------------------------------------------------------
(* The checker *)

LastStep == position = Steps

\* The result the checker expects of a write, from its own documents.
Want(s) ==
  IF s.kind = "invalid" THEN "failed"
  ELSE IF (s.kind = "create" /\ state[s.key].found)
          \/ (s.kind = "replace" /\ ~state[s.key].found)
       THEN "precondition failed" ELSE "applied"

\* Mutated form: a failing merge is expected to change the document.
ModelledBlind(s) ==
  [state EXCEPT ![s.key] =
     IF s.kind = "merge"
     THEN Document(state[s.key].counter + s.value, state[s.key].label)
     ELSE Put(s.value)]

\* The checker's documents after a write.
Modelled(s) ==
  IF Want(s) # "applied" THEN state
  ELSE [state EXCEPT ![s.key] =
          IF s.kind = "merge"
          THEN Document(state[s.key].counter + s.value, state[s.key].label)
          ELSE Put(s.value)]

\* Mutated form: nothing is sent for the last step unless the batch is full.
FullWithoutLast(batch) == Len(batch) >= BatchSize

Full(batch) == Len(batch) >= BatchSize \/ LastStep

\* A write joins the batch, which is sent when it is full or the last.
Write ==
  /\ pc = "next" /\ position <= Steps
  /\ \E s \in StepsOf(WriteKinds) :
       /\ step' = s
       /\ state' = Modelled(s)
       /\ operations' = Append(operations, s)
       /\ expected' = Append(expected, Want(s))
       /\ due' = Append(due, Result(s, ideal))
       /\ ideal' = After(s, ideal)
       /\ pc' = IF Full(operations') THEN "flush" ELSE "next"
       /\ position' = IF Full(operations') THEN position ELSE position + 1
  /\ UNCHANGED <<stored, misanswered, errors>>

\* A delete or a read first sends what is waiting.
Direct ==
  /\ pc = "next" /\ position <= Steps
  /\ \E s \in StepsOf({"delete", "read"}) : step' = s
  /\ pc' = IF operations = <<>> THEN "direct" ELSE "flush"
  /\ UNCHANGED <<position, state, operations, expected, stored, ideal, due,
                 misanswered, errors>>

\* The batch is sent, its results compared one by one, then the documents.
Flush ==
  /\ pc = "flush"
  /\ operations' = <<>> /\ expected' = <<>> /\ due' = <<>>
  /\ Respond(operations, due, expected, state,
             IF step.kind \in WriteKinds THEN "next" ELSE "direct")
  /\ position' = IF step.kind \in WriteKinds THEN position + 1 ELSE position
  /\ UNCHANGED <<state, ideal, step>>

\* A delete names its key twice, and both must be applied.
Delete ==
  /\ pc = "direct" /\ step.kind = "delete"
  /\ state' = [state EXCEPT ![step.key] = Missing]
  /\ ideal' = After(step, ideal)
  /\ LET twice == <<"applied", "applied">>
     IN Respond(<<step, step>>, twice, twice, state', "next")
  /\ position' = position + 1
  /\ UNCHANGED <<operations, expected, due, step>>

Read ==
  /\ pc = "direct" /\ step.kind = "read"
  /\ pc' = IF Agree(stored, state) THEN "next" ELSE "failed"
  /\ position' = position + 1
  /\ UNCHANGED <<state, operations, expected, step, stored, ideal, due,
                 misanswered, errors>>

Pass ==
  /\ pc = "next" /\ position > Steps
  /\ pc' = "passed"
  /\ UNCHANGED <<position, state, operations, expected, step, stored, ideal, due,
                 misanswered, errors>>

Next == Write \/ Direct \/ Flush \/ Delete \/ Read \/ Pass

Spec == Init /\ [][Next]_vars

------------------------------------------------------------------------------
\* The checker accuses only a server that erred: its own documents follow every
\* sequence of conditional writes, merges, failing merges and deletes, in and
\* across batches, exactly as the sequential semantics does.
NoFalseAlarm == pc = "failed" => errors > 0

\* When the whole sequence passed, no result was wrong and the documents are
\* those of the sequential semantics, although a batch is only looked at as a
\* whole and the last one need not be full.
PassedIsFaithful == pc = "passed" => ~misanswered /\ stored = ideal
==============================================================================
