------------------------- MODULE SequentialDocument -------------------------
(***************************************************************************)
(* The sequential integer document that recorded histories are explained   *)
(* by (internal/historycheck/history.go): one record that is either absent *)
(* or holds a counter, and the effect and the result of each kind of call. *)
(***************************************************************************)
EXTENDS Integers

Kinds == {"read", "set", "create", "replace", "add", "delete"}

\* Go's zero State: the absent record, and the state field of every result
\* that is not a read's.
Absent == [found |-> FALSE, counter |-> 0]
Holding(n) == [found |-> TRUE, counter |-> n]

Document == [found : BOOLEAN, counter : Int]
Result == [applied : BOOLEAN, conflict : BOOLEAN, state : Document]

\* A kind that is none of these is refused; "unknown" stands for all of them.
Entry == [id : Int, start : Int, end : Int, kind : Kinds \cup {"unknown"}, input : Int,
          result : Result]

Applied(done) == [applied |-> done, conflict |-> FALSE, state |-> Absent]
Observed(doc) == [applied |-> FALSE, conflict |-> FALSE, state |-> doc]
Conflicted == [applied |-> FALSE, conflict |-> TRUE, state |-> Absent]

\* A definite compare-and-swap exhaustion: only the kinds that read before
\* they write can report one.
Refused(e) == e.result.conflict /\ e.kind \in {"add", "replace"}

\* The document a call leaves behind.
After(doc, e) ==
    IF Refused(e) THEN doc
    ELSE CASE e.kind = "delete"  -> Absent
           [] e.kind = "set"     -> Holding(e.input)
           [] e.kind = "create"  -> IF doc.found THEN doc ELSE Holding(e.input)
           [] e.kind = "replace" -> IF doc.found THEN Holding(e.input) ELSE doc
           [] e.kind = "add"     -> Holding(doc.counter + e.input)
           [] OTHER              -> doc

\* The result it returns.
Answer(doc, e) ==
    IF Refused(e) THEN Conflicted
    ELSE CASE e.kind = "read"    -> Observed(doc)
           [] e.kind = "create"  -> Applied(~doc.found)
           [] e.kind = "replace" -> Applied(doc.found)
           [] OTHER              -> Applied(TRUE)
=============================================================================
