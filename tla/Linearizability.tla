--------------------------- MODULE Linearizability ---------------------------
(***************************************************************************)
(* What it means for a history h of completed calls on one record to be    *)
(* explained by the sequential document, and the single step by which      *)
(* internal/historycheck/history.go looks for an explanation.  A position  *)
(* is the set of entries already ordered and the document they leave.      *)
(***************************************************************************)
EXTENDS SequentialDocument, Sequences

CONSTANT Documents   \* the documents an explanation may pass through

Entries(h) == 1..Len(h)

\* Mutated form: calls that merely touch are ordered.
PredecessorsTouching(h, i) == {j \in Entries(h) : h[j].end <= h[i].start}

\* The precedence mask of entry i: what had ended before it began.
Predecessors(h, i) == {j \in Entries(h) : h[j].end < h[i].start}

\* Mutated form: real time is forgotten.
ExplicableAnyTime(h, s, i) ==
    i \notin s.visited /\ Answer(s.value, h[i]) = h[i].result

\* Entry i may come next at position s: it is not ordered yet, everything
\* that ended before it began is, and the document explains its result.
Explicable(h, s, i) ==
    /\ i \notin s.visited
    /\ Predecessors(h, i) \subseteq s.visited
    /\ Answer(s.value, h[i]) = h[i].result

Successor(h, s, i) ==
    [visited |-> s.visited \cup {i}, value |-> After(s.value, h[i])]
-----------------------------------------------------------------------------
\* From position s, the n entries taken in this order are exactly those that
\* are left, and none is taken after one that began only when it had ended.
Completes(h, s, n, order) ==
    /\ {order[k] : k \in 1..n} = Entries(h) \ s.visited
    /\ \A j, k \in 1..n :
          j < k => /\ order[j] # order[k]
                   /\ ~(h[order[k]].end < h[order[j]].start)

\* Taken one after the other from document doc, the entries leave these
\* documents and have the results that were recorded.
Justifies(h, doc, n, order, values) ==
    \A k \in 1..n :
        LET before == IF k = 1 THEN doc ELSE values[k - 1]
        IN  /\ Answer(before, h[order[k]]) = h[order[k]].result
            /\ values[k] = After(before, h[order[k]])

Explainable(h, s) ==
    \E n \in 0..Len(h) : \E order \in [1..n -> Entries(h)] :
       /\ Completes(h, s, n, order)
       /\ \E values \in [1..n -> Documents] : Justifies(h, s.value, n, order, values)
=============================================================================
