---------------------------- MODULE HistoryCheck ----------------------------
(***************************************************************************)
(* The linearizability checker of internal/historycheck/history.go: a      *)
(* depth-first search, with a memo of refuted positions and a budget, for  *)
(* an order of the completed calls that explains every recorded result and *)
(* respects real time.  The call stack of visit is the variable stack; a   *)
(* bit mask of entries is the set of their indices.                        *)
(***************************************************************************)
EXTENDS Linearizability, FiniteSets

CONSTANTS
    Histories,   \* the recorded histories Check may be called with
    Initials,    \* the initial documents it may be called with
    MaxEntries,  \* 24 in the code
    Budget       \* 250000 in the code

ASSUME SizesAssumption == MaxEntries \in Nat \ {0} /\ Budget \in Nat \ {0}
ASSUME HistoriesAssumption == Histories \subseteq Seq(Entry)
ASSUME InitialsAssumption == Initials \subseteq Document

VARIABLES
    history,     \* the completed calls, in the order they were recorded
    initial,     \* the document before the first of them
    stack,       \* the live calls of visit, outermost first
    rejected,    \* the positions visit has refuted
    exhausted,   \* the budget ran out
    verdict      \* what Check returns

vars == <<history, initial, stack, rejected, exhausted, verdict>>

Top == stack[Len(stack)]
Start == [visited |-> {}, value |-> initial]

\* What Check insists on before it searches.
WellFormed(h, doc) ==
    /\ Len(h) \in 1..MaxEntries
    /\ doc.found \/ doc.counter = 0
    /\ \A i \in Entries(h) :
          /\ h[i].start > 0 /\ h[i].end > h[i].start
          /\ h[i].kind \in Kinds
          /\ \A j \in Entries(h) : j # i => h[j].id # h[i].id

\* Mutated form: the loop starts one entry late.
UntriedAfter(f) == {i \in Entries(history) : i > f.next /\ Explicable(history, f, i)}

\* The entries the loop of a live call of visit has still to try.
Untried(f) == {i \in Entries(history) : i >= f.next /\ Explicable(history, f, i)}

Frames == [visited : SUBSET Entries(history), value : Document, next : 1..(Len(history) + 1)]
Positions == [visited : SUBSET Entries(history), value : Document]

Frame(s) == [visited |-> s.visited, value |-> s.value, next |-> 1]
Position(f) == [visited |-> f.visited, value |-> f.value]
-----------------------------------------------------------------------------
Init ==
    /\ history \in Histories
    /\ initial \in Initials
    /\ stack = <<>> /\ rejected = {} /\ exhausted = FALSE
    /\ verdict = "unchecked"

\* Check validates its arguments and calls visit on the empty position, which
\* is neither complete nor refuted, with the whole budget left.
Check ==
    /\ verdict = "unchecked"
    /\ \/ /\ ~WellFormed(history, initial)
          /\ verdict' = "malformed"
          /\ UNCHANGED stack
       \/ /\ WellFormed(history, initial)
          /\ verdict' = "searching"
          /\ stack' = <<Frame(Start)>>
    /\ UNCHANGED <<history, initial, rejected, exhausted>>

\* The loop of the innermost visit reaches entry i, the first that may come
\* next.
Reaches(i) ==
    /\ verdict = "searching"
    /\ i \in Untried(Top)
    /\ \A j \in Untried(Top) : i <= j

\* Mutated form: the loop does not advance.
TriedNone(i) == [stack EXCEPT ![Len(stack)].next = i]

\* The innermost loop having tried entry i.
Tried(i) == [stack EXCEPT ![Len(stack)].next = i + 1]

Full == Cardinality(rejected) >= Budget

\* Every entry is ordered: visit returns true and so do all its callers.
Accept(i) ==
    /\ Reaches(i)
    /\ Successor(history, Top, i).visited = Entries(history)
    /\ verdict' = "accepted"
    /\ stack' = Tried(i)
    /\ UNCHANGED <<history, initial, rejected, exhausted>>

\* The position was refuted before, or the search is being abandoned.
Prune(i) ==
    /\ Reaches(i)
    /\ Successor(history, Top, i).visited # Entries(history)
    /\ Successor(history, Top, i) \in rejected \/ exhausted
    /\ stack' = Tried(i)
    /\ UNCHANGED <<history, initial, rejected, exhausted, verdict>>

\* The memo is full.
Exhaust(i) ==
    /\ Reaches(i)
    /\ Successor(history, Top, i).visited # Entries(history)
    /\ Successor(history, Top, i) \notin rejected /\ ~exhausted
    /\ Full
    /\ exhausted' = TRUE
    /\ stack' = Tried(i)
    /\ UNCHANGED <<history, initial, rejected, verdict>>

Descend(i) ==
    /\ Reaches(i)
    /\ Successor(history, Top, i).visited # Entries(history)
    /\ Successor(history, Top, i) \notin rejected /\ ~exhausted
    /\ ~Full
    /\ stack' = Append(Tried(i), Frame(Successor(history, Top, i)))
    /\ UNCHANGED <<history, initial, rejected, exhausted, verdict>>

Refute == rejected' = rejected \cup {Position(Top)}

\* What Check returns when the outermost visit returns false.
NoOrder == IF exhausted THEN "exhausted" ELSE "illegal"

\* The loop of the innermost visit ends: its position is refuted.
Backtrack ==
    /\ verdict = "searching"
    /\ Untried(Top) = {}
    /\ Refute
    /\ stack' = SubSeq(stack, 1, Len(stack) - 1)
    /\ verdict' = IF Len(stack) = 1 THEN NoOrder ELSE verdict
    /\ UNCHANGED <<history, initial, exhausted>>

Next ==
    \/ Check
    \/ \E i \in Entries(history) : Accept(i) \/ Prune(i) \/ Exhaust(i) \/ Descend(i)
    \/ Backtrack

Spec == Init /\ [][Next]_vars
FairSpec == Spec /\ WF_vars(Next)
-----------------------------------------------------------------------------
(* What the verdicts mean. *)

\* The order the live calls of visit stand for, and the documents on its way.
Order == [k \in 1..Len(stack) |-> stack[k].next - 1]
Values ==
    [k \in 1..Len(stack) |->
        IF k < Len(stack) THEN stack[k + 1].value
                          ELSE After(Top.value, history[Top.next - 1])]

TypeOK ==
    /\ history \in Seq(Entry) /\ initial \in Document
    /\ stack \in Seq(Frames)
    /\ rejected \subseteq Positions
    /\ exhausted \in BOOLEAN
    /\ verdict \in {"unchecked", "malformed", "searching", "accepted",
                    "exhausted", "illegal"}

\* A nil error is never wrong: the calls of visit that are live when Check
\* accepts are an order of the whole history that explains every result and
\* respects real time.
AcceptedIsExplained ==
    verdict = "accepted" =>
        /\ Completes(history, Start, Len(stack), Order)
        /\ Justifies(history, initial, Len(stack), Order, Values)

\* "no legal sequential ordering" is never wrong: no order of a well-formed
\* history explains it.  The memo, the budget and the precedence masks may
\* not hide one.
IllegalIsUnexplainable ==
    verdict = "illegal" => ~Explainable(history, Start)

\* The memo holds only positions that cannot be completed, so long as the
\* search has not been abandoned: pruning on it loses no order.
MemoIsRefuted ==
    ~exhausted => \A s \in rejected : ~Explainable(history, s)

\* Every call of Check returns.
Terminates == <>(verdict \notin {"unchecked", "searching"})
=============================================================================
