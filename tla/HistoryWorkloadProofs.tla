----------------------- MODULE HistoryWorkloadProofs -----------------------
(***************************************************************************)
(* The concurrent history test for any number of clients and calls.  The   *)
(* order in which the calls took effect, however they overlapped, explains *)
(* what an honest store answered, and it keeps growing with every call     *)
(* until the history is handed to the checker.  What HistoryCheckProofs    *)
(* shows of the checker then carries over: a history with an explanation   *)
(* is not rejected, and one with an addition whose result is unknown has   *)
(* none.                                                                   *)
(***************************************************************************)
EXTENDS HistoryWorkload, SequenceTheorems, FiniteSetTheorems, WellFoundedInduction, TLAPS

\* The checker, given any history, with every document to explain it by.
HC == INSTANCE HistoryCheckProofs
        WITH Histories <- Seq(Entry), Initials <- Document, Documents <- Document

\* What HistoryCheckProofs assumes holds here.
LEMMA Settings == HC!SizesAssumption /\ HC!HistoriesAssumption /\ HC!InitialsAssumption
BY RoundsAssumption DEF HC!SizesAssumption, HC!HistoriesAssumption, HC!InitialsAssumption,
   HC!Entry, Entry, HC!Document, Document, HC!Result, Result, HC!Kinds, Kinds
-----------------------------------------------------------------------------
(* The entries of the clients: client c has the places Slot(c, 0), ...     *)

Slot(c, s) == (c - 1) * Steps + s + 1

\* A set of natural numbers has a least one.
LEMMA LeastNumber ==
    ASSUME NEW T, T \subseteq Nat, T # {}
    PROVE  \E m \in T : \A n \in T : m <= n
<1> DEFINE R == {ss \in Nat \X Nat : ss[1] < ss[2]}
<1>1. IsWellFoundedOn(R, Nat)
  BY NatLessThanWellFounded DEF OpToRel
<1>2. \A m, n \in T : <<n, m>> \in R <=> n < m
  OBVIOUS
<1> HIDE DEF R
<1>3. PICK m \in T : \A n \in T : ~ (<<n, m>> \in R)
  BY <1>1, WFMin
<1>4. \A n \in T : ~ (n < m)
  BY <1>2, <1>3
<1> QED BY <1>4

\* The places of one client follow those of another.
LEMMA Apart ==
    ASSUME NEW S \in Nat \ {0}, NEW c \in Nat, NEW d \in Nat, c < d
    PROVE  (c - 1) * S + S <= (d - 1) * S
<1>1. \A x, y \in Int : (x + y) * S = x * S + y * S
  OBVIOUS
<1>2. \A x \in Nat : x * S \in Nat
  OBVIOUS
<1>3. d - 1 = (c - 1) + (1 + (d - c - 1)) /\ d - c - 1 \in Nat
  OBVIOUS
<1>4. (d - 1) * S = (c - 1) * S + (1 + (d - c - 1)) * S
  BY <1>1, <1>3
<1>5. (1 + (d - c - 1)) * S = 1 * S + (d - c - 1) * S
  BY <1>1, <1>3
<1>6. (d - c - 1) * S \in Nat
  BY <1>2, <1>3
<1>7. (c - 1) * S \in Int
  OBVIOUS
<1> QED BY <1>4, <1>5, <1>6, <1>7

\* The places divide the history among the clients.
LEMMA Places ==
    ASSUME Clients \in Nat \ {0}, Steps \in Nat \ {0}
    PROVE  /\ Planned \in Nat \ {0}
           /\ \A c \in 1..Clients, s \in 0..(Steps - 1) : Slot(c, s) \in 1..Planned
           /\ \A c, d \in 1..Clients, s, t \in 0..(Steps - 1) :
                 Slot(c, s) = Slot(d, t) => c = d /\ s = t
           /\ \A i \in 1..Planned : \E c \in 1..Clients, s \in 0..(Steps - 1) : i = Slot(c, s)
<1> DEFINE K == Clients
           S == Steps
           M(c) == (c - 1) * S
<1>1. K \in Nat \ {0} /\ S \in Nat \ {0}
  OBVIOUS
<1> HIDE DEF K, S
<1>2. \A c, d \in Nat : c < d => M(c) + S <= M(d)
  BY <1>1, Apart
<1>3. M(1) = 0 /\ M(K + 1) = K * S /\ \A c \in Nat : M(c) \in Int
  BY <1>1
<1> HIDE DEF M
<1>4. \A c \in 1..K : M(c) \in Nat
  BY <1>1, <1>2, <1>3
<1>5. \A c \in 1..K : M(c) + S <= K * S
  BY <1>1, <1>2, <1>3
<1>6. K * S \in Nat \ {0}
  BY <1>1, <1>3, <1>4, <1>5
<1>7. \A c \in 1..K, s \in 0..(S - 1) : M(c) + s + 1 \in 1..(K * S)
  BY <1>1, <1>4, <1>5, <1>6
<1>8. \A c, d \in 1..K, s, t \in 0..(S - 1) : M(c) + s + 1 = M(d) + t + 1 => c = d /\ s = t
  BY <1>1, <1>2, <1>4
<1>9. ASSUME NEW i \in 1..(K * S)
      PROVE  \E c \in 1..K, s \in 0..(S - 1) : i = M(c) + s + 1
  <2> DEFINE T == {c \in Nat : i <= M(c + 1)}
  <2>a. i <= M(K + 1)
    BY <1>3
  <2>1. K \in T /\ T \subseteq Nat
    BY <1>1, <2>a
  <2>2. PICK c \in T : \A d \in T : c <= d
    BY <2>1, LeastNumber
  <2>3. c # 0 /\ c <= K
    BY <1>1, <1>3, <2>2
  <2>4. ~ (i <= M(c))
    BY <2>2, <2>3
  <2>5. c \in 1..K /\ M(c + 1) = M(c) + S /\ i <= M(c + 1)
    BY <1>1, <1>3, <2>2, <2>3 DEF M
  <2>6. i - M(c) - 1 \in 0..(S - 1) /\ i = M(c) + (i - M(c) - 1) + 1
    BY <1>1, <1>4, <2>4, <2>5
  <2> QED BY <2>5, <2>6
<1> QED BY <1>6, <1>7, <1>8, <1>9 DEF Slot, Planned, K, S, M
-----------------------------------------------------------------------------
(* HC and Checker are the same search.                                     *)

\* The same vocabulary.
LEMMA SameDocuments ==
    /\ HC!Kinds = Kinds /\ HC!Absent = Absent /\ HC!Document = Document /\ HC!Entry = Entry
    /\ \A d, e : HC!After(d, e) = After(d, e) /\ HC!Answer(d, e) = Answer(d, e)
<1>1. HC!Absent = Absent /\ HC!Conflicted = Conflicted /\ HC!Document = Document
  BY DEF HC!Absent, Absent, HC!Conflicted, Conflicted, HC!Document, Document
<1>2. \A e : HC!Refused(e) <=> Refused(e)
  BY DEF HC!Refused, Refused
<1>3. \A n : HC!Holding(n) = Holding(n) /\ HC!Applied(n) = Applied(n) /\ HC!Observed(n) = Observed(n)
  BY <1>1 DEF HC!Holding, Holding, HC!Applied, Applied, HC!Observed, Observed
<1>4. \A d, e : HC!After(d, e) = After(d, e)
  BY <1>1, <1>2, <1>3 DEF HC!After, After
<1>5. \A d, e : HC!Answer(d, e) = Answer(d, e)
  BY <1>1, <1>2, <1>3 DEF HC!Answer, Answer
<1> QED BY <1>1, <1>4, <1>5 DEF HC!Kinds, Kinds, HC!Entry, Entry, HC!Result, Result

\* The same steps.
LEMMA SameSearch == Checker!Next => [HC!Next]_(HC!vars)
<1> USE DEF HC!Top, Checker!Top, HC!Entries, Checker!Entries
<1>1. \A e : HC!Refused(e) <=> Checker!Refused(e)
  BY DEF HC!Refused, Checker!Refused
<1>2. \A d, e : HC!After(d, e) = Checker!After(d, e) /\ HC!Answer(d, e) = Checker!Answer(d, e)
  <2>1. HC!Absent = Checker!Absent /\ HC!Conflicted = Checker!Conflicted
    BY DEF HC!Absent, Checker!Absent, HC!Conflicted, Checker!Conflicted
  <2>2. \A n : /\ HC!Holding(n) = Checker!Holding(n) /\ HC!Applied(n) = Checker!Applied(n)
               /\ HC!Observed(n) = Checker!Observed(n)
    BY <2>1 DEF HC!Holding, Checker!Holding, HC!Applied, Checker!Applied, HC!Observed, Checker!Observed
  <2>3. \A d, e : HC!After(d, e) = Checker!After(d, e)
    BY <1>1, <2>1, <2>2 DEF HC!After, Checker!After
  <2>4. \A d, e : HC!Answer(d, e) = Checker!Answer(d, e)
    BY <1>1, <2>1, <2>2 DEF HC!Answer, Checker!Answer
  <2> QED BY <2>3, <2>4
<1>3. \A h, s, i : /\ HC!Explicable(h, s, i) <=> Checker!Explicable(h, s, i)
                   /\ HC!Successor(h, s, i) = Checker!Successor(h, s, i)
  BY <1>2 DEF HC!Explicable, Checker!Explicable, HC!Successor, Checker!Successor,
              HC!Predecessors, Checker!Predecessors
<1>4. \A f : HC!Untried(f) = Checker!Untried(f)
  BY <1>3 DEF HC!Untried, Checker!Untried
<1>5. \A i : (HC!Reaches(i) <=> Checker!Reaches(i)) /\ HC!Tried(i) = Checker!Tried(i)
  BY <1>4 DEF HC!Reaches, Checker!Reaches, HC!Tried, Checker!Tried
<1>6. HC!Full <=> Checker!Full
  BY DEF HC!Full, Checker!Full, HC!Cardinality, Checker!Cardinality
<1>7. \A s : HC!Frame(s) = Checker!Frame(s) /\ HC!Position(s) = Checker!Position(s)
  BY DEF HC!Frame, Checker!Frame, HC!Position, Checker!Position
<1>8. \A h, d : HC!WellFormed(h, d) <=> Checker!WellFormed(h, d)
  BY DEF HC!WellFormed, Checker!WellFormed, HC!Kinds, Checker!Kinds
<1>9. HC!Start = Checker!Start /\ HC!NoOrder = Checker!NoOrder
  BY DEF HC!Start, Checker!Start, HC!NoOrder, Checker!NoOrder
<1>10. Checker!Check => HC!Check
  BY <1>7, <1>8, <1>9 DEF HC!Check, Checker!Check
<1>11. ASSUME NEW i, Checker!Accept(i) PROVE HC!Accept(i)
  BY <1>3, <1>5, <1>11 DEF HC!Accept, Checker!Accept
<1>12. ASSUME NEW i, Checker!Prune(i) PROVE HC!Prune(i)
  BY <1>3, <1>5, <1>12 DEF HC!Prune, Checker!Prune
<1>13. ASSUME NEW i, Checker!Exhaust(i) PROVE HC!Exhaust(i)
  BY <1>3, <1>5, <1>6, <1>13 DEF HC!Exhaust, Checker!Exhaust
<1>14. ASSUME NEW i, Checker!Descend(i) PROVE HC!Descend(i)
  BY <1>3, <1>5, <1>6, <1>7, <1>14 DEF HC!Descend, Checker!Descend
<1>15. Checker!Backtrack => HC!Backtrack
  BY <1>4, <1>7, <1>9 DEF HC!Backtrack, Checker!Backtrack, HC!Refute, Checker!Refute
<1> QED BY <1>10, <1>11, <1>12, <1>13, <1>14, <1>15 DEF HC!Next, Checker!Next
-----------------------------------------------------------------------------
(* The invariant.                                                          *)

Stages == {"ready", "invoked", "served", "abandoned", "stopped"}
GivenUp(c) == stage[c] \in {"abandoned", "stopped"}

\* The clients: the failed calls are those somebody has given up, and perhaps
\* the final read.
ClientsOK ==
    /\ plan \in Rounds /\ clock \in Nat /\ doc \in Document /\ initial = Absent
    /\ outcome \in {"calling", "checking", "passed", "failed"}
    /\ step \in [1..Clients -> 0..Steps] /\ stage \in [1..Clients -> Stages]
    /\ answer \in [1..Clients -> Result]
    /\ \A c \in 1..Clients : stage[c] # "ready" => step[c] < Steps
    /\ \A c \in 1..Clients : GivenUp(c) => Slot(c, step[c]) \in failed
    /\ \A i \in failed : \/ outcome # "calling" /\ i = Planned + 1
                         \/ \E c \in 1..Clients : i = Slot(c, step[c]) /\ GivenUp(c)

\* What the history holds of a call: nothing but the call itself before it
\* begins, and no result before it has returned one.
Entered(c, s) ==
    LET e == history[Slot(c, s)] IN
    /\ e.id = Slot(c, s)
    /\ e.kind = plan.script[Slot(c, s)].kind /\ e.input = plan.script[Slot(c, s)].input
    /\ s < step[c] => 0 < e.start /\ e.start < e.end /\ e.end <= clock
    /\ s >= step[c] => e.result = Applied(FALSE)
    /\ s > step[c] \/ (s = step[c] /\ stage[c] = "ready") => e.start = 0 /\ e.end = 0
    /\ s = step[c] /\ stage[c] \in {"invoked", "served"} =>
          0 < e.start /\ e.start <= clock /\ e.end = 0

\* While calls are made.
CallingOK ==
    outcome = "calling" =>
        /\ stack = <<>> /\ rejected = {} /\ exhausted = FALSE /\ verdict = "unchecked"
        /\ history \in [1..Planned -> Entry]
        /\ \A c \in 1..Clients, s \in 0..(Steps - 1) : Entered(c, s)

\* A failed call has no result.
FailedOK ==
    \A i \in failed :
        /\ i \in 1..Planned \/ (outcome # "calling" /\ i = Planned + 1)
        /\ history[i] \in Entry /\ history[i].result = Applied(FALSE)

\* A call as it took effect, with the result it was given.
Event(i, result) ==
    [kind |-> plan.script[i].kind, input |-> plan.script[i].input, result |-> result]

\* The document before the k-th effect.
Before(values, k) == IF k = 1 THEN Absent ELSE values[k - 1]

\* The call has taken effect.
Effective(c, s) == s < step[c] \/ (s = step[c] /\ stage[c] = "served")

\* The effects so far, in their order, leave these documents and results.
Effects(n, order, values, results) ==
    /\ n \in Nat /\ order \in [1..n -> 1..Planned]
    /\ values \in [1..n -> Document] /\ results \in [1..n -> Result]
    /\ \A j, k \in 1..n : j < k => order[j] # order[k]
    /\ \A k \in 1..n :
          /\ Answer(Before(values, k), Event(order[k], results[k])) = results[k]
          /\ values[k] = After(Before(values, k), Event(order[k], results[k]))
    /\ doc = IF n = 0 THEN Absent ELSE values[n]

\* They are those of the calls that have taken effect, with the results the
\* clients have recorded or are about to, and none was made by a call that
\* began when a later one had ended.
Witnessed(n, order, results) ==
    /\ \A c \in 1..Clients, s \in 0..(Steps - 1) :
          (\E k \in 1..n : order[k] = Slot(c, s)) <=> Effective(c, s)
    /\ \A k \in 1..n, c \in 1..Clients, s \in 0..(Steps - 1) :
          order[k] = Slot(c, s) =>
             results[k] = IF s < step[c] THEN history[Slot(c, s)].result ELSE answer[c]
    /\ \A j, k \in 1..n :
          j < k /\ history[order[k]].end # 0 => history[order[j]].start < history[order[k]].end

Blameless == plan.faults = {} /\ failed = {}

HonestOK ==
    outcome = "calling" /\ Blameless =>
        \E n, order, values, results :
            Effects(n, order, values, results) /\ Witnessed(n, order, results)

\* Once the history is with the checker.
CheckingOK ==
    outcome # "calling" =>
        /\ HC!IInv /\ Len(history) = Planned + 1
        /\ \A c \in 1..Clients : Finished(c)
        /\ failed = {} => HC!WellFormed(history, Absent)
        /\ Blameless => HC!Explainable(history, HC!Start)
        /\ verdict = "malformed" => failed # {}

IInv == ClientsOK /\ CallingOK /\ FailedOK /\ HonestOK /\ CheckingOK
-----------------------------------------------------------------------------
\* What a plan gives.
LEMMA PlanFacts ==
    ASSUME plan \in Rounds
    PROVE  /\ Clients \in Nat \ {0} /\ Steps \in Nat \ {0} /\ Planned \in Nat \ {0}
           /\ Planned < MaxEntries /\ MaxEntries \in Nat
           /\ plan.script \in [1..Planned -> [kind : Kinds, input : Int]]
<1>1. /\ Clients \in Nat \ {0} /\ Steps \in Nat \ {0} /\ Planned < MaxEntries /\ MaxEntries \in Nat
      /\ plan.script \in [1..Planned -> [kind : Kinds, input : Int]]
  BY RoundsAssumption DEF Clients, Steps, Planned
<1>2. Planned \in Nat \ {0}
  BY <1>1, Places
<1> QED BY <1>1, <1>2

\* The document and the answers have their types.
LEMMA CallTypes ==
    ASSUME NEW d \in Document, NEW e, e.input \in Int
    PROVE  After(d, e) \in Document /\ Answer(d, e) \in Result
<1>1. Absent \in Document /\ d.counter + e.input \in Int
  BY DEF Absent, Document
<1>2. \A m \in Int : Holding(m) \in Document
  BY DEF Holding, Document
<1>3. After(d, e) \in Document
  BY <1>1, <1>2 DEF After
<1>4. Conflicted \in Result /\ Observed(d) \in Result /\ \A b \in BOOLEAN : Applied(b) \in Result
  BY <1>1 DEF Conflicted, Observed, Applied, Result
<1>5. Answer(d, e) \in Result
  BY <1>4 DEF Answer, Document
<1> QED BY <1>3, <1>5

\* A call that the store executes answers what its record will say, and a
\* conflict has no effect.
LEMMA Recordable ==
    ASSUME NEW d \in Document, NEW e, ~Refused(e)
    PROVE  /\ Answer(d, [kind |-> e.kind, input |-> e.input, result |-> Answer(d, e)]) = Answer(d, e)
           /\ After(d, [kind |-> e.kind, input |-> e.input, result |-> Answer(d, e)]) = After(d, e)
           /\ e.kind \in {"add", "replace"} =>
                 /\ Answer(d, [kind |-> e.kind, input |-> e.input, result |-> Conflicted]) = Conflicted
                 /\ After(d, [kind |-> e.kind, input |-> e.input, result |-> Conflicted]) = d
<1> DEFINE f == [kind |-> e.kind, input |-> e.input, result |-> Answer(d, e)]
           g == [kind |-> e.kind, input |-> e.input, result |-> Conflicted]
<1>2. Answer(d, e).conflict = FALSE
  BY DEF Answer, Observed, Applied
<1>3. ~Refused(f) /\ f.kind = e.kind /\ f.input = e.input
  BY <1>2 DEF Refused
<1>4. Answer(d, f) = Answer(d, e) /\ After(d, f) = After(d, e)
  BY <1>3 DEF Answer, After
<1>5. e.kind \in {"add", "replace"} => Refused(g)
  BY DEF Refused, Conflicted
<1>6. e.kind \in {"add", "replace"} => Answer(d, g) = Conflicted /\ After(d, g) = d
  BY <1>5 DEF Answer, After
<1> QED BY <1>4, <1>6
-----------------------------------------------------------------------------
(* The clients' steps.                                                     *)

\* Nothing has been called.
LEMMA InitIInv == Init => IInv
<1> SUFFICES ASSUME Init PROVE IInv
  OBVIOUS
<1>1. plan \in Rounds /\ outcome = "calling" /\ doc = Absent /\ failed = {}
  BY DEF Init
<1>2. /\ Clients \in Nat \ {0} /\ Steps \in Nat \ {0} /\ Planned \in Nat \ {0}
      /\ plan.script \in [1..Planned -> [kind : Kinds, input : Int]]
  BY <1>1, PlanFacts
<1>3. /\ step = [c \in 1..Clients |-> 0] /\ stage = [c \in 1..Clients |-> "ready"]
      /\ answer = [c \in 1..Clients |-> Applied(FALSE)] /\ clock = 0 /\ initial = Absent
      /\ history = [i \in 1..Planned |-> Unrun(i, plan.script[i])]
      /\ stack = <<>> /\ rejected = {} /\ exhausted = FALSE /\ verdict = "unchecked"
  BY DEF Init
<1>4. Absent \in Document /\ Applied(FALSE) \in Result
  BY DEF Absent, Document, Applied, Result
<1>a. \A c \in 1..Clients : step[c] = 0 /\ stage[c] = "ready"
  BY <1>3
<1>b. step \in [1..Clients -> 0..Steps] /\ stage \in [1..Clients -> Stages]
      /\ answer \in [1..Clients -> Result]
  <2>1. 0 \in 0..Steps /\ "ready" \in Stages
    BY <1>2 DEF Stages
  <2> QED BY <1>3, <1>4, <2>1
<1>c. \A c \in 1..Clients : ~GivenUp(c)
  BY <1>a DEF GivenUp
<1>d. clock \in Nat /\ initial = Absent /\ doc \in Document
  BY <1>1, <1>3, <1>4
<1>5. ClientsOK
  BY <1>1, <1>a, <1>b, <1>c, <1>d DEF ClientsOK
<1>6. ASSUME NEW i \in 1..Planned PROVE Unrun(i, plan.script[i]) \in Entry
  <2> DEFINE call == plan.script[i]
  <2>1. call.kind \in Kinds /\ call.input \in Int /\ i \in Int
    BY <1>2
  <2> HIDE DEF call
  <2>3. Unrun(i, call) \in Entry
    BY ONLY <1>4, <2>1 DEF Unrun, Entry, Applied
  <2> QED BY <2>3 DEF call
<1>7. \A c \in 1..Clients, s \in 0..(Steps - 1) : Slot(c, s) \in 1..Planned
  BY <1>2, Places
<1>8. CallingOK
  <2> SUFFICES ASSUME NEW c \in 1..Clients, NEW s \in 0..(Steps - 1) PROVE Entered(c, s)
    <3>1. history \in [1..Planned -> Entry]
      BY <1>3, <1>6
    <3> QED BY <1>3, <3>1 DEF CallingOK
  <2>1. history[Slot(c, s)] = Unrun(Slot(c, s), plan.script[Slot(c, s)])
    BY <1>3, <1>7
  <2>2. step[c] = 0 /\ stage[c] = "ready" /\ s \in Nat
    BY <1>a, <1>2
  <2> QED BY <2>1, <2>2 DEF Entered, Unrun
<1>9. FailedOK /\ CheckingOK
  BY <1>1 DEF FailedOK, CheckingOK
<1>10. HonestOK
  <2> DEFINE none == [k \in 1..0 |-> 0]
  <2>1. Effects(0, none, none, none)
    BY <1>1 DEF Effects
  <2>2. Witnessed(0, none, none)
    BY <1>a, <1>2 DEF Witnessed, Effective
  <2> HIDE DEF none
  <2> QED BY <2>1, <2>2 DEF HonestOK
<1> QED BY <1>5, <1>8, <1>9, <1>10 DEF IInv

\* A round is what it was.
LEMMA SamePlan ==
    ASSUME plan' = plan
    PROVE  /\ Clients' = Clients /\ Steps' = Steps /\ Planned' = Planned
           /\ \A c, s : Slot(c, s)' = Slot(c, s)
           /\ \A i, r : Event(i, r)' = Event(i, r)
BY DEF Clients, Steps, Planned, Slot, Event

\* Where a client's current call is in the history.
LEMMA Current ==
    ASSUME ClientsOK, CallingOK, outcome = "calling", NEW c \in 1..Clients, step[c] < Steps
    PROVE  /\ step[c] \in 0..(Steps - 1) /\ Index(c) = Slot(c, step[c]) /\ Index(c) \in 1..Planned
           /\ history[Index(c)] \in Entry /\ Entered(c, step[c])
           /\ plan.script[Index(c)].kind \in Kinds /\ plan.script[Index(c)].input \in Int
<1>1. /\ Clients \in Nat \ {0} /\ Steps \in Nat \ {0} /\ Planned \in Nat \ {0}
      /\ plan.script \in [1..Planned -> [kind : Kinds, input : Int]]
  BY PlanFacts DEF ClientsOK
<1>2. step[c] \in 0..(Steps - 1)
  BY <1>1 DEF ClientsOK
<1>3. Index(c) = Slot(c, step[c])
  BY DEF Index, Slot
<1>4. Slot(c, step[c]) \in 1..Planned
  <2>1. Clients \in Nat \ {0} /\ Steps \in Nat \ {0}
    BY <1>1
  <2> QED BY <1>2, <2>1, Places
<1>5. plan.script[Index(c)] \in [kind : Kinds, input : Int]
  BY <1>1, <1>3, <1>4
<1> QED BY <1>2, <1>3, <1>4, <1>5 DEF CallingOK

\* A step of one client changes at most its current entry.
LEMMA OneEntry ==
    ASSUME ClientsOK, CallingOK, outcome = "calling", NEW c \in 1..Clients, step[c] < Steps,
           plan' = plan, clock' \in {clock, clock + 1},
           NEW p \in {step[c], step[c] + 1}, NEW st \in Stages, NEW e \in Entry,
           step' = [step EXCEPT ![c] = p], stage' = [stage EXCEPT ![c] = st],
           p # step[c] => st = "ready",
           history' = [history EXCEPT ![Index(c)] = e],
           NEW s0, s0 = step[c], Entered(c, s0)'
    PROVE  /\ history' \in [1..Planned -> Entry]
           /\ \A d \in 1..Clients, s \in 0..(Steps - 1) : Entered(d, s)'
           /\ history'[Index(c)] = e
           /\ \A d \in 1..Clients, s \in 0..(Steps - 1) :
                 d # c \/ s # step[c] => history'[Slot(d, s)] = history[Slot(d, s)]
<1>1. /\ Clients \in Nat \ {0} /\ Steps \in Nat \ {0} /\ Planned \in Nat \ {0} /\ clock \in Nat
      /\ step \in [1..Clients -> 0..Steps] /\ stage \in [1..Clients -> Stages]
      /\ history \in [1..Planned -> Entry]
  BY PlanFacts DEF ClientsOK, CallingOK
<1>2. Index(c) = Slot(c, step[c]) /\ Index(c) \in 1..Planned /\ step[c] \in 0..(Steps - 1)
  BY Current
<1>3. history' \in [1..Planned -> Entry] /\ history'[Index(c)] = e
      /\ \A i \in 1..Planned : i # Index(c) => history'[i] = history[i]
  BY <1>1, <1>2
<1>4. \A d \in 1..Clients, s \in 0..(Steps - 1) :
         Slot(d, s) \in 1..Planned /\ (d # c \/ s # step[c] => Slot(d, s) # Index(c))
  <2>1. Clients \in Nat \ {0} /\ Steps \in Nat \ {0}
    BY <1>1
  <2> QED BY <1>2, <2>1, Places
<1>5. ASSUME NEW d \in 1..Clients, NEW s \in 0..(Steps - 1), d # c \/ s # step[c]
      PROVE  Entered(d, s)'
  <2>1. history'[Slot(d, s)] = history[Slot(d, s)] /\ Slot(d, s)' = Slot(d, s)
        /\ plan' = plan
    BY <1>3, <1>4, <1>5, SamePlan
  <2>2. history[Slot(d, s)] \in Entry /\ Entered(d, s)
    BY <1>1, <1>4 DEF CallingOK
  <2>a. /\ history[Slot(d, s)].start \in Int /\ history[Slot(d, s)].end \in Int
        /\ clock \in Int /\ clock' \in Int /\ clock <= clock'
    <3>1. history[Slot(d, s)].start \in Int /\ history[Slot(d, s)].end \in Int
      BY <2>2 DEF Entry
    <3>2. clock \in Int /\ clock' \in Int /\ clock <= clock'
      BY <1>1
    <3> QED BY <3>1, <3>2
  <2>3. CASE d # c
    <3>1. step'[d] = step[d] /\ stage'[d] = stage[d]
      BY <1>1, <2>3
    <3> QED BY ONLY <2>1, <2>2, <2>a, <3>1 DEF Entered, Applied
  <2>4. CASE d = c
    <3>1. step'[d] = p /\ stage'[d] = st /\ step[d] \in Nat /\ s \in Nat
      BY <1>1, <2>4
    <3>2. CASE s < step[d]
      <4>1. s < p /\ ~ (s >= p) /\ ~ (s = p) /\ ~ (s > p)
        BY <2>4, <3>1, <3>2
      <4>2. ~ (s >= step[d]) /\ ~ (s = step[d]) /\ ~ (s > step[d])
        BY <3>1, <3>2
      <4> QED BY ONLY <2>1, <2>2, <2>a, <2>4, <3>1, <3>2, <4>1, <4>2 DEF Entered, Applied
    <3>3. CASE s > step[d]
      <4>1. ~ (s < p) /\ (s = p => st = "ready")
        BY <2>4, <3>1, <3>3
      <4>2. s >= step[d]
        BY <3>1, <3>3
      <4> QED BY <2>1, <2>2, <2>4, <3>1, <3>3, <4>1, <4>2 DEF Entered
    <3>4. s < step[d] \/ s > step[d]
      BY <1>5, <2>4, <3>1
    <3> QED BY <3>2, <3>3, <3>4
  <2> QED BY <2>3, <2>4
<1>6. \A d \in 1..Clients, s \in 0..(Steps - 1) : Entered(d, s)'
  <2> SUFFICES ASSUME NEW d \in 1..Clients, NEW s \in 0..(Steps - 1), d = c, s = s0 PROVE Entered(d, s)'
    BY <1>5
  <2> QED OBVIOUS
<1> QED BY <1>3, <1>4, <1>6

\* A step that leaves the checker alone leaves its invariant alone.
LEMMA SearchRests ==
    ASSUME HC!IInv, UNCHANGED <<history, initial, stack, rejected, exhausted, verdict>>
    PROVE  HC!IInv'
<1>1. UNCHANGED HC!vars
  BY DEF HC!vars
<1> QED BY <1>1, Settings, HC!StepIInv

\* Whoever still has a call to make or to finish keeps the round from ending.
LEMMA StillCalling ==
    ASSUME IInv, NEW c \in 1..Clients,
           stage[c] \in {"invoked", "served"} \/ (stage[c] = "ready" /\ step[c] < Steps)
    PROVE  outcome = "calling" /\ step[c] < Steps
<1>1. Steps \in Nat /\ step[c] \in Nat /\ (stage[c] # "ready" => step[c] < Steps)
  <2>1. plan \in Rounds /\ step \in [1..Clients -> 0..Steps] /\ (stage[c] # "ready" => step[c] < Steps)
    BY DEF IInv, ClientsOK
  <2>2. Steps \in Nat
    BY <2>1, PlanFacts
  <2>3. step[c] \in 0..Steps
    BY <2>1
  <2> QED BY ONLY <2>1, <2>2, <2>3
<1>2. step[c] < Steps => ~ (step[c] = Steps)
  BY <1>1
<1>3. ~Finished(c)
  BY <1>2 DEF Finished
<1> QED BY <1>1, <1>3 DEF IInv, CheckingOK

\* The parts of the invariant that a client's step keeps by leaving its call
\* neither failed nor given up.
LEMMA NobodyGivesUp ==
    ASSUME IInv, NEW c \in 1..Clients, outcome = "calling", step[c] < Steps,
           ~GivenUp(c), plan' = plan, clock' \in {clock, clock + 1},
           NEW p \in {step[c], step[c] + 1}, NEW st \in {"ready", "invoked", "served"},
           NEW e \in Entry, st # "ready" => p = step[c],
           step' = [step EXCEPT ![c] = p], stage' = [stage EXCEPT ![c] = st],
           p # step[c] => st = "ready",
           history' = [history EXCEPT ![Index(c)] = e],
           NEW s0, s0 = step[c], Entered(c, s0)',
           answer' \in [1..Clients -> Result], doc' \in Document,
           UNCHANGED <<failed, outcome, search>>
    PROVE  ClientsOK' /\ CallingOK' /\ FailedOK' /\ CheckingOK'
<1>1. /\ Clients \in Nat \ {0} /\ Steps \in Nat \ {0} /\ clock \in Nat
      /\ step \in [1..Clients -> 0..Steps] /\ stage \in [1..Clients -> Stages]
      /\ ClientsOK /\ CallingOK /\ FailedOK
  BY PlanFacts DEF IInv, ClientsOK
<1>2. /\ Clients' = Clients /\ Steps' = Steps /\ Planned' = Planned
      /\ \A d, s : Slot(d, s)' = Slot(d, s)
  BY SamePlan
<1>3. st \in Stages /\ step[c] \in 0..(Steps - 1) /\ Index(c) = Slot(c, step[c])
  BY <1>1, Current DEF Stages
<1>4. /\ history' \in [1..Planned -> Entry] /\ history'[Index(c)] = e
      /\ \A d \in 1..Clients, s \in 0..(Steps - 1) : Entered(d, s)'
      /\ \A d \in 1..Clients, s \in 0..(Steps - 1) :
            d # c \/ s # step[c] => history'[Slot(d, s)] = history[Slot(d, s)]
  BY <1>1, <1>3, OneEntry
<1>5. /\ \A d \in 1..Clients : d # c => step'[d] = step[d] /\ stage'[d] = stage[d]
      /\ step'[c] = p /\ stage'[c] = st
  BY <1>1
<1>6. p \in 0..Steps
  BY <1>1, <1>3
<1>7. \A d \in 1..Clients : GivenUp(d)' <=> GivenUp(d)
  BY <1>5 DEF GivenUp
<1>8. step' \in [1..Clients -> 0..Steps] /\ stage' \in [1..Clients -> Stages]
  BY <1>1, <1>3, <1>6
<1>s. \A d \in 1..Clients : d # c => Slot(d, step[d])' = Slot(d, step[d])
  BY <1>2, <1>5 DEF Slot
<1>9. ASSUME NEW d \in 1..Clients, stage'[d] # "ready" PROVE step'[d] < Steps
  <2>1. stage[d] # "ready" => step[d] < Steps
    BY <1>1 DEF ClientsOK
  <2> QED BY <1>5, <1>9, <2>1
<1>10. ASSUME NEW d \in 1..Clients PROVE GivenUp(d)' => Slot(d, step[d])' \in failed'
  <2>1. GivenUp(d) => d # c /\ Slot(d, step[d]) \in failed
    BY <1>1 DEF ClientsOK
  <2> QED BY <1>s, <1>7, <2>1
<1>11. ASSUME NEW i \in failed'
       PROVE  \E d \in 1..Clients : i = Slot(d, step[d])' /\ GivenUp(d)'
  <2>1. PICK d \in 1..Clients : i = Slot(d, step[d]) /\ GivenUp(d)
    BY <1>1, <1>11 DEF ClientsOK
  <2>2. d # c
    BY <2>1
  <2> QED BY <1>s, <1>7, <2>1, <2>2
<1>12. clock' \in Nat /\ initial' = Absent /\ outcome' = "calling"
       /\ stack' = stack /\ rejected' = rejected /\ exhausted' = exhausted /\ verdict' = verdict
  BY <1>1 DEF search, ClientsOK
<1>13. ClientsOK'
  BY <1>1, <1>2, <1>8, <1>9, <1>10, <1>11, <1>12 DEF ClientsOK
<1>14. CallingOK'
  BY <1>1, <1>2, <1>4, <1>12 DEF CallingOK
<1>15. FailedOK'
  <2> SUFFICES ASSUME NEW i \in failed
                 PROVE  i \in 1..Planned /\ history'[i] \in Entry /\ history'[i].result = Applied(FALSE)
    BY <1>2 DEF FailedOK
  <2>1. PICK d \in 1..Clients : i = Slot(d, step[d]) /\ GivenUp(d)
    BY <1>1 DEF ClientsOK
  <2>2. d # c /\ step[d] \in 0..(Steps - 1)
    <3>1. stage[d] # "ready"
      BY <2>1 DEF GivenUp
    <3>2. step[d] < Steps /\ step[d] \in 0..Steps
      BY <1>1, <3>1 DEF ClientsOK
    <3> QED BY <1>1, <2>1, <3>2
  <2>3. history'[i] = history[i]
    BY <1>4, <2>1, <2>2
  <2> QED BY <1>1, <2>3 DEF FailedOK
<1> QED BY <1>12, <1>13, <1>14, <1>15 DEF CheckingOK

\* The effects stay what they are while nothing new takes effect.
LEMMA SameEffects ==
    ASSUME NEW n, NEW order, NEW values, NEW results, Effects(n, order, values, results),
           plan' = plan, doc' = doc
    PROVE  Effects(n, order, values, results)'
<1>1. Planned' = Planned /\ \A i, r : Event(i, r)' = Event(i, r)
  BY SamePlan
<1> QED BY <1>1 DEF Effects, Before

\* Where the effects are in the history.
LEMMA EffectPlaces ==
    ASSUME ClientsOK, CallingOK, outcome = "calling",
           NEW n, NEW order, NEW values, NEW results,
           Effects(n, order, values, results), Witnessed(n, order, results), NEW k \in 1..n
    PROVE  /\ order[k] \in 1..Planned /\ history[order[k]] \in Entry
           /\ history[order[k]].start <= clock /\ history[order[k]].end <= clock
           /\ \E c \in 1..Clients, s \in 0..(Steps - 1) : order[k] = Slot(c, s) /\ Effective(c, s)
<1>1. order[k] \in 1..Planned /\ clock \in Nat
  BY DEF Effects, ClientsOK
<1>2. Clients \in Nat \ {0} /\ Steps \in Nat \ {0}
  BY PlanFacts DEF ClientsOK
<1>3. PICK c \in 1..Clients, s \in 0..(Steps - 1) : order[k] = Slot(c, s)
  BY <1>1, <1>2, Places
<1>4. Effective(c, s)
  BY <1>3 DEF Witnessed
<1>5. history[order[k]] \in Entry /\ Entered(c, s)
  BY <1>1 DEF CallingOK
<1>6. history[order[k]].start \in Int /\ history[order[k]].end \in Int
  BY <1>5 DEF Entry
<1>7. history[order[k]].start <= clock /\ history[order[k]].end <= clock
  <2>1. CASE s < step[c]
    BY ONLY <1>1, <1>3, <1>5, <1>6, <2>1 DEF Entered
  <2>2. CASE s = step[c] /\ stage[c] = "served"
    BY ONLY <1>1, <1>3, <1>5, <1>6, <2>2 DEF Entered
  <2> QED BY <1>4, <2>1, <2>2 DEF Effective
<1> QED BY <1>1, <1>3, <1>4, <1>5, <1>7

\* A call begins.
LEMMA BeginIInv == ASSUME IInv, NEW c \in 1..Clients, Begin(c) PROVE IInv'
<1> DEFINE i == Index(c)
           e == [history[i] EXCEPT !.start = clock + 1]
<1>1. /\ stage[c] = "ready" /\ step[c] < Steps /\ clock' = clock + 1 /\ history' = [history EXCEPT ![i] = e]
      /\ stage' = [stage EXCEPT ![c] = "invoked"]
      /\ UNCHANGED <<step, answer, doc, failed, outcome, search, plan>>
  BY DEF Begin
<1>2. outcome = "calling"
  BY <1>1, StillCalling
<1>3. ClientsOK /\ CallingOK /\ clock \in Nat
  BY DEF IInv, ClientsOK
<1>4. /\ step[c] \in 0..(Steps - 1) /\ i = Slot(c, step[c]) /\ i \in 1..Planned
      /\ history[i] \in Entry /\ Entered(c, step[c])
  BY <1>1, <1>2, <1>3, Current
<1>5. e \in Entry /\ e.start = clock + 1 /\ e.end = history[i].end /\ e.id = history[i].id
      /\ e.kind = history[i].kind /\ e.input = history[i].input /\ e.result = history[i].result
  BY <1>3, <1>4 DEF Entry
<1>6. step = [step EXCEPT ![c] = step[c]] /\ step \in [1..Clients -> 0..Steps]
      /\ stage \in [1..Clients -> Stages] /\ Clients \in Nat /\ Steps \in Nat
  BY <1>3, PlanFacts DEF ClientsOK
<1>8. PICK s0 \in 0..(Steps - 1) : s0 = step[c]
  BY <1>4
<1>7. history'[i] = e /\ stage'[c] = "invoked" /\ step'[c] = s0 /\ Slot(c, s0)' = Slot(c, s0)
  BY <1>1, <1>3, <1>4, <1>6, <1>2, <1>8, SamePlan DEF CallingOK
<1> HIDE DEF e
<1>9. Entered(c, s0)'
  <2>1. /\ e.id = Slot(c, s0) /\ e.kind = plan.script[Slot(c, s0)].kind
        /\ e.input = plan.script[Slot(c, s0)].input /\ e.end = 0 /\ e.result = Applied(FALSE)
        /\ e.start = clock'
    BY <1>1, <1>4, <1>5, <1>8 DEF Entered, Applied
  <2>2. history'[Slot(c, s0)'] = e /\ plan' = plan /\ 0 < clock' /\ clock' \in Int
    BY <1>1, <1>3, <1>4, <1>7, <1>8
  <2> QED BY ONLY <1>7, <1>8, <2>1, <2>2 DEF Entered, Applied
<1>10. answer' \in [1..Clients -> Result] /\ doc' \in Document /\ ~GivenUp(c)
  BY <1>1, <1>3 DEF ClientsOK, GivenUp
<1>11. ClientsOK' /\ CallingOK' /\ FailedOK' /\ CheckingOK'
  BY <1>1, <1>2, <1>5, <1>6, <1>8, <1>9, <1>10, NobodyGivesUp
<1>12. HonestOK'
  <2> SUFFICES ASSUME Blameless'
               PROVE  \E n, order, values, results :
                         (Effects(n, order, values, results) /\ Witnessed(n, order, results))'
    BY DEF HonestOK
  <2>1. Blameless
    BY <1>1 DEF Blameless
  <2>2. PICK n, order, values, results : Effects(n, order, values, results) /\ Witnessed(n, order, results)
    BY <1>2, <2>1 DEF IInv, HonestOK
  <2>3. Effects(n, order, values, results)'
    BY <1>1, <2>2, SameEffects
  <2>4. \A d \in 1..Clients, s \in 0..(Steps - 1) : Effective(d, s)' <=> Effective(d, s)
    BY <1>1, <1>6, <1>7 DEF Effective
  <2>5. ~Effective(c, step[c])
    BY <1>1, <1>4 DEF Effective
  <2>6. \A k \in 1..n : order[k] # i /\ order[k] \in 1..Planned
    <3>1. Clients \in Nat \ {0} /\ Steps \in Nat \ {0}
      BY <1>3, PlanFacts DEF ClientsOK
    <3> QED BY <1>2, <1>3, <1>4, <2>2, <2>5 DEF Witnessed, Effects
  <2>7. \A k \in 1..n : history'[order[k]] = history[order[k]]
    BY <1>1, <1>2, <1>3, <2>6 DEF CallingOK
  <2>8. Clients' = Clients /\ Steps' = Steps /\ \A d, s : Slot(d, s)' = Slot(d, s)
    BY <1>1, SamePlan
  <2>9. Witnessed(n, order, results)'
    BY <1>1, <2>2, <2>4, <2>7, <2>8 DEF Witnessed
  <2> QED BY <2>3, <2>9
<1> QED BY <1>11, <1>12 DEF IInv

\* A call returns: its result is the one it was given, and all that took
\* effect before it began before it ends.
LEMMA ReturnIInv == ASSUME IInv, NEW c \in 1..Clients, Return(c) PROVE IInv'
<1> DEFINE i == Index(c)
           e == [history[i] EXCEPT !.end = clock + 1, !.result = answer[c]]
<1>1. /\ stage[c] = "served" /\ clock' = clock + 1
      /\ stage' = [stage EXCEPT ![c] = "ready"] /\ step' = [step EXCEPT ![c] = step[c] + 1]
      /\ UNCHANGED <<answer, doc, failed, outcome, search, plan>>
  BY DEF Return
<1>2. outcome = "calling" /\ step[c] < Steps
  BY <1>1, StillCalling
<1>3. ClientsOK /\ CallingOK /\ clock \in Nat
  BY DEF IInv, ClientsOK
<1>4. /\ step[c] \in 0..(Steps - 1) /\ i = Slot(c, step[c]) /\ i \in 1..Planned
      /\ history[i] \in Entry /\ Entered(c, step[c])
  BY <1>2, <1>3, Current
<1>5. e \in Entry /\ e.end = clock + 1 /\ e.start = history[i].start /\ e.id = history[i].id
      /\ e.kind = history[i].kind /\ e.input = history[i].input /\ e.result = answer[c]
  <2>1. answer[c] \in Result /\ clock + 1 \in Int
    BY <1>3 DEF ClientsOK
  <2> QED BY <1>4, <2>1 DEF Entry
<1>a. history' = [history EXCEPT ![i] = e]
  <2>1. history' = [history EXCEPT ![i].end = clock + 1, ![i].result = answer[c]]
    BY DEF Return, Recorded
  <2>2. history \in [1..Planned -> Entry]
    BY <1>2, <1>3 DEF CallingOK
  <2> QED BY <1>4, <2>1, <2>2
<1>6. step \in [1..Clients -> 0..Steps] /\ stage \in [1..Clients -> Stages] /\ Clients \in Nat /\ Steps \in Nat
  BY <1>3, PlanFacts DEF ClientsOK
<1>8. PICK s0 \in 0..(Steps - 1) : s0 = step[c]
  BY <1>4
<1>7. history'[i] = e /\ stage'[c] = "ready" /\ step'[c] = s0 + 1 /\ Slot(c, s0)' = Slot(c, s0)
  BY <1>1, <1>2, <1>3, <1>4, <1>6, <1>8, <1>a, SamePlan DEF CallingOK
<1> HIDE DEF e
<1>9. Entered(c, s0)'
  <2>1. /\ e.id = Slot(c, s0) /\ e.kind = plan.script[Slot(c, s0)].kind
        /\ e.input = plan.script[Slot(c, s0)].input /\ 0 < e.start /\ e.start <= clock /\ e.end = clock'
    BY <1>1, <1>4, <1>5, <1>8 DEF Entered
  <2>2. history'[Slot(c, s0)'] = e /\ plan' = plan /\ clock' = clock + 1 /\ e.start \in Int /\ clock \in Int
        /\ s0 \in Int
    BY <1>1, <1>3, <1>4, <1>5, <1>7, <1>8 DEF Entry
  <2>3. s0 < step'[c] /\ ~ (s0 >= step'[c]) /\ ~ (s0 > step'[c]) /\ s0 # step'[c]
    BY ONLY <1>7, <2>2
  <2>4. 0 < e.start /\ e.start < e.end /\ e.end <= clock'
    BY ONLY <2>1, <2>2
  <2> QED BY ONLY <1>7, <2>1, <2>2, <2>3, <2>4 DEF Entered, Applied
<1>10. answer' \in [1..Clients -> Result] /\ doc' \in Document /\ ~GivenUp(c)
  BY <1>1, <1>3 DEF ClientsOK, GivenUp
<1>11. ClientsOK' /\ CallingOK' /\ FailedOK' /\ CheckingOK'
  BY <1>1, <1>2, <1>5, <1>6, <1>8, <1>9, <1>10, <1>a, NobodyGivesUp
<1>12. HonestOK'
  <2> SUFFICES ASSUME Blameless'
               PROVE  \E n, order, values, results :
                         (Effects(n, order, values, results) /\ Witnessed(n, order, results))'
    BY DEF HonestOK
  <2>1. Blameless
    BY <1>1 DEF Blameless
  <2>2. PICK n, order, values, results : Effects(n, order, values, results) /\ Witnessed(n, order, results)
    BY <1>2, <2>1 DEF IInv, HonestOK
  <2>3. Effects(n, order, values, results)'
    BY <1>1, <2>2, SameEffects
  <2>4. \A d \in 1..Clients, s \in 0..(Steps - 1) : Effective(d, s)' <=> Effective(d, s)
    <3> SUFFICES ASSUME NEW d \in 1..Clients, NEW s \in 0..(Steps - 1)
                 PROVE  Effective(d, s)' <=> Effective(d, s)
      OBVIOUS
    <3>1. CASE d # c
      <4>1. step'[d] = step[d] /\ stage'[d] = stage[d]
        BY <1>1, <1>6, <3>1
      <4> QED BY <4>1 DEF Effective
    <3>2. CASE d = c
      BY <1>1, <1>4, <1>7, <1>8, <3>2 DEF Effective
    <3> QED BY <3>1, <3>2
  <2>5. \A k \in 1..n : /\ order[k] \in 1..Planned /\ history[order[k]].start \in Int
                        /\ history[order[k]].start <= clock /\ history[order[k]].end \in Int
    BY <1>2, <1>3, <2>2, EffectPlaces DEF Entry
  <2>6. \A d \in 1..Clients, s \in 0..(Steps - 1) :
           /\ Slot(d, s) \in 1..Planned /\ Slot(d, s)' = Slot(d, s)
           /\ Slot(d, s) = i => d = c /\ s = s0
    <3>1. Clients \in Nat \ {0} /\ Steps \in Nat \ {0}
      BY <1>3, PlanFacts DEF ClientsOK
    <3>2. \A d, s : Slot(d, s)' = Slot(d, s)
      BY <1>1, SamePlan
    <3>3. s0 \in 0..(Steps - 1) /\ i = Slot(c, s0)
      BY <1>4, <1>8
    <3> QED BY <3>1, <3>2, <3>3, Places
  <2>7. \A k \in 1..n : history'[order[k]] = IF order[k] = i THEN e ELSE history[order[k]]
    BY <1>2, <1>3, <1>a, <2>5 DEF CallingOK
  <2>8. Clients' = Clients /\ Steps' = Steps
    BY <1>1, SamePlan
  <2>9. ASSUME NEW j \in 1..n, NEW k \in 1..n, j < k, history'[order[k]].end # 0
        PROVE  history'[order[j]].start < history'[order[k]].end
    <3>1. history'[order[j]].start = history[order[j]].start
      BY <1>5, <2>5, <2>7
    <3>2. CASE order[k] = i
      BY <1>3, <1>5, <2>5, <2>7, <3>1, <3>2
    <3>3. CASE order[k] # i
      BY <2>2, <2>7, <2>9, <3>1, <3>3 DEF Witnessed
    <3> QED BY <3>2, <3>3
  <2>10. ASSUME NEW k \in 1..n, NEW d \in 1..Clients, NEW s \in 0..(Steps - 1), order[k] = Slot(d, s)
         PROVE  results[k] = IF s < step'[d] THEN history'[Slot(d, s)].result ELSE answer'[d]
    <3>1. results[k] = IF s < step[d] THEN history[Slot(d, s)].result ELSE answer[d]
      BY <2>2, <2>10 DEF Witnessed
    <3>2. CASE Slot(d, s) = i
      <4>1. d = c /\ s = s0 /\ s < step'[d] /\ ~ (s < step[d])
        BY <1>4, <1>7, <1>8, <2>6, <3>2
      <4> QED BY <1>5, <1>7, <3>1, <3>2, <4>1
    <3>3. CASE Slot(d, s) # i
      <4>1. history'[Slot(d, s)] = history[Slot(d, s)]
        BY <2>7, <2>10, <3>3
      <4>2. s < step'[d] <=> s < step[d]
        <5>1. CASE d # c
          BY <1>1, <1>6, <5>1
        <5>2. CASE d = c
          BY <1>4, <1>7, <1>8, <3>3, <5>2
        <5> QED BY <5>1, <5>2
      <4> QED BY <1>1, <3>1, <4>1, <4>2
    <3> QED BY <3>2, <3>3
  <2>11. \A d \in 1..Clients, s \in 0..(Steps - 1) :
            (\E k \in 1..n : order[k] = Slot(d, s)) <=> Effective(d, s)'
    BY <2>2, <2>4 DEF Witnessed
  <2>12. Witnessed(n, order, results)'
    BY ONLY <2>6, <2>8, <2>9, <2>10, <2>11 DEF Witnessed
  <2> QED BY <2>3, <2>12
<1> QED BY <1>11, <1>12 DEF IInv

\* A function on the first numbers is continued.
OneMore(n, f, v) == [k \in 1..(n + 1) |-> IF k = n + 1 THEN v ELSE f[k]]

LEMMA OneMoreType ==
    \A n \in Nat : \A S, f, v :
       f \in [1..n -> S] /\ v \in S =>
          /\ OneMore(n, f, v) \in [1..(n + 1) -> S] /\ OneMore(n, f, v)[n + 1] = v
          /\ \A k \in 1..n : OneMore(n, f, v)[k] = f[k]
BY DEF OneMore

\* A call takes effect: it comes after all that took effect before.
LEMMA EffectIInv ==
    ASSUME IInv, NEW c \in 1..Clients, stage[c] = "invoked", NEW r \in Result,
           answer' = [answer EXCEPT ![c] = r], stage' = [stage EXCEPT ![c] = "served"],
           doc' \in Document,
           Blameless => /\ Answer(doc, Event(Index(c), r)) = r
                        /\ doc' = After(doc, Event(Index(c), r)),
           UNCHANGED <<clock, step, failed, outcome, history, search, plan>>
    PROVE  IInv'
<1> DEFINE i == Index(c)
<1>2. outcome = "calling" /\ step[c] < Steps
  BY StillCalling
<1>3. ClientsOK /\ CallingOK /\ clock \in Nat /\ history \in [1..Planned -> Entry]
  BY <1>2 DEF IInv, ClientsOK, CallingOK
<1>4. /\ step[c] \in 0..(Steps - 1) /\ i = Slot(c, step[c]) /\ i \in 1..Planned
      /\ history[i] \in Entry /\ Entered(c, step[c])
  BY <1>2, <1>3, Current
<1>6. step \in [1..Clients -> 0..Steps] /\ stage \in [1..Clients -> Stages] /\ Clients \in Nat
      /\ Steps \in Nat /\ answer \in [1..Clients -> Result]
  BY <1>3, PlanFacts DEF ClientsOK
<1>8. PICK s0 \in 0..(Steps - 1) : s0 = step[c]
  BY <1>4
<1>7. stage'[c] = "served" /\ step'[c] = s0 /\ Slot(c, s0)' = Slot(c, s0)
  BY <1>6, <1>8, SamePlan
<1>9. Entered(c, s0)'
  BY ONLY <1>4, <1>7, <1>8, UNCHANGED <<history, plan, clock>>, stage[c] = "invoked" DEF Entered, Applied
<1>10. answer' \in [1..Clients -> Result] /\ ~GivenUp(c)
  BY <1>6 DEF GivenUp
<1>a. step' = [step EXCEPT ![c] = step[c]] /\ history' = [history EXCEPT ![i] = history[i]]
  BY <1>3, <1>4, <1>6
<1>11. ClientsOK' /\ CallingOK' /\ FailedOK' /\ CheckingOK'
  BY <1>2, <1>4, <1>8, <1>9, <1>10, <1>a, NobodyGivesUp
<1>12. HonestOK'
  <2> SUFFICES ASSUME Blameless'
               PROVE  \E n, order, values, results :
                         (Effects(n, order, values, results) /\ Witnessed(n, order, results))'
    BY DEF HonestOK
  <2>1. Blameless
    BY DEF Blameless
  <2>2. PICK n, order, values, results : Effects(n, order, values, results) /\ Witnessed(n, order, results)
    BY <1>2, <2>1 DEF IInv, HonestOK
  <2>3. /\ n \in Nat /\ n + 1 \in Nat /\ order \in [1..n -> 1..Planned]
        /\ values \in [1..n -> Document] /\ results \in [1..n -> Result]
        /\ doc = IF n = 0 THEN Absent ELSE values[n]
    BY <2>2 DEF Effects
  <2>i. PICK i0 : i0 = i
    OBVIOUS
  <2>n. n \in Nat /\ i0 \in 1..Planned /\ doc' \in Document /\ r \in Result
    BY <1>4, <2>3, <2>i
  <2>o. order \in [1..n -> 1..Planned]
    BY <2>3
  <2>v. values \in [1..n -> Document]
    BY <2>3
  <2>r. results \in [1..n -> Result]
    BY <2>3
  <2>p. PICK order1, values1, results1 :
           /\ order1 = OneMore(n, order, i0) /\ values1 = OneMore(n, values, doc')
           /\ results1 = OneMore(n, results, r)
    OBVIOUS
  <2>a. order1 \in [1..(n + 1) -> 1..Planned] /\ order1[n + 1] = i0 /\ \A k \in 1..n : order1[k] = order[k]
    <3>1. PICK S : S = 1..Planned
      OBVIOUS
    <3>2. n \in Nat /\ i0 \in S /\ order \in [1..n -> S] /\ order1 = OneMore(n, order, i0)
      BY <2>n, <2>o, <2>p, <3>1
    <3>3. order1 \in [1..(n + 1) -> S] /\ order1[n + 1] = i0 /\ \A k \in 1..n : order1[k] = order[k]
      BY ONLY <3>2, OneMoreType
    <3> QED BY <3>1, <3>3
  <2>b. values1 \in [1..(n + 1) -> Document] /\ values1[n + 1] = doc' /\ \A k \in 1..n : values1[k] = values[k]
    BY ONLY <2>n, <2>v, <2>p, OneMoreType
  <2>c. results1 \in [1..(n + 1) -> Result] /\ results1[n + 1] = r /\ \A k \in 1..n : results1[k] = results[k]
    BY ONLY <2>n, <2>r, <2>p, OneMoreType
  <2>4. /\ order1 \in [1..(n + 1) -> 1..Planned] /\ values1 \in [1..(n + 1) -> Document]
        /\ results1 \in [1..(n + 1) -> Result]
    BY <2>a, <2>b, <2>c
  <2>5. /\ order1[n + 1] = i /\ values1[n + 1] = doc' /\ results1[n + 1] = r
        /\ \A k \in 1..n : order1[k] = order[k] /\ values1[k] = values[k] /\ results1[k] = results[k]
    BY <2>a, <2>b, <2>c, <2>i
  <2>6. \A k \in 1..n : Before(values1, k) = Before(values, k)
    BY <2>3, <2>5 DEF Before
  <2>7. Before(values1, n + 1) = doc
    BY <2>3, <2>5 DEF Before
  <2>8. \A k \in 1..(n + 1) : k \in 1..n \/ k = n + 1
    BY <2>3
  <2>9. ~Effective(c, step[c])
    BY <1>4 DEF Effective
  <2>10. \A k \in 1..n : order[k] # i
    BY <1>4, <2>2, <2>9 DEF Witnessed
  <2>11. \A j, k \in 1..(n + 1) : j < k => j \in 1..n
    BY <2>3
  <2>12. \A j, k \in 1..(n + 1) : j < k => order1[j] # order1[k]
    <3> SUFFICES ASSUME NEW j \in 1..(n + 1), NEW k \in 1..(n + 1), j < k PROVE order1[j] # order1[k]
      OBVIOUS
    <3>1. j \in 1..n
      BY <2>11
    <3>2. CASE k \in 1..n
      BY <2>2, <2>5, <3>1, <3>2 DEF Effects
    <3>3. CASE k = n + 1
      BY <2>5, <2>10, <3>1, <3>3
    <3> QED BY <2>8, <3>2, <3>3
  <2>13. ASSUME NEW k \in 1..(n + 1)
         PROVE  /\ Answer(Before(values1, k), Event(order1[k], results1[k])) = results1[k]
                /\ values1[k] = After(Before(values1, k), Event(order1[k], results1[k]))
    <3>1. CASE k \in 1..n
      BY <2>2, <2>5, <2>6, <3>1 DEF Effects
    <3>2. CASE k = n + 1
      BY <2>1, <2>5, <2>7, <3>2
    <3> QED BY <2>8, <3>1, <3>2
  <2>14. doc' = IF n + 1 = 0 THEN Absent ELSE values1[n + 1]
    BY <2>3, <2>5
  <2>15. /\ Clients' = Clients /\ Steps' = Steps /\ Planned' = Planned
         /\ \A d, s : Slot(d, s)' = Slot(d, s) /\ \A k, q : Event(k, q)' = Event(k, q)
    BY SamePlan
  <2>16. Effects(n + 1, order1, values1, results1)'
    BY ONLY <2>3, <2>4, <2>12, <2>13, <2>14, <2>15 DEF Effects, Before
  <2>17. ASSUME NEW d \in 1..Clients, NEW s \in 0..(Steps - 1)
         PROVE  Effective(d, s)' <=> Effective(d, s) \/ (d = c /\ s = s0)
    <3>1. CASE d # c
      BY <1>6, <3>1 DEF Effective
    <3>2. CASE d = c
      BY <1>4, <1>6, <1>7, <1>8, <3>2 DEF Effective
    <3> QED BY <3>1, <3>2
  <2>18. \A d \in 1..Clients, s \in 0..(Steps - 1) : Slot(d, s) = i <=> d = c /\ s = s0
    <3>1. Clients \in Nat \ {0} /\ Steps \in Nat \ {0}
      BY <1>3, PlanFacts DEF ClientsOK
    <3>2. i = Slot(c, s0)
      BY <1>4, <1>8
    <3>3. c \in 1..Clients /\ s0 \in 0..(Steps - 1)
      OBVIOUS
    <3>4. \A d \in 1..Clients, s \in 0..(Steps - 1) : Slot(d, s) = Slot(c, s0) => d = c /\ s = s0
      BY ONLY <3>1, <3>3, Places
    <3> QED BY ONLY <3>2, <3>4
  <2>19. \A d \in 1..Clients, s \in 0..(Steps - 1) :
            (\E k \in 1..(n + 1) : order1[k] = Slot(d, s)) <=> Effective(d, s)'
    <3> SUFFICES ASSUME NEW d \in 1..Clients, NEW s \in 0..(Steps - 1)
                 PROVE  (\E k \in 1..(n + 1) : order1[k] = Slot(d, s)) <=> Effective(d, s)'
      OBVIOUS
    <3>1. (\E k \in 1..n : order[k] = Slot(d, s)) <=> Effective(d, s)
      BY <2>2 DEF Witnessed
    <3>2. (\E k \in 1..(n + 1) : order1[k] = Slot(d, s))
             <=> (\E k \in 1..n : order[k] = Slot(d, s)) \/ i = Slot(d, s)
      <4>1. \A k \in 1..n : k \in 1..(n + 1)
        BY <2>3
      <4>2. n + 1 \in 1..(n + 1)
        BY <2>3
      <4> QED BY <2>5, <2>8, <4>1, <4>2
    <3> QED BY <2>17, <2>18, <3>1, <3>2
  <2>20. ASSUME NEW k \in 1..(n + 1), NEW d \in 1..Clients, NEW s \in 0..(Steps - 1), order1[k] = Slot(d, s)
         PROVE  results1[k] = IF s < step[d] THEN history[Slot(d, s)].result ELSE answer'[d]
    <3>1. CASE k \in 1..n
      <4>1. order[k] = Slot(d, s) /\ results1[k] = results[k]
        BY <2>5, <2>20, <3>1
      <4>2. results[k] = IF s < step[d] THEN history[Slot(d, s)].result ELSE answer[d]
        BY <2>2, <3>1, <4>1 DEF Witnessed
      <4>3. s < step[d] \/ d # c
        BY <2>2, <3>1, <4>1 DEF Witnessed, Effective
      <4> QED BY <1>6, <4>1, <4>2, <4>3
    <3>2. CASE k = n + 1
      <4>1. d = c /\ s = s0
        BY <2>5, <2>18, <2>20, <3>2
      <4>2. ~ (s < step[d])
        BY <1>4, <1>8, <4>1
      <4> QED BY <1>6, <2>5, <3>2, <4>1, <4>2
    <3> QED BY <2>8, <3>1, <3>2
  <2>21. ASSUME NEW j \in 1..(n + 1), NEW k \in 1..(n + 1), j < k, history[order1[k]].end # 0
         PROVE  history[order1[j]].start < history[order1[k]].end
    <3>1. k # n + 1
      <4>1. history[i].end = 0
        BY <1>4 DEF Entered
      <4> QED BY <2>5, <2>21, <4>1
    <3>2. k \in 1..n /\ j \in 1..n
      BY <2>8, <2>11, <2>21, <3>1
    <3> QED BY <2>2, <2>5, <2>21, <3>2 DEF Witnessed
  <2>22. Witnessed(n + 1, order1, results1)'
    BY ONLY <2>15, <2>19, <2>20, <2>21, UNCHANGED <<history, step>> DEF Witnessed
  <2> QED BY <2>16, <2>22
<1> QED BY <1>11, <1>12 DEF IInv

\* The store executes a call whose client has given it up: nothing in the
\* history changes.
LEMMA LateIInv ==
    ASSUME IInv, NEW c \in 1..Clients, stage[c] = "abandoned", NEW r \in Result,
           answer' = [answer EXCEPT ![c] = r], stage' = [stage EXCEPT ![c] = "stopped"],
           doc' \in Document,
           UNCHANGED <<clock, step, failed, outcome, history, search, plan>>
    PROVE  IInv'
<1>1. /\ ClientsOK /\ FailedOK /\ stage \in [1..Clients -> Stages] /\ answer \in [1..Clients -> Result]
      /\ clock \in Nat
  BY DEF IInv, ClientsOK
<1>2. /\ \A d \in 1..Clients : d # c => stage'[d] = stage[d] /\ answer'[d] = answer[d]
      /\ stage'[c] = "stopped" /\ answer'[c] = r
      /\ stage' \in [1..Clients -> Stages] /\ answer' \in [1..Clients -> Result]
  BY <1>1 DEF Stages
<1>3. /\ Clients' = Clients /\ Steps' = Steps /\ Planned' = Planned
      /\ \A d, s : Slot(d, s)' = Slot(d, s)
  BY SamePlan
<1>4. \A d \in 1..Clients : GivenUp(d)' <=> GivenUp(d)
  BY <1>2 DEF GivenUp
<1>5. failed # {}
  BY <1>1 DEF ClientsOK, GivenUp
<1>6. \A d \in 1..Clients : Slot(d, step[d])' = Slot(d, step[d])
  BY <1>3 DEF Slot
<1>7. ClientsOK'
  <2>1. \A d \in 1..Clients : stage'[d] # "ready" => step[d] < Steps
    BY <1>1, <1>2 DEF ClientsOK
  <2> QED BY <1>1, <1>2, <1>3, <1>4, <1>6, <2>1 DEF ClientsOK, search
<1>8. CallingOK'
  <2> SUFFICES ASSUME outcome = "calling" PROVE CallingOK'
    BY DEF CallingOK
  <2>1. ASSUME NEW d \in 1..Clients, NEW s \in 0..(Steps - 1) PROVE Entered(d, s)'
    <3>1. Entered(d, s)
      BY <2>1 DEF IInv, CallingOK
    <3>2. /\ stage'[d] = "ready" <=> stage[d] = "ready"
          /\ stage'[d] \in {"invoked", "served"} <=> stage[d] \in {"invoked", "served"}
      BY <1>2
    <3>3. Slot(d, s)' = Slot(d, s) /\ UNCHANGED <<history, plan, clock, step>>
      BY <1>3
    <3> QED BY ONLY <3>1, <3>2, <3>3 DEF Entered, Applied
  <2> QED BY <1>3, <2>1 DEF IInv, CallingOK, search
<1>9. FailedOK'
  BY <1>1, <1>3 DEF FailedOK, Applied
<1>10. HonestOK' /\ (failed' # {} /\ ~Blameless')
  BY <1>5 DEF HonestOK, Blameless
<1>11. CheckingOK'
  <2> SUFFICES ASSUME outcome # "calling" PROVE CheckingOK'
    BY DEF CheckingOK
  <2>1. HC!IInv'
    <3>1. HC!IInv
      BY DEF IInv, CheckingOK
    <3> QED BY <3>1, SearchRests DEF search
  <2>2. \A d \in 1..Clients : Finished(d)'
    BY <1>2, <1>3 DEF IInv, CheckingOK, Finished
  <2>3. Len(history) = Planned + 1
    BY DEF IInv, CheckingOK
  <2> QED BY <1>3, <1>10, <2>1, <2>2, <2>3 DEF CheckingOK
<1> QED BY <1>7, <1>8, <1>9, <1>10, <1>11 DEF IInv

\* A call that has not returned stands in the history as it was planned.
LEMMA Unanswered ==
    ASSUME NEW c \in 1..Clients, NEW s \in Int, s = step[c], Entered(c, s)
    PROVE  /\ history[Slot(c, s)].kind = plan.script[Slot(c, s)].kind
           /\ history[Slot(c, s)].input = plan.script[Slot(c, s)].input
           /\ history[Slot(c, s)].result = Applied(FALSE)
BY DEF Entered, Applied

\* The store executes a call.
LEMMA ServeIInv == ASSUME IInv, NEW c \in 1..Clients, Serve(c) PROVE IInv'
<1> DEFINE e == history[Index(c)]
           r == Answer(doc, e)
<1>1. /\ answer' = [answer EXCEPT ![c] = r]
      /\ \/ doc' = After(doc, e)
         \/ "lost" \in plan.faults /\ doc' = doc
         \/ "repeated" \in plan.faults /\ doc' = After(After(doc, e), e)
      /\ UNCHANGED <<clock, step, failed, outcome, history, search, plan>>
  BY DEF Serve
<1>2. ClientsOK /\ CallingOK /\ doc \in Document
  BY DEF IInv, ClientsOK
<1>3. Index(c) = Slot(c, step[c])
  BY DEF Index, Slot
<1>4. ASSUME e.input \in Int PROVE r \in Result /\ doc' \in Document
  <2>1. After(doc, e) \in Document /\ r \in Result
    BY <1>2, <1>4, CallTypes
  <2>2. After(After(doc, e), e) \in Document
    BY <1>4, <2>1, CallTypes
  <2> QED BY <1>1, <1>2, <2>1, <2>2
<1>5. CASE stage[c] = "invoked"
  <2>1. outcome = "calling" /\ step[c] < Steps /\ stage' = [stage EXCEPT ![c] = "served"]
    BY <1>5, StillCalling DEF Serve
  <2>2. e \in Entry /\ Entered(c, step[c]) /\ plan.script[Index(c)].kind \in Kinds
        /\ step[c] \in 0..(Steps - 1)
    BY <1>2, <2>1, Current
  <2>3. e.kind = plan.script[Index(c)].kind /\ e.input = plan.script[Index(c)].input
        /\ e.result = Applied(FALSE)
    <3>1. PICK s \in Int : s = step[c]
      BY <2>2
    <3>2. Entered(c, s) /\ Index(c) = Slot(c, s)
      BY <1>3, <2>2, <3>1
    <3>3. /\ history[Slot(c, s)].kind = plan.script[Slot(c, s)].kind
          /\ history[Slot(c, s)].input = plan.script[Slot(c, s)].input
          /\ history[Slot(c, s)].result = Applied(FALSE)
      BY ONLY <3>1, <3>2, Unanswered
    <3> QED BY <3>2, <3>3
  <2>4. r \in Result /\ doc' \in Document
    <3>1. e.input \in Int
      BY <2>2 DEF Entry
    <3> QED BY <1>4, <3>1
  <2>5. ASSUME Blameless
        PROVE  Answer(doc, Event(Index(c), r)) = r /\ doc' = After(doc, Event(Index(c), r))
    <3>1. doc' = After(doc, e)
      BY <1>1, <2>5 DEF Blameless
    <3>2. Event(Index(c), r) = [kind |-> e.kind, input |-> e.input, result |-> r]
      BY <2>3 DEF Event
    <3>a. ~Refused(e)
      BY <2>3 DEF Refused, Applied
    <3>3. /\ Answer(doc, [kind |-> e.kind, input |-> e.input, result |-> r]) = r
          /\ After(doc, [kind |-> e.kind, input |-> e.input, result |-> r]) = After(doc, e)
      BY ONLY <1>2, <3>a, Recordable
    <3> QED BY <3>1, <3>2, <3>3
  <2> HIDE DEF r
  <2> QED BY <1>1, <1>5, <2>1, <2>4, <2>5, EffectIInv
<1>6. CASE stage[c] = "abandoned"
  <2>1. e \in Entry
    BY <1>2, <1>3, <1>6 DEF IInv, ClientsOK, FailedOK, GivenUp
  <2>2. r \in Result /\ doc' \in Document
    <3>1. e.input \in Int
      BY <2>1 DEF Entry
    <3> QED BY <1>4, <3>1
  <2>3. stage' = [stage EXCEPT ![c] = "stopped"]
    BY <1>6 DEF Serve
  <2> HIDE DEF r
  <2> QED BY <1>1, <1>6, <2>2, <2>3, LateIInv
<1> QED BY <1>5, <1>6 DEF Serve

\* A call gives up on conflicts.
LEMMA ConflictIInv == ASSUME IInv, NEW c \in 1..Clients, Conflict(c) PROVE IInv'
<1> DEFINE e == history[Index(c)]
<1>1. /\ stage[c] = "invoked" /\ e.kind \in {"add", "replace"}
      /\ answer' = [answer EXCEPT ![c] = Conflicted] /\ stage' = [stage EXCEPT ![c] = "served"]
      /\ UNCHANGED <<clock, step, doc, failed, outcome, history, search, plan>>
  BY DEF Conflict
<1>2. ClientsOK /\ CallingOK /\ doc \in Document
  BY DEF IInv, ClientsOK
<1>3. outcome = "calling" /\ step[c] < Steps
  BY <1>1, StillCalling
<1>4. Entered(c, step[c]) /\ Index(c) = Slot(c, step[c]) /\ e \in Entry
      /\ step[c] \in 0..(Steps - 1)
  BY <1>2, <1>3, Current
<1>5. e.kind = plan.script[Index(c)].kind /\ e.input = plan.script[Index(c)].input
      /\ e.result = Applied(FALSE)
  <2>1. PICK s \in Int : s = step[c]
    BY <1>4
  <2>2. Entered(c, s) /\ Index(c) = Slot(c, s)
    BY <1>4, <2>1
  <2>3. /\ history[Slot(c, s)].kind = plan.script[Slot(c, s)].kind
        /\ history[Slot(c, s)].input = plan.script[Slot(c, s)].input
        /\ history[Slot(c, s)].result = Applied(FALSE)
    BY ONLY <2>1, <2>2, Unanswered
  <2> QED BY <2>2, <2>3
<1>6. Conflicted \in Result
  BY DEF Conflicted, Result, Absent, Document
<1>7. Answer(doc, Event(Index(c), Conflicted)) = Conflicted
      /\ After(doc, Event(Index(c), Conflicted)) = doc
  <2>1. ~Refused(e)
    BY <1>5 DEF Refused, Applied
  <2>2. Event(Index(c), Conflicted) = [kind |-> e.kind, input |-> e.input, result |-> Conflicted]
    BY <1>5 DEF Event
  <2>3. e.kind \in {"add", "replace"} /\ doc \in Document
    BY <1>1, <1>2
  <2>4. /\ Answer(doc, [kind |-> e.kind, input |-> e.input, result |-> Conflicted]) = Conflicted
        /\ After(doc, [kind |-> e.kind, input |-> e.input, result |-> Conflicted]) = doc
    BY ONLY <2>1, <2>3, Recordable
  <2> QED BY <2>2, <2>4
<1>8. doc' \in Document /\ doc' = doc
  BY <1>1, <1>2
<1> QED BY <1>1, <1>6, <1>7, <1>8, EffectIInv

\* A call returns an error: its entry keeps no result, and nobody can be
\* blamed for a history that holds it.
LEMMA FailIInv == ASSUME IInv, NEW c \in 1..Clients, Fail(c) PROVE IInv'
<1> DEFINE i == Index(c)
           e == [history[i] EXCEPT !.end = clock + 1]
<1>1. /\ stage[c] \in {"invoked", "served"} /\ clock' = clock + 1
      /\ history' = [history EXCEPT ![i] = e] /\ failed' = failed \cup {i}
      /\ UNCHANGED <<step, answer, doc, outcome, search, plan>>
  BY DEF Fail
<1>2. outcome = "calling" /\ step[c] < Steps
  BY <1>1, StillCalling
<1>3. ClientsOK /\ CallingOK /\ FailedOK /\ clock \in Nat
  BY DEF IInv, ClientsOK
<1>4. /\ step[c] \in 0..(Steps - 1) /\ i = Slot(c, step[c]) /\ i \in 1..Planned
      /\ history[i] \in Entry /\ Entered(c, step[c])
  BY <1>2, <1>3, Current
<1>5. PICK st \in {"stopped", "abandoned"} : stage' = [stage EXCEPT ![c] = st]
  <2>1. stage' = [stage EXCEPT ![c] = IF stage[c] = "served" THEN "stopped" ELSE "abandoned"]
    BY DEF Fail
  <2>2. CASE stage[c] = "served"
    BY <2>1, <2>2
  <2>3. CASE stage[c] # "served"
    BY <2>1, <2>3
  <2> QED BY <2>2, <2>3
<1>6. step \in [1..Clients -> 0..Steps] /\ stage \in [1..Clients -> Stages] /\ Clients \in Nat
      /\ Steps \in Nat /\ st \in Stages /\ step = [step EXCEPT ![c] = step[c]]
  BY <1>3, PlanFacts DEF ClientsOK, Stages
<1>7. /\ \A d \in 1..Clients : d # c => stage'[d] = stage[d]
      /\ stage'[c] = st /\ stage' \in [1..Clients -> Stages]
  BY <1>5, <1>6
<1>8. PICK s0 \in 0..(Steps - 1) : s0 = step[c]
  BY <1>4
<1>9. /\ e \in Entry /\ e.id = history[i].id /\ e.kind = history[i].kind
      /\ e.input = history[i].input /\ e.result = history[i].result
  <2>1. clock + 1 \in Int
    BY <1>3
  <2> QED BY <1>4, <2>1 DEF Entry
<1> HIDE DEF e
<1>10. /\ Clients' = Clients /\ Steps' = Steps /\ Planned' = Planned
       /\ \A d, s : Slot(d, s)' = Slot(d, s)
  BY <1>1, SamePlan
<1>11. e.result = Applied(FALSE) /\ history[i].kind = plan.script[i].kind
       /\ history[i].input = plan.script[i].input /\ history[i].id = i
  <2>1. s0 \in Int
    OBVIOUS
  <2>2. history[Slot(c, s0)].id = Slot(c, s0)
    BY <1>4, <1>8 DEF Entered
  <2> QED BY <1>4, <1>8, <1>9, <2>1, <2>2, Unanswered
<1>12. Entered(c, s0)'
  <2>1. history'[i] = e
    BY <1>1, <1>2, <1>3, <1>4 DEF CallingOK
  <2>2. /\ Slot(c, s0)' = i /\ step'[c] = s0 /\ s0 \in Int /\ stage'[c] \notin {"ready", "invoked", "served"}
        /\ plan' = plan
    BY <1>1, <1>4, <1>7, <1>8, <1>10
  <2> QED BY ONLY <1>9, <1>11, <2>1, <2>2 DEF Entered, Applied
<1>13. /\ history' \in [1..Planned -> Entry] /\ history'[i] = e
       /\ \A d \in 1..Clients, s \in 0..(Steps - 1) : Entered(d, s)'
       /\ \A d \in 1..Clients, s \in 0..(Steps - 1) :
             d # c \/ s # step[c] => history'[Slot(d, s)] = history[Slot(d, s)]
  <2>1. /\ plan' = plan /\ clock' \in {clock, clock + 1} /\ step[c] \in {step[c], step[c] + 1}
        /\ step' = [step EXCEPT ![c] = step[c]] /\ history' = [history EXCEPT ![Index(c)] = e]
        /\ e \in Entry /\ st \in Stages
    BY <1>1, <1>6, <1>9
  <2>2. ClientsOK /\ CallingOK
    BY <1>3
  <2> QED BY ONLY <1>2, <1>5, <1>8, <1>12, <2>1, <2>2, OneEntry, Zenon
<1>14. GivenUp(c)' /\ ~GivenUp(c) /\ \A d \in 1..Clients : d # c => (GivenUp(d)' <=> GivenUp(d))
  BY <1>1, <1>7 DEF GivenUp
<1>15. \A d \in 1..Clients : Slot(d, step[d])' = Slot(d, step[d])
  BY <1>1, <1>10 DEF Slot
<1>16. ClientsOK'
  <2>1. ASSUME NEW d \in 1..Clients PROVE stage'[d] # "ready" => step[d] < Steps
    BY <1>2, <1>3, <1>7 DEF ClientsOK
  <2>2. ASSUME NEW d \in 1..Clients PROVE GivenUp(d)' => Slot(d, step[d])' \in failed'
    BY <1>1, <1>3, <1>4, <1>14, <1>15 DEF ClientsOK
  <2>3. ASSUME NEW j \in failed' PROVE \E d \in 1..Clients : j = Slot(d, step[d])' /\ GivenUp(d)'
    <3>1. CASE j = i
      BY <1>4, <1>14, <1>15, <3>1
    <3>2. CASE j \in failed
      <4>1. PICK d \in 1..Clients : j = Slot(d, step[d]) /\ GivenUp(d)
        BY <1>2, <1>3, <3>2 DEF ClientsOK
      <4> QED BY <1>14, <1>15, <4>1
    <3> QED BY <1>1, <3>1, <3>2
  <2>4. clock' \in Nat /\ initial' = Absent /\ outcome' = "calling"
    BY <1>1, <1>2, <1>3 DEF ClientsOK, search
  <2> QED BY <1>1, <1>3, <1>7, <1>10, <2>1, <2>2, <2>3, <2>4 DEF ClientsOK
<1>17. CallingOK'
  BY <1>1, <1>2, <1>3, <1>10, <1>13 DEF CallingOK, search
<1>18. FailedOK'
  <2> SUFFICES ASSUME NEW j \in failed'
               PROVE  j \in 1..Planned /\ history'[j] \in Entry /\ history'[j].result = Applied(FALSE)
    BY <1>10 DEF FailedOK
  <2>1. CASE j = i
    BY <1>4, <1>9, <1>11, <1>13, <2>1
  <2>2. CASE j \in failed
    <3>1. PICK d \in 1..Clients : j = Slot(d, step[d]) /\ GivenUp(d)
      BY <1>2, <1>3, <2>2 DEF ClientsOK
    <3>2. d # c /\ step[d] \in 0..(Steps - 1)
      <4>1. stage[d] # "ready"
        BY <3>1 DEF GivenUp
      <4>2. step[d] < Steps /\ step[d] \in 0..Steps
        BY <1>3, <1>6, <4>1 DEF ClientsOK
      <4> QED BY <1>6, <1>14, <3>1, <4>2
    <3>3. history'[j] = history[j]
      BY <1>13, <3>1, <3>2
    <3> QED BY <1>2, <1>3, <2>2, <3>3 DEF FailedOK
  <2> QED BY <1>1, <2>1, <2>2
<1>19. HonestOK' /\ CheckingOK'
  BY <1>1, <1>2 DEF HonestOK, Blameless, CheckingOK
<1> QED BY <1>16, <1>17, <1>18, <1>19 DEF IInv
-----------------------------------------------------------------------------
(* The history goes to the checker.                                        *)

\* Two entries of the same call and result have the same effect.
LEMMA SameCall ==
    ASSUME NEW e, NEW f, e.kind = f.kind, e.input = f.input, e.result = f.result, NEW d
    PROVE  Answer(d, e) = Answer(d, f) /\ After(d, e) = After(d, f)
<1>1. Refused(e) <=> Refused(f)
  BY DEF Refused
<1> QED BY <1>1 DEF Answer, After

\* There are no more effects than calls.
LEMMA FewEffects ==
    ASSUME NEW N \in Nat, NEW n \in Nat, NEW order \in [1..n -> 1..N],
           \A j, k \in 1..n : j < k => order[j] # order[k]
    PROVE  n <= N
<1>1. /\ IsFiniteSet(1..n) /\ Cardinality(1..n) = n
      /\ IsFiniteSet(1..N) /\ Cardinality(1..N) = N
  BY FS_Interval
<1> SUFFICES ASSUME N < n PROVE FALSE
  OBVIOUS
<1>2. PICK j, k \in 1..n : j # k /\ order[j] = order[k]
  BY ONLY <1>1, N < n, FS_PigeonHole
<1> QED BY <1>2

\* Effects of all calls, in an order that respects real time and with the
\* results that a history of N calls records before a read of what they left.
Explains(N, h, d, n, order, values) ==
    /\ N \in Nat /\ n \in Nat /\ h \in Seq(Entry) /\ Len(h) = N + 1 /\ d \in Document
    /\ h[N + 1].kind = "read" /\ h[N + 1].result = Observed(d)
    /\ order \in [1..n -> 1..N] /\ values \in [1..n -> Document]
    /\ d = IF n = 0 THEN Absent ELSE values[n]
    /\ \A j, k \in 1..n :
          j < k => order[j] # order[k] /\ ~(h[order[k]].end < h[order[j]].start)
    /\ \A i \in 1..N : \E k \in 1..n : order[k] = i
    /\ \A j \in 1..n : ~(h[N + 1].end < h[order[j]].start)
    /\ \A k \in 1..n : /\ Answer(Before(values, k), h[order[k]]) = h[order[k]].result
                       /\ values[k] = After(Before(values, k), h[order[k]])

\* They explain the history.
LEMMA Explained ==
    ASSUME NEW N, NEW h, NEW d, NEW n, NEW order, NEW values, Explains(N, h, d, n, order, values)
    PROVE  HC!Explainable(h, [visited |-> {}, value |-> Absent])
<1> USE DEF Explains
<1>1. n + 1 \in 0..Len(h)
  <2>1. /\ \A j, k \in 1..n : j < k => order[j] # order[k]
        /\ N \in Nat /\ n \in Nat /\ order \in [1..n -> 1..N]
    OBVIOUS
  <2>2. n <= N
    BY ONLY <2>1, FewEffects
  <2> QED BY <2>2
<1>2. PICK order1, values1 : order1 = OneMore(n, order, N + 1) /\ values1 = OneMore(n, values, d)
  OBVIOUS
<1>3. order1 \in [1..(n + 1) -> 1..(N + 1)] /\ order1[n + 1] = N + 1
      /\ \A k \in 1..n : order1[k] = order[k]
  <2>1. PICK S : S = 1..(N + 1)
    OBVIOUS
  <2>2. order \in [1..n -> S] /\ N + 1 \in S /\ n \in Nat
    BY <2>1
  <2>3. OneMore(n, order, N + 1) \in [1..(n + 1) -> S] /\ OneMore(n, order, N + 1)[n + 1] = N + 1
        /\ \A k \in 1..n : OneMore(n, order, N + 1)[k] = order[k]
    BY ONLY <2>2, OneMoreType
  <2> QED BY <1>2, <2>1, <2>3
<1>4. values1 \in [1..(n + 1) -> Document] /\ values1[n + 1] = d
      /\ \A k \in 1..n : values1[k] = values[k]
  BY <1>2, OneMoreType
<1>5. \A k \in 1..(n + 1) : k \in 1..n \/ k = n + 1
  OBVIOUS
<1>6. \A j, k \in 1..(n + 1) : j < k => j \in 1..n
  OBVIOUS
<1>7. \A j, k \in 1..(n + 1) :
         j < k => /\ order1[j] # order1[k]
                  /\ ~(h[order1[k]].end < h[order1[j]].start)
  <2> SUFFICES ASSUME NEW j \in 1..(n + 1), NEW k \in 1..(n + 1), j < k
               PROVE  order1[j] # order1[k] /\ ~(h[order1[k]].end < h[order1[j]].start)
    OBVIOUS
  <2>1. j \in 1..n /\ order1[j] = order[j] /\ order[j] \in 1..N
    BY <1>3, <1>6
  <2>2. CASE k \in 1..n
    BY <1>3, <2>1, <2>2
  <2>3. CASE k = n + 1
    BY <1>3, <2>1, <2>3
  <2> QED BY <1>5, <2>2, <2>3
<1>8. {order1[k] : k \in 1..(n + 1)} = 1..(N + 1)
  <2>1. ASSUME NEW i \in 1..(N + 1) PROVE \E k \in 1..(n + 1) : order1[k] = i
    <3>1. CASE i = N + 1
      BY <1>3, <3>1
    <3>2. CASE i \in 1..N
      <4>1. PICK k \in 1..n : order[k] = i
        BY <3>2
      <4> QED BY <1>3, <4>1
    <3> QED BY <3>1, <3>2
  <2> QED BY <1>3, <2>1
<1>9. \A k \in 1..n : Before(values1, k) = Before(values, k)
  BY <1>4 DEF Before
<1>10. Before(values1, n + 1) = d
  BY <1>4 DEF Before
<1>11. Answer(d, h[N + 1]) = h[N + 1].result /\ d = After(d, h[N + 1])
  <2>1. ~Refused(h[N + 1])
    BY DEF Refused
  <2> QED BY <2>1 DEF Answer, After
<1>12. \A k \in 1..(n + 1) :
          /\ Answer(Before(values1, k), h[order1[k]]) = h[order1[k]].result
          /\ values1[k] = After(Before(values1, k), h[order1[k]])
  <2> SUFFICES ASSUME NEW k \in 1..(n + 1)
               PROVE  /\ Answer(Before(values1, k), h[order1[k]]) = h[order1[k]].result
                      /\ values1[k] = After(Before(values1, k), h[order1[k]])
    OBVIOUS
  <2>1. CASE k \in 1..n
    BY <1>3, <1>4, <1>9, <2>1
  <2>2. CASE k = n + 1
    BY <1>3, <1>4, <1>10, <1>11, <2>2
  <2> QED BY <1>5, <2>1, <2>2
<1>13. HC!Entries(h) = 1..(N + 1)
  BY DEF HC!Entries
<1>14. HC!Completes(h, [visited |-> {}, value |-> Absent], n + 1, order1)
  BY <1>7, <1>8, <1>13 DEF HC!Completes
<1>15. HC!Justifies(h, Absent, n + 1, order1, values1)
  BY <1>12, SameDocuments DEF HC!Justifies, Before
<1> QED BY <1>1, <1>3, <1>4, <1>13, <1>14, <1>15 DEF HC!Explainable

\* The round has read the record and hands its history over.
LEMMA FinalReadIInv == ASSUME IInv, FinalRead PROVE IInv'
<1>0. PICK result \in {Observed(doc), Applied(FALSE)} :
         /\ history' = Append(history,
               [id |-> Planned + 1, start |-> clock + 1, end |-> clock + 2,
                kind |-> "read", input |-> 0, result |-> result])
         /\ \/ result = Observed(doc) /\ failed' = failed
            \/ result = Applied(FALSE) /\ failed' = failed \cup {Planned + 1}
  BY DEF FinalRead
<1> DEFINE read == [id |-> Planned + 1, start |-> clock + 1, end |-> clock + 2,
                    kind |-> "read", input |-> 0, result |-> result]
           h == Append(history, read)
<1>1. /\ outcome = "calling" /\ \A c \in 1..Clients : Finished(c)
      /\ clock' = clock + 2 /\ history' = h /\ outcome' = "checking"
      /\ UNCHANGED <<step, stage, answer, doc, search, plan>>
  BY <1>0 DEF FinalRead
<1>f. /\ failed \subseteq failed' /\ failed' \subseteq failed \cup {Planned + 1}
      /\ Planned + 1 \in failed' => result = Applied(FALSE) \/ Planned + 1 \in failed
      /\ failed' = {} => result = Observed(doc) /\ failed = {}
  BY <1>0
<1>2. ClientsOK /\ CallingOK /\ FailedOK /\ HonestOK /\ clock \in Nat /\ doc \in Document
  BY DEF IInv, ClientsOK
<1>3. /\ Clients \in Nat \ {0} /\ Steps \in Nat \ {0} /\ Planned \in Nat \ {0}
      /\ Planned < MaxEntries /\ MaxEntries \in Nat
      /\ plan.script \in [1..Planned -> [kind : Kinds, input : Int]]
  BY <1>2, PlanFacts DEF ClientsOK
<1>4. read \in Entry /\ read.id = Planned + 1 /\ read.start = clock + 1 /\ read.end = clock + 2
      /\ read.kind = "read" /\ read.result = result
  <2>1. result \in Result
    <3>1. \A d \in Document : Observed(d) \in Result
      BY DEF Observed, Result
    <3>2. Applied(FALSE) \in Result
      BY DEF Applied, Absent, Document, Result
    <3> QED BY <1>2, <3>1, <3>2
  <2> QED BY <1>2, <1>3, <2>1 DEF Entry, Kinds
<1> HIDE DEF read
<1>5. /\ history \in Seq(Entry) /\ Len(history) = Planned /\ history \in [1..Planned -> Entry]
      /\ stack = <<>> /\ rejected = {} /\ exhausted = FALSE /\ verdict = "unchecked"
  <2>1. history \in [1..Planned -> Entry]
    BY <1>1, <1>2 DEF CallingOK
  <2> QED BY <1>1, <1>2, <1>3, <2>1 DEF CallingOK
<1>6. /\ h \in Seq(Entry) /\ Len(h) = Planned + 1 /\ h[Planned + 1] = read
      /\ \A i \in 1..Planned : h[i] = history[i]
  BY <1>4, <1>5, AppendProperties
<1> HIDE DEF h
<1>7. /\ Clients' = Clients /\ Steps' = Steps /\ Planned' = Planned
      /\ \A d, s : Slot(d, s)' = Slot(d, s)
  BY <1>1, SamePlan
<1>8. ClientsOK'
  <2>1. clock' \in Nat /\ initial' = Absent /\ outcome' \in {"calling", "checking", "passed", "failed"}
    BY <1>1, <1>2 DEF ClientsOK, search
  <2>2. \A c \in 1..Clients : (GivenUp(c)' <=> GivenUp(c)) /\ Slot(c, step[c])' = Slot(c, step[c])
    BY <1>1, <1>7 DEF GivenUp, Slot
  <2>3. \A c \in 1..Clients : GivenUp(c)' => Slot(c, step[c])' \in failed'
    BY <1>2, <1>f, <2>2 DEF ClientsOK
  <2>4. \A i \in failed' : \/ outcome' # "calling" /\ i = Planned + 1
                          \/ \E c \in 1..Clients : i = Slot(c, step[c])' /\ GivenUp(c)'
    BY <1>1, <1>2, <1>f, <2>2 DEF ClientsOK
  <2> QED BY <1>1, <1>2, <1>7, <2>1, <2>3, <2>4 DEF ClientsOK
<1>9. CallingOK' /\ HonestOK'
  BY <1>1 DEF CallingOK, HonestOK
<1>10. FailedOK'
  <2> SUFFICES ASSUME NEW i \in failed'
               PROVE  /\ i \in 1..Planned \/ i = Planned + 1
                      /\ h[i] \in Entry /\ h[i].result = Applied(FALSE)
    BY <1>1, <1>7 DEF FailedOK, Applied
  <2>1. CASE i \in failed
    <3>1. i \in 1..Planned /\ history[i] \in Entry /\ history[i].result = Applied(FALSE)
      BY <1>1, <1>2, <2>1 DEF FailedOK
    <3> QED BY <1>6, <3>1
  <2>2. CASE i \notin failed
    <3>1. i = Planned + 1 /\ result = Applied(FALSE)
      BY <1>f, <2>2
    <3> QED BY <1>4, <1>6, <3>1
  <2> QED BY <2>1, <2>2
<1>11. ASSUME failed = {}
       PROVE  /\ \A c \in 1..Clients : stage[c] = "ready" /\ step[c] = Steps
              /\ \A i \in 1..Planned :
                    /\ h[i].id = i /\ h[i].kind \in Kinds
                    /\ h[i].kind = plan.script[i].kind /\ h[i].input = plan.script[i].input
                    /\ 0 < h[i].start /\ h[i].start < h[i].end /\ h[i].end <= clock
  <2>1. \A c \in 1..Clients : stage[c] = "ready" /\ step[c] = Steps
    BY <1>1, <1>2, <1>11 DEF ClientsOK, GivenUp, Finished
  <2>2. ASSUME NEW i \in 1..Planned
        PROVE  /\ h[i].id = i /\ h[i].kind \in Kinds
               /\ h[i].kind = plan.script[i].kind /\ h[i].input = plan.script[i].input
               /\ 0 < h[i].start /\ h[i].start < h[i].end /\ h[i].end <= clock
    <3>1. PICK c \in 1..Clients, s \in 0..(Steps - 1) : i = Slot(c, s)
      <4>1. Clients \in Nat \ {0} /\ Steps \in Nat \ {0}
        BY <1>3
      <4> QED BY <4>1, Places
    <3>2. Entered(c, s) /\ s < step[c]
      <4>1. Entered(c, s)
        BY <1>1, <1>2 DEF CallingOK
      <4>2. step[c] = Steps /\ Steps \in Nat
        BY <1>3, <2>1
      <4> QED BY <4>1, <4>2
    <3>3. plan.script[i].kind \in Kinds
      BY <1>3
    <3> QED BY <1>6, <3>1, <3>2, <3>3 DEF Entered
  <2> QED BY <2>1, <2>2
<1>12. ASSUME failed = {} PROVE HC!WellFormed(h, Absent)
  <2>1. HC!Entries(h) = 1..(Planned + 1) /\ Len(h) \in 1..MaxEntries
    BY <1>3, <1>6 DEF HC!Entries
  <2>2. Absent.counter = 0
    BY DEF Absent
  <2>3. \A i \in 1..(Planned + 1) : i \in 1..Planned \/ i = Planned + 1
    BY <1>3
  <2>4. \A i \in 1..(Planned + 1) : /\ h[i].start > 0 /\ h[i].end > h[i].start /\ h[i].kind \in Kinds
                                    /\ h[i].id = i
    <3> SUFFICES ASSUME NEW i \in 1..(Planned + 1)
                 PROVE  /\ h[i].start > 0 /\ h[i].end > h[i].start /\ h[i].kind \in Kinds
                        /\ h[i].id = i
      OBVIOUS
    <3>1. CASE i \in 1..Planned
      <4>1. h[i] \in Entry
        BY <1>5, <1>6, <3>1
      <4>2. h[i].start \in Int /\ h[i].end \in Int
        BY <4>1 DEF Entry
      <4> QED BY <1>11, <1>12, <3>1, <4>2
    <3>2. CASE i = Planned + 1
      BY <1>2, <1>4, <1>6, <3>2 DEF Kinds
    <3> QED BY <2>3, <3>1, <3>2
  <2> QED BY <2>1, <2>2, <2>4, SameDocuments DEF HC!WellFormed
<1>13. ASSUME Blameless, result = Observed(doc) PROVE HC!Explainable(h, [visited |-> {}, value |-> Absent])
  <2>1. PICK n, order, values, results : Effects(n, order, values, results) /\ Witnessed(n, order, results)
    BY <1>1, <1>2, <1>13 DEF HonestOK
  <2>2. failed = {}
    BY <1>13 DEF Blameless
  <2>3. /\ n \in Nat /\ order \in [1..n -> 1..Planned] /\ values \in [1..n -> Document]
        /\ doc = IF n = 0 THEN Absent ELSE values[n]
        /\ \A j, k \in 1..n : j < k => order[j] # order[k]
    BY <2>1 DEF Effects
  <2>4. ASSUME NEW i \in 1..Planned
        PROVE  /\ \E k \in 1..n : order[k] = i
               /\ \A k \in 1..n : order[k] = i => results[k] = h[i].result
    <3>1. PICK c \in 1..Clients, s \in 0..(Steps - 1) : i = Slot(c, s)
      <4>1. Clients \in Nat \ {0} /\ Steps \in Nat \ {0}
        BY <1>3
      <4> QED BY <4>1, Places
    <3>2. s < step[c]
      BY <1>3, <1>11, <2>2
    <3>3. Effective(c, s)
      BY <3>2 DEF Effective
    <3>4. \E k \in 1..n : order[k] = i
      BY <2>1, <3>1, <3>3 DEF Witnessed
    <3>5. \A k \in 1..n : order[k] = i => results[k] = history[i].result
      BY <2>1, <3>1, <3>2 DEF Witnessed
    <3> QED BY <1>6, <3>4, <3>5
  <2>5. \A k \in 1..n : order[k] \in 1..Planned /\ h[order[k]] = history[order[k]]
    BY <1>6, <2>3
  <2>6. ASSUME NEW j \in 1..n, NEW k \in 1..n, j < k
        PROVE  ~(h[order[k]].end < h[order[j]].start)
    <3>1. /\ h[order[k]].end \in Int /\ h[order[j]].start \in Int /\ h[order[k]].start \in Int
      BY <1>5, <2>5 DEF Entry
    <3>2. h[order[k]].end # 0
      BY <1>11, <2>2, <2>5, <3>1
    <3>3. h[order[j]].start < h[order[k]].end
      BY <2>1, <2>5, <2>6, <3>2 DEF Witnessed
    <3> QED BY <3>1, <3>3
  <2>7. ASSUME NEW j \in 1..n PROVE ~(h[Planned + 1].end < h[order[j]].start)
    <3>1. /\ h[order[j]].start \in Int /\ h[order[j]].start <= clock
      BY <1>1, <1>2, <2>1, <2>5, EffectPlaces DEF Entry
    <3>2. h[Planned + 1].end = clock + 2
      BY <1>4, <1>6
    <3> QED BY <1>2, <3>1, <3>2
  <2>8. ASSUME NEW k \in 1..n
        PROVE  /\ Answer(Before(values, k), h[order[k]]) = h[order[k]].result
               /\ values[k] = After(Before(values, k), h[order[k]])
    <3> DEFINE e == Event(order[k], results[k])
               f == h[order[k]]
    <3>1. e.kind = f.kind /\ e.input = f.input /\ e.result = f.result
      BY <1>11, <2>2, <2>4, <2>5 DEF Event
    <3>2. Answer(Before(values, k), e) = results[k] /\ values[k] = After(Before(values, k), e)
      BY <2>1 DEF Effects
    <3>3. results[k] = f.result
      BY <2>4, <2>5
    <3> HIDE DEF e, f
    <3>4. Answer(Before(values, k), e) = Answer(Before(values, k), f)
          /\ After(Before(values, k), e) = After(Before(values, k), f)
      BY <3>1, SameCall
    <3>5. Answer(Before(values, k), f) = f.result /\ values[k] = After(Before(values, k), f)
      BY <3>2, <3>3, <3>4
    <3> QED BY <3>5 DEF f
  <2>9. \A i \in 1..Planned : \E k \in 1..n : order[k] = i
    BY <2>4
  <2>10. /\ \A j, k \in 1..n : j < k => ~(h[order[k]].end < h[order[j]].start)
         /\ \A j \in 1..n : ~(h[Planned + 1].end < h[order[j]].start)
         /\ \A k \in 1..n : /\ Answer(Before(values, k), h[order[k]]) = h[order[k]].result
                            /\ values[k] = After(Before(values, k), h[order[k]])
    BY <2>6, <2>7, <2>8
  <2>11. Explains(Planned, h, doc, n, order, values)
    BY <1>2, <1>3, <1>4, <1>6, <1>13, <2>3, <2>9, <2>10 DEF Explains
  <2> QED BY <2>11, Explained
<1>14. CheckingOK'
  <2>1. HC!TypeOK'
    <3>1. history' \in Seq(Entry) /\ initial' \in Document /\ stack' = <<>> /\ rejected' = {}
          /\ exhausted' = FALSE /\ verdict' = "unchecked"
      BY <1>1, <1>2, <1>5, <1>6 DEF search, ClientsOK, Absent, Document
    <3>2. \A S : <<>> \in Seq(S)
      OBVIOUS
    <3>3. history' \in Seq(HC!Entry) /\ initial' \in HC!Document /\ stack' \in Seq(HC!Frames')
      BY <3>1, <3>2, SameDocuments
    <3>4. rejected' \subseteq HC!Positions'
      BY <3>1
    <3> QED BY <3>1, <3>3, <3>4 DEF HC!TypeOK
  <2>2. HC!PathOK' /\ HC!RefutedOK'
    BY <1>1, <1>5 DEF HC!PathOK, HC!RefutedOK, search
  <2>3. \A c \in 1..Clients : Finished(c)'
    BY <1>1, <1>7 DEF Finished
  <2>4. HC!Start' = [visited |-> {}, value |-> Absent]
    BY <1>1, <1>2 DEF HC!Start, search, ClientsOK
  <2>5. /\ failed' = {} => failed = {}
        /\ Blameless' => Blameless /\ result = Observed(doc)
        /\ verdict' = "unchecked"
    BY <1>1, <1>5, <1>f DEF Blameless, search
  <2> QED BY <1>1, <1>6, <1>7, <1>12, <1>13, <2>1, <2>2, <2>3, <2>4, <2>5 DEF CheckingOK, HC!IInv
<1> QED BY <1>8, <1>9, <1>10, <1>14 DEF IInv

\* What holds of the finished calls keeps holding while the history is with
\* the checker.
LEMMA CheckingIInv ==
    ASSUME IInv, outcome # "calling", outcome' \in {"checking", "passed", "failed"},
           UNCHANGED <<round, history, initial, plan>>,
           HC!IInv', verdict' = "malformed" => failed # {}
    PROVE  IInv'
<1>1. UNCHANGED <<clock, step, stage, answer, doc, failed>>
  BY DEF round
<1>2. /\ Clients' = Clients /\ Steps' = Steps /\ Planned' = Planned
      /\ \A d, s : Slot(d, s)' = Slot(d, s)
  BY SamePlan
<1>3. ClientsOK'
  <2>1. \A c \in 1..Clients : (GivenUp(c)' <=> GivenUp(c)) /\ Slot(c, step[c])' = Slot(c, step[c])
    BY <1>1, <1>2 DEF GivenUp, Slot
  <2>2. ClientsOK
    BY DEF IInv
  <2> QED BY <1>1, <1>2, <2>1, <2>2 DEF ClientsOK
<1>4. CallingOK' /\ HonestOK'
  BY DEF CallingOK, HonestOK
<1>5. FailedOK'
  BY <1>1, <1>2 DEF IInv, FailedOK, Applied
<1>6. CheckingOK'
  <2>1. /\ \A c \in 1..Clients : Finished(c)
        /\ failed = {} => HC!WellFormed(history, Absent)
        /\ Blameless => HC!Explainable(history, HC!Start)
        /\ Len(history) = Planned + 1
    BY DEF IInv, CheckingOK
  <2>2. \A c \in 1..Clients : Finished(c)'
    BY <1>1, <1>2, <2>1 DEF Finished
  <2>3. HC!Start' = HC!Start /\ (Blameless' <=> Blameless)
    BY <1>1 DEF HC!Start, Blameless
  <2> QED BY <1>1, <1>2, <2>1, <2>2, <2>3 DEF CheckingOK
<1> QED BY <1>3, <1>4, <1>5, <1>6 DEF IInv

\* The checker leaves its arguments alone, and calls only those malformed that
\* are.
LEMMA SearchFrame ==
    ASSUME HC!Next
    PROVE  /\ history' = history /\ initial' = initial
           /\ verdict' = "malformed" => verdict = "malformed" \/ ~HC!WellFormed(history, initial)
<1>1. CASE HC!Check
  BY <1>1 DEF HC!Check
<1>2. ASSUME NEW i, HC!Accept(i) \/ HC!Prune(i) \/ HC!Exhaust(i) \/ HC!Descend(i)
      PROVE  /\ history' = history /\ initial' = initial
             /\ verdict' = "malformed" => verdict = "malformed"
  BY <1>2 DEF HC!Accept, HC!Prune, HC!Exhaust, HC!Descend
<1>3. CASE HC!Backtrack
  <2>1. verdict' = IF Len(stack) = 1 THEN HC!NoOrder ELSE verdict
    BY <1>3 DEF HC!Backtrack
  <2>2. HC!NoOrder # "malformed"
    BY DEF HC!NoOrder
  <2> QED BY <1>3, <2>1, <2>2 DEF HC!Backtrack
<1> QED BY <1>1, <1>2, <1>3 DEF HC!Next

\* The checker searches.
LEMMA SearchIInv == ASSUME IInv, Search PROVE IInv'
<1>1. outcome = "checking" /\ Checker!Next /\ UNCHANGED <<round, outcome, plan>>
  BY DEF Search
<1>2. [HC!Next]_(HC!vars)
  BY <1>1, SameSearch
<1>3. /\ HC!IInv /\ initial = Absent
      /\ failed = {} => HC!WellFormed(history, Absent)
      /\ verdict = "malformed" => failed # {}
  BY <1>1 DEF IInv, CheckingOK, ClientsOK
<1>4. HC!IInv'
  BY <1>2, <1>3, Settings, HC!StepIInv
<1>5. /\ history' = history /\ initial' = initial
      /\ verdict' = "malformed" => verdict = "malformed" \/ ~HC!WellFormed(history, initial)
  <2>1. CASE HC!Next
    BY <2>1, SearchFrame
  <2>2. CASE UNCHANGED HC!vars
    BY <2>2 DEF HC!vars
  <2> QED BY <1>2, <2>1, <2>2
<1> QED BY <1>1, <1>3, <1>4, <1>5, CheckingIInv

\* The round is judged.
LEMMA JudgeIInv == ASSUME IInv, Judge PROVE IInv'
<1>1. /\ outcome = "checking" /\ outcome' \in {"passed", "failed"}
      /\ UNCHANGED <<round, history, search, plan>>
  BY DEF Judge
<1>2. HC!IInv /\ (verdict = "malformed" => failed # {})
  BY <1>1 DEF IInv, CheckingOK
<1>3. HC!IInv'
  BY <1>1, <1>2, SearchRests DEF search
<1> QED BY <1>1, <1>2, <1>3, CheckingIInv DEF search

\* Nothing happens.
LEMMA StutterIInv == ASSUME IInv, UNCHANGED vars PROVE IInv'
<1>1. UNCHANGED <<round, history, search, plan, outcome>>
  BY DEF vars
<1>2. CASE outcome # "calling"
  <2>1. HC!IInv /\ (verdict = "malformed" => failed # {})
        /\ outcome \in {"calling", "checking", "passed", "failed"}
    BY <1>2 DEF IInv, CheckingOK, ClientsOK
  <2>2. HC!IInv'
    BY <1>1, <2>1, SearchRests DEF search
  <2> QED BY <1>1, <1>2, <2>1, <2>2, CheckingIInv DEF search
<1>3. CASE outcome = "calling"
  <2>1. UNCHANGED <<clock, step, stage, answer, doc, failed, initial, stack, rejected, exhausted, verdict>>
    BY <1>1 DEF round, search
  <2>2. /\ Clients' = Clients /\ Steps' = Steps /\ Planned' = Planned
        /\ \A d, s : Slot(d, s)' = Slot(d, s)
    BY <1>1, SamePlan
  <2>3. ClientsOK'
    <3>1. \A c \in 1..Clients : (GivenUp(c)' <=> GivenUp(c)) /\ Slot(c, step[c])' = Slot(c, step[c])
      BY <2>1, <2>2 DEF GivenUp, Slot
    <3>2. ClientsOK
      BY DEF IInv
    <3> QED BY <1>1, <2>1, <2>2, <3>1, <3>2 DEF ClientsOK
  <2>4. CallingOK'
    <3>1. CallingOK
      BY DEF IInv
    <3>2. ASSUME NEW c \in 1..Clients, NEW s \in 0..(Steps - 1) PROVE Entered(c, s)'
      <4>1. Entered(c, s)
        BY <1>3, <3>1 DEF CallingOK
      <4> QED BY <1>1, <2>1, <2>2, <4>1 DEF Entered, Applied
    <3> QED BY <1>1, <1>3, <2>1, <2>2, <3>1, <3>2 DEF CallingOK
  <2>5. FailedOK'
    BY <1>1, <2>1, <2>2 DEF IInv, FailedOK, Applied
  <2>6. HonestOK'
    <3> SUFFICES ASSUME Blameless'
                 PROVE  \E n, order, values, results :
                           (Effects(n, order, values, results) /\ Witnessed(n, order, results))'
      BY DEF HonestOK
    <3>1. Blameless
      BY <1>1, <2>1 DEF Blameless
    <3>2. PICK n, order, values, results : Effects(n, order, values, results) /\ Witnessed(n, order, results)
      BY <1>3, <3>1 DEF IInv, HonestOK
    <3>3. Effects(n, order, values, results)'
      BY <1>1, <2>1, <3>2, SameEffects
    <3>4. \A d \in 1..Clients, s \in 0..(Steps - 1) : Effective(d, s)' <=> Effective(d, s)
      BY <2>1 DEF Effective
    <3>5. Witnessed(n, order, results)'
      BY <1>1, <2>1, <2>2, <3>2, <3>4 DEF Witnessed
    <3> QED BY <3>3, <3>5
  <2>7. CheckingOK'
    BY <1>1, <1>3 DEF CheckingOK
  <2> QED BY <2>3, <2>4, <2>5, <2>6, <2>7 DEF IInv
<1> QED BY <1>2, <1>3

\* Every step keeps the invariant.
LEMMA StepIInv == IInv /\ [Next]_vars => IInv'
<1> SUFFICES ASSUME IInv, [Next]_vars PROVE IInv'
  OBVIOUS
<1>1. ASSUME NEW c \in 1..Clients, Begin(c) \/ Serve(c) \/ Conflict(c) \/ Return(c) \/ Fail(c)
      PROVE  IInv'
  BY <1>1, BeginIInv, ServeIInv, ConflictIInv, ReturnIInv, FailIInv
<1>2. CASE FinalRead
  BY <1>2, FinalReadIInv
<1>3. CASE Search
  BY <1>3, SearchIInv
<1>4. CASE Judge
  BY <1>4, JudgeIInv
<1>5. CASE UNCHANGED vars
  BY <1>5, StutterIInv
<1> QED BY <1>1, <1>2, <1>3, <1>4, <1>5 DEF Next

\* Throughout a round, however many clients there are and however their calls
\* overlap, the calls that have taken effect have an order that explains what
\* an honest store has answered, and once the round is over its history has.
THEOREM Invariance == Spec => []IInv
BY InitIInv, StepIInv, PTL DEF Spec
-----------------------------------------------------------------------------
(* The verdicts.                                                           *)

\* With an honest store the checker rejects a history only if a call returned
\* an error: the order in which the calls took effect is an explanation, and
\* the search does not miss it.  Whether the budget suffices to find one is
\* another matter.
THEOREM HonestIsNotRejected == Spec => [](verdict # "exhausted" => NoFalseAlarm)
<1>1. ASSUME IInv, verdict # "exhausted" PROVE NoFalseAlarm
  <2> SUFFICES ASSUME plan.faults = {}, verdict \in {"malformed", "illegal"}, failed = {} PROVE FALSE
    BY <1>1 DEF NoFalseAlarm
  <2>1. Blameless
    BY DEF Blameless
  <2>2. outcome # "calling"
    BY <1>1 DEF IInv, CallingOK
  <2>3. verdict = "illegal" /\ HC!RefutedOK
    BY <1>1, <2>2 DEF IInv, CheckingOK, HC!IInv
  <2>4. HC!Explainable(history, HC!Start)
    BY <1>1, <2>1, <2>2 DEF IInv, CheckingOK
  <2> QED BY <2>3, <2>4 DEF HC!RefutedOK
<1> QED BY <1>1, Invariance, PTL

\* An addition whose call returned an error is not explained away: whatever
\* the store did, a history that is accepted holds none.
THEOREM FailedAddsUnexplained == Spec => []FailedAddsStayUnexplained
<1>1. ASSUME IInv PROVE FailedAddsStayUnexplained
  <2> SUFFICES ASSUME verdict = "accepted", NEW i \in failed, history[i].kind = "add" PROVE FALSE
    BY DEF FailedAddsStayUnexplained
  <2>1. outcome # "calling"
    BY <1>1 DEF IInv, CallingOK
  <2>2. HC!TypeOK /\ HC!PathOK
    BY <1>1, <2>1 DEF IInv, CheckingOK, HC!IInv
  <2>3. /\ HC!Completes(history, HC!Start, Len(stack), HC!Order)
        /\ HC!Justifies(history, initial, Len(stack), HC!Order, HC!Values)
    BY <2>2, Settings, HC!ChainCompletes, HC!ChainJustifies
  <2>4. i \in 1..Planned \/ i = Planned + 1
    BY <1>1 DEF IInv, FailedOK
  <2>r. history[i] \in Entry /\ history[i].result = Applied(FALSE)
    BY <1>1 DEF IInv, FailedOK
  <2>5. i \in HC!Entries(history)
    <3>1. Len(history) = Planned + 1 /\ Planned \in Nat
      BY <1>1, <2>1, PlanFacts DEF IInv, CheckingOK, ClientsOK
    <3> QED BY <2>4, <3>1 DEF HC!Entries
  <2>6. PICK k \in 1..Len(stack) : HC!Order[k] = i
    BY <2>3, <2>5 DEF HC!Completes, HC!Start
  <2>7. \E d : HC!Answer(d, history[i]) = history[i].result
    BY <2>3, <2>6 DEF HC!Justifies
  <2>8. history[i].result.applied = FALSE /\ history[i].result.conflict = FALSE
    BY <2>r DEF Applied
  <2>9. ~HC!Refused(history[i])
    BY <2>8 DEF HC!Refused
  <2>10. \A d : HC!Answer(d, history[i]).applied = TRUE
    BY <2>9 DEF HC!Answer, HC!Applied
  <2> QED BY <2>7, <2>8, <2>10
<1> QED BY <1>1, Invariance, PTL
=============================================================================
