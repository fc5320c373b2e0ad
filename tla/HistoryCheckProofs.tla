------------------------- MODULE HistoryCheckProofs -------------------------
(***************************************************************************)
(* Proofs that the verdicts of HistoryCheck are right for histories of any *)
(* length, any set of documents and any budget.                            *)
(***************************************************************************)
EXTENDS HistoryCheck, TLAPS

(* From a position that is not complete, an explanation begins with an      *)
(* entry the loop of visit would try.                                       *)
LEMMA ExplanationBegins ==
    ASSUME NEW h \in Seq(Entry), NEW doc, WellFormed(h, doc),
           NEW s, s.visited \subseteq Entries(h), s.visited # Entries(h),
           Explainable(h, s)
    PROVE  \E i \in Entries(h) : Explicable(h, s, i) /\ Explainable(h, Successor(h, s, i))
<1>a. PICK n \in 0..Len(h) : \E order \in [1..n -> Entries(h)] :
         /\ Completes(h, s, n, order)
         /\ \E values \in [1..n -> Documents] : Justifies(h, s.value, n, order, values)
  BY DEF Explainable
<1>b. PICK order \in [1..n -> Entries(h)] :
         /\ Completes(h, s, n, order)
         /\ \E values \in [1..n -> Documents] : Justifies(h, s.value, n, order, values)
  BY <1>a
<1>1. PICK values \in [1..n -> Documents] :
         Completes(h, s, n, order) /\ Justifies(h, s.value, n, order, values)
  BY <1>b
<1>2. n \in 1..Len(h)
  <2>1. PICK e : e \in Entries(h) \ s.visited
    OBVIOUS
  <2>2. \E k \in 1..n : order[k] = e
    BY <1>1, <2>1 DEF Completes
  <2> QED BY <2>2
<1> DEFINE i == order[1]
           rest == [k \in 1..(n - 1) |-> order[k + 1]]
           after == [k \in 1..(n - 1) |-> values[k + 1]]
<1>3. i \in Entries(h) /\ i \notin s.visited
  BY <1>1, <1>2 DEF Completes
<1>4. Answer(s.value, h[i]) = h[i].result
      /\ values[1] = After(s.value, h[i])
  BY <1>1, <1>2 DEF Justifies
<1>5. Predecessors(h, i) \subseteq s.visited
  <2> SUFFICES ASSUME NEW j \in Entries(h), h[j].end < h[i].start,
                      j \notin s.visited
               PROVE  FALSE
    BY DEF Predecessors
  <2>1. PICK k \in 1..n : j = order[k]
    BY <1>1 DEF Completes
  <2>2. CASE k = 1
    <3>1. h[i].end > h[i].start
      BY <1>3 DEF WellFormed
    <3>2. h[i] \in Entry
      BY <1>3 DEF Entries
    <3>3. h[i].end \in Int /\ h[i].start \in Int
      BY <3>2 DEF Entry
    <3> QED BY <2>1, <2>2, <3>1, <3>3
  <2>3. CASE k # 1
    <3>1. 1 < k /\ 1 \in 1..n
      BY <1>2, <2>3
    <3> QED BY <1>1, <2>1, <3>1 DEF Completes
  <2> QED BY <2>2, <2>3
<1>6. Explicable(h, s, i)
  BY <1>3, <1>4, <1>5 DEF Explicable
<1>7. rest \in [1..(n - 1) -> Entries(h)] /\ after \in [1..(n - 1) -> Documents]
      /\ n - 1 \in 0..Len(h)
  BY <1>1, <1>2
<1>8. Completes(h, Successor(h, s, i), n - 1, rest)
  <2>1. {rest[k] : k \in 1..(n - 1)} = Entries(h) \ (s.visited \cup {i})
    <3>1. ASSUME NEW k \in 1..(n - 1)
          PROVE  rest[k] \in Entries(h) \ (s.visited \cup {i})
      <4>1. rest[k] = order[k + 1] /\ k + 1 \in 1..n /\ 1 < k + 1 /\ 1 \in 1..n
        BY <1>2
      <4>2. order[k + 1] \in Entries(h) \ s.visited
        BY <1>1, <4>1 DEF Completes
      <4>3. order[1] # order[k + 1]
        BY <1>1, <4>1 DEF Completes
      <4> QED BY <4>1, <4>2, <4>3
    <3>2. ASSUME NEW j \in Entries(h) \ (s.visited \cup {i})
          PROVE  \E k \in 1..(n - 1) : j = rest[k]
      <4>1. PICK k \in 1..n : j = order[k]
        BY <1>1 DEF Completes
      <4>2. k - 1 \in 1..(n - 1) /\ rest[k - 1] = order[k]
        BY <4>1, <1>2
      <4> QED BY <4>1, <4>2
    <3> QED BY <3>1, <3>2
  <2>2. ASSUME NEW j \in 1..(n - 1), NEW k \in 1..(n - 1), j < k
        PROVE  rest[j] # rest[k]
               /\ ~(h[rest[k]].end < h[rest[j]].start)
    <3>1. j + 1 \in 1..n /\ k + 1 \in 1..n /\ j + 1 < k + 1
      BY <1>2, <2>2
    <3> QED BY <1>1, <3>1 DEF Completes
  <2> QED BY <2>1, <2>2 DEF Completes, Successor
<1>9. Justifies(h, After(s.value, h[i]), n - 1, rest, after)
  <2> SUFFICES ASSUME NEW k \in 1..(n - 1)
               PROVE  LET before == IF k = 1 THEN After(s.value, h[i])
                                             ELSE after[k - 1]
                      IN /\ Answer(before, h[rest[k]]) = h[rest[k]].result
                         /\ after[k] = After(before, h[rest[k]])
    BY DEF Justifies
  <2>1. k + 1 \in 1..n /\ k + 1 # 1 /\ rest[k] = order[k + 1]
        /\ after[k] = values[k + 1] /\ (k + 1) - 1 = k
    BY <1>2
  <2>2. (IF k = 1 THEN After(s.value, h[i]) ELSE after[k - 1]) = values[k]
    <3>1. CASE k = 1
      BY <1>4, <3>1
    <3>2. CASE k # 1
      <4>1. k - 1 \in 1..(n - 1) /\ (k - 1) + 1 = k
        BY <3>2
      <4> QED BY <3>2, <4>1
    <3> QED BY <3>1, <3>2
  <2>3. Answer(values[k], h[order[k + 1]]) = h[order[k + 1]].result
        /\ values[k + 1] = After(values[k], h[order[k + 1]])
    BY <1>1, <2>1 DEF Justifies
  <2> QED BY <2>1, <2>2, <2>3
<1>10. Successor(h, s, i).value = After(s.value, h[i])
  BY DEF Successor
<1>11. Explainable(h, Successor(h, s, i))
  BY <1>7, <1>8, <1>9, <1>10 DEF Explainable
<1> QED BY <1>3, <1>6, <1>11
-----------------------------------------------------------------------------
(* Type correctness.                                                        *)

\* A call's effect is a document and its answer a result.
LEMMA CallTypes ==
    ASSUME NEW d \in Document, NEW e \in Entry
    PROVE  After(d, e) \in Document
<1>1. Absent \in Document
  BY DEF Absent, Document
<1>2. \A n \in Int : Holding(n) \in Document
  BY DEF Holding, Document
<1>3. e.input \in Int /\ d.counter \in Int /\ d.counter + e.input \in Int
  BY DEF Entry, Document
<1> QED BY <1>1, <1>2, <1>3 DEF After

\* The innermost frame and its parts have their types.
LEMMA FrameTypes ==
    ASSUME TypeOK, stack # <<>>
    PROVE  /\ Len(stack) \in Nat \ {0}
           /\ \A k \in 1..Len(stack) :
                 /\ stack[k].visited \subseteq Entries(history)
                 /\ stack[k].value \in Document
                 /\ stack[k].next \in 1..(Len(history) + 1)
<1>1. Len(stack) \in Nat \ {0}
  BY DEF TypeOK
<1>2. \A k \in 1..Len(stack) : stack[k] \in Frames
  BY DEF TypeOK
<1> QED BY <1>1, <1>2 DEF Frames

\* Live calls of visit st on history h from document doc: each is at an
\* incomplete position, reached from the empty one by the entries its callers
\* are trying.
Chain(h, doc, st) ==
    /\ st # <<>> /\ WellFormed(h, doc)
    /\ Position(st[1]) = [visited |-> {}, value |-> doc]
    /\ \A k \in 1..Len(st) :
          /\ st[k].visited = {st[j].next - 1 : j \in 1..(k - 1)}
          /\ st[k].visited # Entries(h)
    /\ \A k \in 1..(Len(st) - 1) :
          /\ st[k].next - 1 \in Entries(h)
          /\ Explicable(h, st[k], st[k].next - 1)
          /\ Position(st[k + 1]) = Successor(h, st[k], st[k].next - 1)

\* The last of them has just ordered the last entry.
Completed(h, f) ==
    /\ f.next - 1 \in Entries(h)
    /\ Explicable(h, f, f.next - 1)
    /\ Successor(h, f, f.next - 1).visited = Entries(h)

PathOK ==
    /\ verdict \in {"searching", "accepted"} => Chain(history, initial, stack)
    /\ verdict = "accepted" => Completed(history, Top)

\* The entries that every live loop has passed lead to nothing, except the one
\* it is waiting for.
Passed(h, st) ==
    \A k \in 1..Len(st) : \A i \in Entries(h) :
       /\ Explicable(h, st[k], i)
       /\ i < st[k].next
       /\ k = Len(st) \/ i # st[k].next - 1
       => ~Explainable(h, Successor(h, st[k], i))

\* Until the budget runs out, whatever the search has left behind has no
\* explanation.
RefutedOK ==
    /\ verdict = "illegal" => ~Explainable(history, Start)
    /\ ~exhausted =>
          /\ \A s \in rejected : ~Explainable(history, s)
          /\ verdict = "searching" => Passed(history, stack)

IInv == TypeOK /\ PathOK /\ RefutedOK
-----------------------------------------------------------------------------
\* Advancing the innermost loop keeps every frame of its type.
LEMMA TriedFrames ==
    ASSUME TypeOK, stack # <<>>, NEW i \in Entries(history)
    PROVE  /\ Tried(i) \in Seq(Frames)
           /\ Len(Tried(i)) = Len(stack)
           /\ \A k \in 1..(Len(stack) - 1) : Tried(i)[k] = stack[k]
           /\ Tried(i)[Len(stack)].visited = Top.visited
           /\ Tried(i)[Len(stack)].value = Top.value
           /\ Tried(i)[Len(stack)].next = i + 1
<1>1. stack \in Seq(Frames) /\ Len(stack) \in 1..Len(stack)
  BY DEF TypeOK
<1>2. Top \in Frames
  BY <1>1 DEF Top
<1>3. i + 1 \in 1..(Len(history) + 1)
  BY DEF Entries
<1> DEFINE new == [Top EXCEPT !.next = i + 1]
<1>4. new \in Frames /\ new.visited = Top.visited /\ new.value = Top.value
      /\ new.next = i + 1
  BY <1>2, <1>3 DEF Frames
<1>5. Tried(i) = [stack EXCEPT ![Len(stack)] = new]
  BY DEF Tried, Top
<1> HIDE DEF new
<1> QED BY <1>1, <1>4, <1>5

\* A successor is again a position of the history.
LEMMA SuccessorPosition ==
    ASSUME TypeOK, verdict = "searching", stack # <<>>, NEW i \in Entries(history)
    PROVE  Successor(history, Top, i) \in Positions
<1>1. Top.visited \subseteq Entries(history) /\ Top.value \in Document
  BY FrameTypes DEF Top
<1>2. history[i] \in Entry
  BY DEF TypeOK, Entries
<1>3. After(Top.value, history[i]) \in Document
  BY <1>1, <1>2, CallTypes
<1> QED BY <1>1, <1>3 DEF Successor, Positions

\* Every step of Check keeps the types.
LEMMA TypeStep ==
    ASSUME TypeOK, PathOK, [Next]_vars
    PROVE  TypeOK'
<1>1. CASE Check
  <2>1. history' = history /\ initial' = initial /\ rejected' = rejected
        /\ exhausted' = exhausted /\ verdict' \in {"malformed", "searching"}
    BY <1>1 DEF Check
  <2>2. Frame(Start) \in Frames
    BY DEF TypeOK, Frame, Start, Frames
  <2>3. \A f \in Frames : <<f>> \in Seq(Frames)
    OBVIOUS
  <2>4. stack \in Seq(Frames)
    BY DEF TypeOK
  <2>5. stack' \in Seq(Frames)
    BY <1>1, <2>2, <2>3, <2>4 DEF Check
  <2> QED BY <2>1, <2>5 DEF TypeOK, Frames, Positions
<1>2. ASSUME NEW i \in Entries(history), Accept(i) \/ Prune(i) \/ Exhaust(i)
      PROVE  TypeOK'
  <2>1. verdict = "searching" /\ stack # <<>>
    BY <1>2 DEF Accept, Prune, Exhaust, Reaches, PathOK, Chain
  <2>2. stack' \in Seq(Frames)
    BY <1>2, <2>1, TriedFrames DEF Accept, Prune, Exhaust
  <2>3. history' = history /\ initial' = initial /\ rejected' = rejected
        /\ exhausted' \in BOOLEAN /\ verdict' \in {"searching", "accepted"}
    BY <1>2, <2>1 DEF Accept, Prune, Exhaust, TypeOK
  <2> QED BY <2>2, <2>3 DEF TypeOK, Frames, Positions
<1>3. ASSUME NEW i \in Entries(history), Descend(i)
      PROVE  TypeOK'
  <2>1. verdict = "searching" /\ stack # <<>>
    BY <1>3 DEF Descend, Reaches, PathOK, Chain
  <2>2. Frame(Successor(history, Top, i)) \in Frames
    BY <2>1, SuccessorPosition DEF Frame, Frames, Positions, TypeOK
  <2>3. stack' \in Seq(Frames)
    BY <1>3, <2>1, <2>2, TriedFrames DEF Descend
  <2>4. history' = history /\ initial' = initial /\ rejected' = rejected
        /\ exhausted' = exhausted /\ verdict' = verdict
    BY <1>3 DEF Descend
  <2> QED BY <2>3, <2>4 DEF TypeOK, Frames, Positions
<1>4. CASE Backtrack
  <2>1. verdict = "searching" /\ stack # <<>>
    BY <1>4 DEF Backtrack, PathOK, Chain
  <2>2. Position(Top) \in Positions
    BY <2>1, FrameTypes DEF Top, Position, Positions
  <2>3. rejected' \subseteq Positions
    BY <1>4, <2>2 DEF Backtrack, Refute, TypeOK
  <2>4. stack' \in Seq(Frames)
    BY <1>4, <2>1 DEF Backtrack, TypeOK
  <2>5. history' = history /\ initial' = initial /\ exhausted' = exhausted
        /\ verdict' \in {"searching", "exhausted", "illegal"}
    BY <1>4, <2>1 DEF Backtrack, NoOrder
  <2> QED BY <2>3, <2>4, <2>5 DEF TypeOK, Frames, Positions
<1>5. CASE UNCHANGED vars
  BY <1>5 DEF vars, TypeOK, Frames, Positions
<1> QED BY <1>1, <1>2, <1>3, <1>4, <1>5 DEF Next
-----------------------------------------------------------------------------
(* The live calls of visit remain a chain.                                  *)

\* Advancing the innermost loop leaves the chain of live calls as it is.
LEMMA TriedChain ==
    ASSUME TypeOK, PathOK, verdict = "searching", NEW i \in Entries(history)
    PROVE  Chain(history, initial, Tried(i))
<1> DEFINE T == Tried(i)
<1>1. Chain(history, initial, stack) /\ stack # <<>> /\ Len(stack) \in Nat \ {0}
  BY DEF PathOK, Chain, TypeOK
<1>2. /\ T \in Seq(Frames) /\ Len(T) = Len(stack)
      /\ \A k \in 1..(Len(stack) - 1) : T[k] = stack[k]
      /\ \A k \in 1..Len(stack) : T[k].visited = stack[k].visited
                                  /\ T[k].value = stack[k].value
  BY <1>1, TriedFrames DEF Top
<1> HIDE DEF T
<1>3. T # <<>> /\ WellFormed(history, initial)
      /\ Position(T[1]) = [visited |-> {}, value |-> initial]
  BY <1>1, <1>2 DEF Chain, Position
<1>4. ASSUME NEW k \in 1..Len(stack)
      PROVE  T[k].visited = {T[j].next - 1 : j \in 1..(k - 1)}
             /\ T[k].visited # Entries(history)
  <2>1. stack[k].visited = {stack[j].next - 1 : j \in 1..(k - 1)}
        /\ stack[k].visited # Entries(history)
    BY <1>1 DEF Chain
  <2>2. \A j \in 1..(k - 1) : T[j] = stack[j]
    BY <1>1, <1>2
  <2>3. {T[j].next - 1 : j \in 1..(k - 1)} = {stack[j].next - 1 : j \in 1..(k - 1)}
    BY <2>2
  <2> QED BY <1>2, <2>1, <2>3
<1>5. ASSUME NEW k \in 1..(Len(stack) - 1)
      PROVE  /\ T[k].next - 1 \in Entries(history)
             /\ Explicable(history, T[k], T[k].next - 1)
             /\ Position(T[k + 1]) = Successor(history, T[k], T[k].next - 1)
  <2>1. T[k] = stack[k] /\ Position(T[k + 1]) = Position(stack[k + 1])
    BY <1>1, <1>2 DEF Position
  <2> QED BY <1>1, <2>1 DEF Chain
<1>6. Chain(history, initial, T)
  BY <1>2, <1>3, <1>4, <1>5 DEF Chain
<1> QED BY <1>6 DEF T

\* The image of 1..n+1 is that of 1..n and one value more.
LEMMA ImageSplit ==
    ASSUME NEW A, NEW B, NEW n, B = A \cup {n}, NEW f
    PROVE  {f[j] : j \in B} = {f[j] : j \in A} \cup {f[n]}
OBVIOUS

\* A recursive call of visit extends the chain by one entry.
LEMMA DescendChain ==
    ASSUME TypeOK, PathOK, NEW i \in Entries(history), Descend(i)
    PROVE  Chain(history, initial, stack')
<1> DEFINE T == Tried(i)
           N == Len(stack)
           S == Successor(history, Top, i)
           st == Append(T, Frame(S))
<1>1. verdict = "searching" /\ Explicable(history, Top, i) /\ S.visited # Entries(history)
      /\ stack' = st
  BY DEF Descend, Reaches, Untried
<1>2. Chain(history, initial, T)
  BY <1>1, TriedChain
<1>3. N \in Nat \ {0} /\ stack # <<>>
  BY <1>1 DEF TypeOK, PathOK, Chain
<1>4. T \in Seq(Frames) /\ Len(T) = N
      /\ T[N].visited = Top.visited /\ T[N].value = Top.value /\ T[N].next = i + 1
  BY <1>3, TriedFrames
<1>5. S \in Positions
  BY <1>1, <1>3, SuccessorPosition
<1>6. Position(Frame(S)) = S /\ Frame(S).visited = S.visited
      /\ S.visited = Top.visited \cup {i}
  BY <1>5 DEF Positions, Position, Frame, Successor
<1> HIDE DEF T, S
<1>7. Len(st) = N + 1 /\ st[N + 1] = Frame(S) /\ \A k \in 1..N : st[k] = T[k]
  BY <1>3, <1>4
<1> HIDE DEF st
<1>8. st # <<>> /\ WellFormed(history, initial)
      /\ Position(st[1]) = [visited |-> {}, value |-> initial]
  BY <1>2, <1>3, <1>7 DEF Chain
<1>9. ASSUME NEW k \in 1..(N + 1)
      PROVE  st[k].visited = {st[j].next - 1 : j \in 1..(k - 1)}
             /\ st[k].visited # Entries(history)
  <2>1. CASE k \in 1..N
    <3>1. T[k].visited = {T[j].next - 1 : j \in 1..(k - 1)}
          /\ T[k].visited # Entries(history)
      BY <1>2, <1>4, <2>1 DEF Chain
    <3>2. \A j \in 1..(k - 1) : st[j] = T[j]
      BY <1>3, <1>7, <2>1
    <3>3. {T[j].next - 1 : j \in 1..(k - 1)} = {st[j].next - 1 : j \in 1..(k - 1)}
      BY <3>2
    <3> QED BY <1>7, <2>1, <3>1, <3>3
  <2>2. CASE k = N + 1
    <3>1. T[N].visited = {T[j].next - 1 : j \in 1..(N - 1)}
      BY <1>2, <1>3, <1>4 DEF Chain
    <3>2. \A j \in 1..N : st[j] = T[j]
      BY <1>7
    <3>3. {st[j].next - 1 : j \in 1..N} = {T[j].next - 1 : j \in 1..(N - 1)} \cup {i}
      <4>2. {st[j].next - 1 : j \in 1..N} = {T[j].next - 1 : j \in 1..N}
        BY <3>2
      <4>3. 1..N = (1..(N - 1)) \cup {N}
        BY <1>3
      <4>4. {T[j].next - 1 : j \in 1..N}
              = {T[j].next - 1 : j \in 1..(N - 1)} \cup {T[N].next - 1}
        <5> DEFINE f == [j \in 1..N |-> T[j].next - 1]
        <5>1. {T[j].next - 1 : j \in 1..N} = {f[j] : j \in 1..N}
          OBVIOUS
        <5>2. {T[j].next - 1 : j \in 1..(N - 1)} = {f[j] : j \in 1..(N - 1)}
          BY <4>3
        <5>3. f[N] = T[N].next - 1
          BY <4>3
        <5> HIDE DEF f
        <5> QED BY <4>3, <5>1, <5>2, <5>3, ImageSplit
      <4>5. T[N].next - 1 = i
        <5>1. T[N].next = i + 1
          BY <1>4
        <5>2. i \in Int
          BY DEF Entries
        <5> QED BY <5>1, <5>2
      <4> QED BY <4>2, <4>4, <4>5
    <3>4. st[k].visited = Top.visited \cup {i} /\ k - 1 = N
      BY <1>3, <1>6, <1>7, <2>2
    <3> QED BY <1>1, <1>4, <1>6, <3>1, <3>3, <3>4
  <2> QED BY <1>3, <2>1, <2>2
<1>10. ASSUME NEW k \in 1..N
       PROVE  /\ st[k].next - 1 \in Entries(history)
              /\ Explicable(history, st[k], st[k].next - 1)
              /\ Position(st[k + 1]) = Successor(history, st[k], st[k].next - 1)
  <2>1. CASE k \in 1..(N - 1)
    <3>1. st[k] = T[k] /\ st[k + 1] = T[k + 1]
      BY <1>3, <1>7, <2>1
    <3> QED BY <1>2, <1>4, <2>1, <3>1 DEF Chain
  <2>2. CASE k = N
    <3>1. st[k].visited = Top.visited /\ st[k].value = Top.value
          /\ st[k].next - 1 = i /\ st[k + 1] = Frame(S)
      BY <1>3, <1>4, <1>7, <2>2 DEF Entries
    <3>2. Explicable(history, st[k], i)
      BY <1>1, <3>1 DEF Explicable
    <3>3. Successor(history, st[k], i) = S
      BY <3>1 DEF Successor, S
    <3> QED BY <1>6, <3>1, <3>2, <3>3
  <2> QED BY <1>3, <2>1, <2>2
<1>11. Chain(history, initial, st)
  BY <1>3, <1>7, <1>8, <1>9, <1>10 DEF Chain
<1> QED BY <1>1, <1>11

\* A call of visit that returns leaves a shorter chain.
LEMMA BacktrackChain ==
    ASSUME TypeOK, PathOK, Backtrack, Len(stack) # 1
    PROVE  Chain(history, initial, stack')
<1> DEFINE N == Len(stack)
           st == SubSeq(stack, 1, N - 1)
<1>a. Chain(history, initial, stack) /\ stack' = st
  BY DEF Backtrack, PathOK
<1>b. N \in Nat \ {0}
  <2>1. stack # <<>> /\ stack \in Seq(Frames)
    BY <1>a DEF Chain, TypeOK
  <2> QED BY <2>1
<1>c. N > 1
  <2>1. N \in Nat /\ N # 0 /\ N # 1
    BY <1>b
  <2> HIDE DEF N
  <2> QED BY <2>1
<1>1. Chain(history, initial, stack) /\ N \in Nat /\ N > 1 /\ stack' = st
  BY <1>a, <1>b, <1>c
<1>2. Len(st) = N - 1 /\ \A k \in 1..(N - 1) : st[k] = stack[k]
  BY <1>1 DEF TypeOK
<1> HIDE DEF st
<1>3. st # <<>> /\ WellFormed(history, initial)
      /\ Position(st[1]) = [visited |-> {}, value |-> initial]
  BY <1>1, <1>2 DEF Chain
<1>4. ASSUME NEW k \in 1..(N - 1)
      PROVE  st[k].visited = {st[j].next - 1 : j \in 1..(k - 1)}
             /\ st[k].visited # Entries(history)
  <2>1. stack[k].visited = {stack[j].next - 1 : j \in 1..(k - 1)}
        /\ stack[k].visited # Entries(history)
    BY <1>1 DEF Chain
  <2>2. \A j \in 1..(k - 1) : st[j] = stack[j]
    BY <1>1, <1>2
  <2>3. {st[j].next - 1 : j \in 1..(k - 1)} = {stack[j].next - 1 : j \in 1..(k - 1)}
    BY <2>2
  <2> QED BY <1>2, <2>1, <2>3
<1>5. ASSUME NEW k \in 1..((N - 1) - 1)
      PROVE  /\ st[k].next - 1 \in Entries(history)
             /\ Explicable(history, st[k], st[k].next - 1)
             /\ Position(st[k + 1]) = Successor(history, st[k], st[k].next - 1)
  <2>1. st[k] = stack[k] /\ st[k + 1] = stack[k + 1] /\ k \in 1..(N - 1)
    BY <1>1, <1>2
  <2> QED BY <1>1, <2>1 DEF Chain
<1>6. Chain(history, initial, st)
  BY <1>2, <1>3, <1>4, <1>5 DEF Chain
<1> QED BY <1>1, <1>6

\* Every step of Check keeps the chain.
LEMMA PathStep ==
    ASSUME TypeOK, PathOK, [Next]_vars
    PROVE  PathOK'
<1>1. CASE Check
  <2>1. CASE WellFormed(history, initial)
    <3> DEFINE st == <<Frame(Start)>>
    <3>1. stack' = st /\ verdict' = "searching" /\ history' = history /\ initial' = initial
      BY <1>1, <2>1 DEF Check
    <3>2. Len(st) = 1 /\ st[1] = Frame(Start) /\ st # <<>>
      OBVIOUS
    <3>3. Position(Frame(Start)) = Start /\ Frame(Start).visited = {}
          /\ Start = [visited |-> {}, value |-> initial]
      BY DEF Position, Frame, Start
    <3> HIDE DEF st
    <3>4. {st[j].next - 1 : j \in 1..(1 - 1)} = {}
      OBVIOUS
    <3>5. Entries(history) # {}
      BY <2>1 DEF WellFormed, Entries
    <3>6. \A k \in 1..Len(st) :
             /\ st[k].visited = {st[j].next - 1 : j \in 1..(k - 1)}
             /\ st[k].visited # Entries(history)
      <4> SUFFICES ASSUME NEW k \in 1..Len(st)
                   PROVE  /\ st[k].visited = {st[j].next - 1 : j \in 1..(k - 1)}
                          /\ st[k].visited # Entries(history)
        OBVIOUS
      <4>1. k = 1
        BY <3>2
      <4> QED BY <3>2, <3>3, <3>4, <3>5, <4>1
    <3>7. 1..(Len(st) - 1) = {}
      BY <3>2
    <3>8. Chain(history, initial, st)
      BY <2>1, <3>2, <3>3, <3>6, <3>7 DEF Chain
    <3> QED BY <3>1, <3>8 DEF PathOK
  <2>2. CASE ~WellFormed(history, initial)
    BY <1>1, <2>2 DEF Check, PathOK
  <2> QED BY <2>1, <2>2
<1>2. ASSUME NEW i \in Entries(history), Prune(i) \/ Exhaust(i)
      PROVE  PathOK'
  <2>1. verdict = "searching" /\ verdict' = "searching" /\ stack' = Tried(i)
        /\ history' = history /\ initial' = initial
    BY <1>2 DEF Prune, Exhaust, Reaches
  <2> QED BY <2>1, TriedChain DEF PathOK
<1>3. ASSUME NEW i \in Entries(history), Accept(i)
      PROVE  PathOK'
  <2>1. verdict = "searching" /\ stack' = Tried(i)
        /\ history' = history /\ initial' = initial
        /\ Explicable(history, Top, i) /\ Successor(history, Top, i).visited = Entries(history)
    BY <1>3 DEF Accept, Reaches, Untried
  <2>2. stack # <<>>
    BY <2>1 DEF PathOK, Chain
  <2>3. /\ Top'.visited = Top.visited /\ Top'.value = Top.value
        /\ Top'.next - 1 = i
    BY <2>1, <2>2, TriedFrames DEF Top, Entries
  <2>4. Explicable(history, Top', i)
    BY <2>1, <2>3 DEF Explicable
  <2>5. Successor(history, Top', i) = Successor(history, Top, i)
    BY <2>3 DEF Successor
  <2>6. Completed(history, Top')
    BY <2>1, <2>3, <2>4, <2>5 DEF Completed
  <2> QED BY <2>1, <2>6, TriedChain DEF PathOK
<1>4. ASSUME NEW i \in Entries(history), Descend(i)
      PROVE  PathOK'
  <2>1. verdict' = "searching" /\ history' = history /\ initial' = initial
    BY <1>4 DEF Descend, Reaches
  <2> QED BY <1>4, <2>1, DescendChain DEF PathOK
<1>5. CASE Backtrack
  <2>1. history' = history /\ initial' = initial /\ verdict' # "accepted"
    BY <1>5 DEF Backtrack, NoOrder
  <2>2. CASE Len(stack) = 1
    BY <1>5, <2>1, <2>2 DEF Backtrack, NoOrder, PathOK
  <2>3. CASE Len(stack) # 1
    BY <1>5, <2>1, <2>3, BacktrackChain DEF PathOK
  <2> QED BY <2>2, <2>3
<1>6. CASE UNCHANGED vars
  <2>1. history' = history /\ initial' = initial /\ stack' = stack /\ verdict' = verdict
        /\ Top' = Top
    BY <1>6 DEF vars, Top
  <2> QED BY <2>1 DEF PathOK
<1> QED BY <1>1, <1>2, <1>3, <1>4, <1>5, <1>6 DEF Next
-----------------------------------------------------------------------------
(* What the search leaves behind has no explanation.                        *)

\* Advancing past an entry without explanation keeps the tried entries refuted.
LEMMA TriedPassed ==
    ASSUME TypeOK, PathOK, verdict = "searching", Passed(history, stack),
           NEW i \in Entries(history), Reaches(i),
           NEW k \in 1..Len(stack), NEW j \in Entries(history),
           Explicable(history, Tried(i)[k], j), j < Tried(i)[k].next,
           k = Len(stack) => j # i,
           k # Len(stack) => j # Tried(i)[k].next - 1
    PROVE  ~Explainable(history, Successor(history, Tried(i)[k], j))
<1>1. stack # <<>>
  BY DEF PathOK, Chain
<1>2. /\ \A m \in 1..(Len(stack) - 1) : Tried(i)[m] = stack[m]
      /\ Tried(i)[Len(stack)].visited = Top.visited
      /\ Tried(i)[Len(stack)].value = Top.value
      /\ Tried(i)[Len(stack)].next = i + 1
  BY <1>1, TriedFrames
<1>3. Len(stack) \in Nat \ {0} /\ \A m \in 1..Len(stack) : stack[m].next \in Int
  BY <1>1, FrameTypes
<1>4. CASE k # Len(stack)
  <2>1. Tried(i)[k] = stack[k]
    BY <1>2, <1>3, <1>4
  <2> QED BY <1>4, <2>1 DEF Passed
<1>5. CASE k = Len(stack)
  <2>1. Explicable(history, stack[k], j)
    BY <1>2, <1>5 DEF Explicable, Top
  <2>2. j \in Int /\ i \in Int /\ j < i
    <3>1. j < i + 1 /\ j # i
      BY <1>2, <1>5
    <3> QED BY <3>1 DEF Entries
  <2>3. j < stack[k].next
    <3>1. j \notin Untried(Top)
      BY <2>2 DEF Reaches
    <3>2. ~(j >= Top.next)
      BY <1>5, <2>1, <3>1 DEF Untried, Top
    <3> QED BY <1>3, <1>5, <2>2, <3>2 DEF Top
  <2>4. ~Explainable(history, Successor(history, stack[k], j))
    BY <1>5, <2>1, <2>3 DEF Passed
  <2>5. Successor(history, Tried(i)[k], j) = Successor(history, stack[k], j)
    BY <1>2, <1>5 DEF Successor, Top
  <2> QED BY <2>4, <2>5
<1> QED BY <1>4, <1>5

\* Pruning advances past a position in the memo, which has no explanation.
LEMMA PrunePassed ==
    ASSUME TypeOK, PathOK, verdict = "searching", Passed(history, stack),
           NEW i \in Entries(history), Reaches(i),
           ~Explainable(history, Successor(history, Top, i))
    PROVE  Passed(history, Tried(i))
<1>1. stack # <<>>
  BY DEF PathOK, Chain
<1>2. Len(Tried(i)) = Len(stack) /\ Len(stack) \in Nat \ {0}
      /\ Tried(i)[Len(stack)].visited = Top.visited
      /\ Tried(i)[Len(stack)].value = Top.value
  BY <1>1, TriedFrames, FrameTypes
<1> SUFFICES ASSUME NEW k \in 1..Len(stack), NEW j \in Entries(history),
                    Explicable(history, Tried(i)[k], j), j < Tried(i)[k].next,
                    k = Len(stack) \/ j # Tried(i)[k].next - 1
             PROVE  ~Explainable(history, Successor(history, Tried(i)[k], j))
  BY <1>2 DEF Passed
<1>3. CASE k = Len(stack) /\ j = i
  <2>1. Successor(history, Tried(i)[k], j) = Successor(history, Top, i)
    BY <1>2, <1>3 DEF Successor
  <2> QED BY <2>1
<1>4. CASE ~(k = Len(stack) /\ j = i)
  BY <1>4, TriedPassed
<1> QED BY <1>3, <1>4

\* A recursive call starts with nothing tried.
LEMMA DescendPassed ==
    ASSUME TypeOK, PathOK, Passed(history, stack),
           NEW i \in Entries(history), Descend(i)
    PROVE  Passed(history, stack')
<1> DEFINE N == Len(stack)
           T == Tried(i)
           F == Frame(Successor(history, Top, i))
           st == Append(T, F)
<1>1. stack # <<>> /\ verdict = "searching" /\ Reaches(i) /\ stack' = st
  BY DEF PathOK, Chain, Descend, Reaches
<1>2. T \in Seq(Frames) /\ Len(T) = N /\ N \in Nat \ {0} /\ T[N].next = i + 1
  BY <1>1, TriedFrames, FrameTypes
<1>3. F.next = 1
  BY DEF Frame
<1> HIDE DEF F
<1>4. Len(st) = N + 1 /\ st[N + 1] = F /\ \A k \in 1..N : st[k] = T[k]
  BY <1>2
<1> HIDE DEF st
<1> SUFFICES ASSUME NEW k \in 1..(N + 1), NEW j \in Entries(history),
                    Explicable(history, st[k], j), j < st[k].next,
                    k = N + 1 \/ j # st[k].next - 1
             PROVE  ~Explainable(history, Successor(history, st[k], j))
  BY <1>1, <1>4 DEF Passed
<1>5. k # N + 1
  BY <1>3, <1>4 DEF Entries
<1>6. k \in 1..N /\ st[k] = T[k]
  BY <1>2, <1>4, <1>5
<1>7. i \in Int
  BY DEF Entries
<1>8. k = N => j # i
  <2> SUFFICES ASSUME k = N PROVE j # i
    OBVIOUS
  <2>1. j # T[N].next - 1
    BY <1>5, <1>6
  <2> QED BY <1>2, <1>7, <2>1
<1> QED BY <1>1, <1>5, <1>6, <1>8, TriedPassed

\* When the loop ends, no entry begins an explanation, so the position has none.
LEMMA BacktrackRefutes ==
    ASSUME TypeOK, PathOK, Passed(history, stack), Backtrack
    PROVE  ~Explainable(history, Position(Top))
<1> DEFINE s == Position(Top)
<1>1. Chain(history, initial, stack)
  BY DEF Backtrack, PathOK
<1>2. stack # <<>> /\ WellFormed(history, initial) /\ Len(stack) \in Nat \ {0}
  BY <1>1, FrameTypes DEF Chain
<1>3. Top.visited \subseteq Entries(history) /\ Top.visited # Entries(history)
      /\ Top.next \in Int
  <2>1. Len(stack) \in 1..Len(stack)
    BY <1>2
  <2> QED BY <1>1, <1>2, <2>1, FrameTypes DEF Chain, Top
<1>4. s.visited = Top.visited /\ s.value = Top.value
  BY DEF Position
<1> HIDE DEF s
<1> SUFFICES ASSUME Explainable(history, s) PROVE FALSE
  BY DEF s
<1>5. history \in Seq(Entry)
  BY DEF TypeOK
<1>6. PICK i \in Entries(history) :
         Explicable(history, s, i) /\ Explainable(history, Successor(history, s, i))
  BY <1>2, <1>3, <1>4, <1>5, ExplanationBegins
<1>7. Explicable(history, Top, i)
  BY <1>4, <1>6 DEF Explicable
<1>8. Successor(history, s, i) = Successor(history, Top, i)
  BY <1>4 DEF Successor
<1>9. i < Top.next
  <2>1. i \notin Untried(Top)
    BY DEF Backtrack
  <2>2. ~(i >= Top.next) /\ i \in Int
    BY <1>7, <2>1 DEF Untried, Entries
  <2> QED BY <1>3, <2>2
<1>10. Len(stack) \in 1..Len(stack)
  BY <1>2
<1> QED BY <1>6, <1>7, <1>8, <1>9, <1>10 DEF Passed, Top

\* The caller has then tried one entry more in vain.
LEMMA BacktrackPassed ==
    ASSUME TypeOK, PathOK, Passed(history, stack), Backtrack, Len(stack) # 1
    PROVE  Passed(history, stack')
<1> DEFINE N == Len(stack)
           st == SubSeq(stack, 1, N - 1)
<1>1. Chain(history, initial, stack) /\ stack' = st
  BY DEF Backtrack, PathOK
<1>2. N \in Nat /\ N # 0 /\ N # 1
  <2>1. stack # <<>> /\ stack \in Seq(Frames)
    BY <1>1 DEF Chain, TypeOK
  <2> QED BY <2>1
<1>3. Len(st) = N - 1 /\ \A k \in 1..(N - 1) : st[k] = stack[k]
  <2>1. stack \in Seq(Frames)
    BY DEF TypeOK
  <2>2. N > 1
    <3> HIDE DEF N
    <3> QED BY <1>2
  <2> QED BY <1>2, <2>1, <2>2
<1> HIDE DEF st
<1> SUFFICES ASSUME NEW k \in 1..(N - 1), NEW j \in Entries(history),
                    Explicable(history, stack[k], j), j < stack[k].next,
                    k = N - 1 \/ j # stack[k].next - 1
             PROVE  ~Explainable(history, Successor(history, stack[k], j))
  BY <1>1, <1>3 DEF Passed
<1>4. k \in 1..N /\ k # N
  BY <1>2
<1>5. CASE j # stack[k].next - 1
  BY <1>4, <1>5 DEF Passed
<1>6. CASE j = stack[k].next - 1
  <2>1. k = N - 1 /\ k + 1 = N
    BY <1>2, <1>6
  <2>2. Position(stack[k + 1]) = Successor(history, stack[k], stack[k].next - 1)
    BY <1>1 DEF Chain
  <2>3. Position(Top) = Successor(history, stack[k], j)
    BY <1>6, <2>1, <2>2 DEF Top
  <2> QED BY <2>3, BacktrackRefutes
<1> QED BY <1>5, <1>6

\* Every step of Check keeps the memo and the tried entries refuted.
LEMMA RefutedStep ==
    ASSUME TypeOK, PathOK, RefutedOK, [Next]_vars
    PROVE  RefutedOK'
<1>1. CASE Check
  <2>1. history' = history /\ rejected' = rejected /\ exhausted' = exhausted
        /\ verdict' # "illegal"
    BY <1>1 DEF Check
  <2>2. verdict' = "searching" => Passed(history, stack')
    <3> SUFFICES ASSUME verdict' = "searching" PROVE Passed(history, stack')
      OBVIOUS
    <3> DEFINE st == <<Frame(Start)>>
    <3>1. stack' = st
      BY <1>1 DEF Check
    <3>2. Len(st) = 1 /\ st[1].next = 1
      BY DEF Frame
    <3> HIDE DEF st
    <3>3. Passed(history, st)
      <4> SUFFICES ASSUME NEW k \in 1..Len(st), NEW j \in Entries(history),
                          j < st[k].next
                   PROVE  FALSE
        BY DEF Passed
      <4>1. k = 1
        BY <3>2
      <4> QED BY <3>2, <4>1 DEF Entries
    <3> QED BY <3>1, <3>3
  <2> QED BY <2>1, <2>2 DEF RefutedOK
<1>2. ASSUME NEW i \in Entries(history), Accept(i)
      PROVE  RefutedOK'
  BY <1>2 DEF Accept, RefutedOK
<1>3. ASSUME NEW i \in Entries(history), Prune(i)
      PROVE  RefutedOK'
  <2>1. history' = history /\ rejected' = rejected /\ exhausted' = exhausted
        /\ verdict = "searching" /\ verdict' = verdict /\ stack' = Tried(i) /\ Reaches(i)
        /\ (Successor(history, Top, i) \in rejected \/ exhausted)
    BY <1>3 DEF Prune, Reaches
  <2>2. ~exhausted => Passed(history, Tried(i))
    BY <2>1, PrunePassed DEF RefutedOK
  <2> QED BY <2>1, <2>2 DEF RefutedOK
<1>4. ASSUME NEW i \in Entries(history), Exhaust(i)
      PROVE  RefutedOK'
  BY <1>4 DEF Exhaust, Reaches, RefutedOK
<1>5. ASSUME NEW i \in Entries(history), Descend(i)
      PROVE  RefutedOK'
  <2>1. history' = history /\ rejected' = rejected /\ exhausted' = exhausted
        /\ verdict = "searching" /\ verdict' = verdict /\ ~exhausted
    BY <1>5 DEF Descend, Reaches
  <2>2. Passed(history, stack')
    BY <1>5, <2>1, DescendPassed DEF RefutedOK
  <2> QED BY <2>1, <2>2 DEF RefutedOK
<1>6. CASE Backtrack
  <2>1. history' = history /\ initial' = initial /\ exhausted' = exhausted
        /\ verdict = "searching" /\ rejected' = rejected \cup {Position(Top)}
        /\ verdict' = (IF Len(stack) = 1 THEN NoOrder ELSE verdict)
    BY <1>6 DEF Backtrack, Refute
  <2>2. CASE exhausted
    BY <2>1, <2>2 DEF RefutedOK, NoOrder
  <2>3. CASE ~exhausted
    <3>1. Passed(history, stack) /\ ~Explainable(history, Position(Top))
      BY <1>6, <2>1, <2>3, BacktrackRefutes DEF RefutedOK
    <3>2. \A s \in rejected' : ~Explainable(history, s)
      BY <2>1, <2>3, <3>1 DEF RefutedOK
    <3>3. CASE Len(stack) = 1
      <4>1. Position(Top) = Start
        BY <2>1, <3>3 DEF PathOK, Chain, Top, Start
      <4>2. Start' = Start /\ verdict' = "illegal"
        BY <2>1, <2>3, <3>3 DEF Start, NoOrder
      <4> QED BY <2>1, <3>1, <3>2, <4>1, <4>2 DEF RefutedOK
    <3>4. CASE Len(stack) # 1
      <4>1. Passed(history, stack')
        BY <1>6, <3>1, <3>4, BacktrackPassed
      <4>2. verdict' = "searching"
        BY <2>1, <3>4
      <4> QED BY <2>1, <3>2, <4>1, <4>2 DEF RefutedOK
    <3> QED BY <3>3, <3>4
  <2> QED BY <2>2, <2>3
<1>7. CASE UNCHANGED vars
  <2>1. history' = history /\ rejected' = rejected /\ exhausted' = exhausted
        /\ verdict' = verdict /\ stack' = stack /\ Start' = Start
    BY <1>7 DEF vars, Start
  <2> QED BY <2>1 DEF RefutedOK
<1> QED BY <1>1, <1>2, <1>3, <1>4, <1>5, <1>6, <1>7 DEF Next
-----------------------------------------------------------------------------
(* The inductive invariant and what follows from it.                        *)

\* Check starts in the invariant.
LEMMA InitIInv == Init => IInv
<1> SUFFICES ASSUME Init PROVE IInv
  OBVIOUS
<1>1. TypeOK
  <2>1. history \in Seq(Entry) /\ initial \in Document
    BY HistoriesAssumption, InitialsAssumption DEF Init
  <2>2. stack \in Seq(Frames)
    BY DEF Init
  <2> QED BY <2>1, <2>2 DEF Init, TypeOK
<1>2. PathOK /\ RefutedOK
  BY DEF Init, PathOK, RefutedOK
<1> QED BY <1>1, <1>2 DEF IInv

\* Every step keeps the invariant.
LEMMA StepIInv == IInv /\ [Next]_vars => IInv'
BY TypeStep, PathStep, RefutedStep DEF IInv

\* The invariant: whatever Check is called with, its types, its chain of live
\* calls and its memo stay as they should.
THEOREM Invariance == Spec => []IInv
BY InitIInv, StepIInv, PTL DEF Spec

\* Check never leaves its types: the loop index of every live call of visit
\* stays within the history and every position within its entries.
THEOREM TypeCorrectness == Spec => []TypeOK
<1>1. IInv => TypeOK
  BY DEF IInv
<1> QED BY <1>1, Invariance, PTL

\* When Check accepts, the live calls order all entries and respect real time.
LEMMA ChainCompletes ==
    ASSUME TypeOK, PathOK, verdict = "accepted"
    PROVE  Completes(history, Start, Len(stack), Order)
<1> DEFINE N == Len(stack)
<1>1. Chain(history, initial, stack) /\ Completed(history, Top)
  BY DEF PathOK
<1>2. N \in Nat \ {0} /\ stack # <<>>
  BY <1>1, FrameTypes DEF Chain
<1> HIDE DEF N
<1>3. \A k \in 1..N : Order[k] = stack[k].next - 1
  BY DEF Order, N
<1>4. \A k \in 1..N : Order[k] \in Entries(history) /\ Explicable(history, stack[k], Order[k])
  <2> SUFFICES ASSUME NEW k \in 1..N
               PROVE  Order[k] \in Entries(history)
                      /\ Explicable(history, stack[k], Order[k])
    OBVIOUS
  <2>1. CASE k = N
    BY <1>1, <1>3, <2>1 DEF Completed, Top, N
  <2>2. CASE k # N
    <3>1. k \in 1..(N - 1)
      BY <1>2, <2>2
    <3> QED BY <1>1, <1>3, <3>1 DEF Chain, N
  <2> QED BY <2>1, <2>2
<1>5. \A k \in 1..N : stack[k].visited = {Order[j] : j \in 1..(k - 1)}
  <2> SUFFICES ASSUME NEW k \in 1..N
               PROVE  stack[k].visited = {Order[j] : j \in 1..(k - 1)}
    OBVIOUS
  <2>1. stack[k].visited = {stack[j].next - 1 : j \in 1..(k - 1)}
    BY <1>1 DEF Chain, N
  <2>2. \A j \in 1..(k - 1) : Order[j] = stack[j].next - 1
    BY <1>2, <1>3
  <2> QED BY <2>1, <2>2
<1>6. {Order[k] : k \in 1..N} = Entries(history) \ Start.visited
  <2>1. Start.visited = {}
    BY DEF Start
  <2>2. Entries(history) = stack[N].visited \cup {Order[N]}
    BY <1>1, <1>2, <1>3 DEF Completed, Top, Successor, N
  <2>3. N \in 1..N /\ 1..N = (1..(N - 1)) \cup {N}
    BY <1>2
  <2>4. {Order[k] : k \in 1..N} = {Order[k] : k \in 1..(N - 1)} \cup {Order[N]}
    BY <2>3, ImageSplit
  <2> QED BY <1>5, <2>1, <2>2, <2>3, <2>4
<1>7. ASSUME NEW j \in 1..N, NEW k \in 1..N, j < k
      PROVE  Order[j] # Order[k]
             /\ ~(history[Order[k]].end < history[Order[j]].start)
  <2>1. Order[j] \in stack[k].visited
    <3>1. j \in 1..(k - 1)
      BY <1>2, <1>7
    <3> QED BY <1>5, <3>1
  <2>2. Order[j] # Order[k]
    BY <1>4, <2>1 DEF Explicable
  <2>3. ASSUME history[Order[k]].end < history[Order[j]].start
        PROVE  FALSE
    <3>1. Order[k] \in stack[j].visited
      BY <1>4, <2>3 DEF Explicable, Predecessors
    <3>2. PICK m \in 1..(j - 1) : Order[k] = Order[m]
      BY <1>5, <3>1
    <3>3. m \in 1..(k - 1)
      BY <1>2, <1>7, <3>2
    <3>4. Order[m] \in stack[k].visited
      BY <1>5, <3>3
    <3> QED BY <1>4, <3>2, <3>4 DEF Explicable
  <2> QED BY <2>2, <2>3
<1> QED BY <1>6, <1>7 DEF Completes, N

\* When Check accepts, the live calls explain every result.
LEMMA ChainJustifies ==
    ASSUME TypeOK, PathOK, verdict = "accepted"
    PROVE  Justifies(history, initial, Len(stack), Order, Values)
<1> DEFINE N == Len(stack)
<1>1. Chain(history, initial, stack) /\ Completed(history, Top)
  BY DEF PathOK
<1>2. N \in Nat \ {0} /\ stack # <<>>
  BY <1>1, FrameTypes DEF Chain
<1> SUFFICES ASSUME NEW k \in 1..N
             PROVE  LET before == IF k = 1 THEN initial ELSE Values[k - 1]
                    IN /\ Answer(before, history[Order[k]]) = history[Order[k]].result
                       /\ Values[k] = After(before, history[Order[k]])
  BY DEF Justifies
<1>3. Order[k] = stack[k].next - 1
  BY DEF Order
<1>4. (IF k = 1 THEN initial ELSE Values[k - 1]) = stack[k].value
  <2>1. CASE k = 1
    BY <1>1, <2>1 DEF Chain, Position
  <2>2. CASE k # 1
    <3>1. k - 1 \in 1..N /\ k - 1 < N /\ (k - 1) + 1 = k
      BY <1>2, <2>2
    <3> QED BY <2>2, <3>1 DEF Values
  <2> QED BY <2>1, <2>2
<1>5. Explicable(history, stack[k], Order[k])
      /\ Values[k] = After(stack[k].value, history[Order[k]])
  <2>1. CASE k = N
    BY <1>1, <1>3, <2>1 DEF Completed, Top, Values
  <2>2. CASE k # N
    <3>1. k \in 1..(N - 1)
      BY <1>2, <2>2
    <3>2. Explicable(history, stack[k], Order[k])
          /\ Position(stack[k + 1]) = Successor(history, stack[k], Order[k])
      BY <1>1, <1>3, <3>1 DEF Chain
    <3>3. stack[k + 1].value = After(stack[k].value, history[Order[k]])
      BY <3>2 DEF Position, Successor
    <3>4. Values[k] = stack[k + 1].value
      BY <1>2, <3>1 DEF Values
    <3> QED BY <3>2, <3>3, <3>4
  <2> QED BY <2>1, <2>2
<1> QED BY <1>4, <1>5 DEF Explicable

\* Acceptance is sound: whenever Check returns nil, the live calls of visit
\* spell out an order of the whole history that explains every result and
\* respects real time, whatever the history, the memo and the budget.
THEOREM AcceptanceSound == Spec => []AcceptedIsExplained
<1>1. IInv => AcceptedIsExplained
  BY ChainCompletes, ChainJustifies DEF IInv, AcceptedIsExplained
<1> QED BY <1>1, Invariance, PTL

\* Rejection is sound: Check reports "no legal sequential ordering" only of a
\* history that no order explains, so pruning by the memo and abandoning the
\* search when the budget runs out never hide one.
THEOREM RejectionSound == Spec => []IllegalIsUnexplainable
<1>1. IInv => IllegalIsUnexplainable
  BY DEF IInv, RefutedOK, IllegalIsUnexplainable
<1> QED BY <1>1, Invariance, PTL

\* The memo is sound until the budget runs out: no position in it can be
\* completed.
THEOREM MemoSound == Spec => []MemoIsRefuted
<1>1. IInv => MemoIsRefuted
  BY DEF IInv, RefutedOK, MemoIsRefuted
<1> QED BY <1>1, Invariance, PTL
=============================================================================
