------------------------------- MODULE LuaProofs -------------------------------
(***************************************************************************)
(* The engine that runs Lua programs, and the merges it runs.              *)
(*                                                                         *)
(* The merges.  A helper that removes repeated items is determined by what *)
(* it does when one item is appended (UniqueLaws), so what the merges do   *)
(* to lists is proved by induction on their length.  A Lua table leaves    *)
(* out what is empty: StandsForProduct and StandsForOffer say when it      *)
(* stands for a document of the reference model, and each merge keeps that *)
(* (ProductAgrees, OfferAgrees), so both sides always agree.  The replay   *)
(* of a log converges because a merge absorbs what it was given before     *)
(* (Absorbs, StepLaw), and what is not absorbed is determined by the log   *)
(* alone: the last document that sets a field, and the order of offers.    *)
(*                                                                         *)
(* The engine.  The conversion of what a program returns builds a tree of  *)
(* paths.  The live calls are one branch of it, so a table met again on    *)
(* the branch closes a cycle.  The tables off the branch are complete: all *)
(* they lead to is complete, and no set of them has a successor for each   *)
(* of its members, since a table is completed after everything it leads    *)
(* to.                                                                     *)
(***************************************************************************)
EXTENDS LuaEngine, MergeReplay, TLAPS, FiniteSetTheorems, SequenceTheorems, WellFoundedInduction

Lists == INSTANCE MergeLists
-----------------------------------------------------------------------------
(* Numbers. *)

\* A set of natural numbers that contains zero and the successors of its
\* members contains all of them.
LEMMA NumberInduction ==
    ASSUME NEW T, 0 \in T, \A n \in Nat : n \in T => n + 1 \in T
    PROVE  Nat \subseteq T
<1> DEFINE U == Nat \ T
           R == {mn \in Nat \X Nat : mn[1] < mn[2]}
<1> SUFFICES ASSUME U # {} PROVE FALSE
  OBVIOUS
<1>1. IsWellFoundedOn(R, Nat)
  BY NatLessThanWellFounded DEF OpToRel
<1>2. \A m, n \in U : <<n, m>> \in R <=> n < m
  OBVIOUS
<1>3. U \subseteq Nat
  OBVIOUS
<1> HIDE DEF R, U
<1>4. PICK m \in U : \A n \in U : ~ (<<n, m>> \in R)
  BY <1>1, <1>3, WFMin
<1>5. m # 0 /\ m \in Nat
  BY <1>3 DEF U
<1> DEFINE n == m - 1
<1>6. n \in Nat /\ n < m
  BY <1>5
<1> HIDE DEF n
<1>7. n \notin U
  BY <1>6, <1>2, <1>4
<1>8. n \in T /\ n + 1 = m
  BY <1>5, <1>6, <1>7 DEF U, n
<1>9. m \in T
  BY <1>6, <1>8
<1> QED BY <1>9 DEF U

\* The greatest of a set of the first numbers that contains the last of them.
LEMMA LastNumber ==
    ASSUME NEW n \in Nat \ {0}, NEW V \in SUBSET (1..n), n \in V
    PROVE  Lists!Max(V) = n
<1>1. \A y \in V : n >= y
  OBVIOUS
<1>2. Lists!Max(V) \in V /\ \A y \in V : Lists!Max(V) >= y
  BY <1>1 DEF Lists!Max
<1> DEFINE x == Lists!Max(V)
<1>3. x \in V /\ x >= n
  BY <1>2
<1> HIDE DEF x
<1>4. x = n
  BY <1>3
<1> QED BY <1>4 DEF x
-----------------------------------------------------------------------------
(* The items at some positions of a list. *)

\* g is what has been chosen after each item.
Choosings(g, items, positions) ==
    /\ g[0] = <<>>
    /\ \A i \in 1..Len(items) :
          g[i] = IF i \in positions THEN Append(g[i - 1], items[i]) ELSE g[i - 1]

\* The fold looks at one item after the other.
LEMMA ChosenInOrder ==
    ASSUME NEW S, NEW items \in Seq(S), NEW positions
    PROVE  \E g : Choosings(g, items, positions) /\ Lists!Chosen(items, positions) = g[Len(items)]
<1> DEFINE n == Len(items)
           index == [i \in 1..n |-> i]
           then(kept, i) ==
              IF index[i] \in positions THEN Append(kept, items[index[i]]) ELSE kept
           E(h, m) == [V \in SUBSET (1..m) |->
                         IF V = {} THEN <<>> ELSE then(h[V \ {Lists!Max(V)}], Lists!Max(V))]
           iter == CHOOSE h : h = E(h, n)
<1>1. n \in Nat /\ DOMAIN items = 1..n
  OBVIOUS
<1>2. Lists!Chosen(items, positions) = iter[1..n]
  BY <1>1 DEF Lists!Chosen, Lists!FoldLeftDomain, Lists!FoldLeft, Lists!MapThenFoldSet
<1>i. \A i \in 1..n : index[i] = i
  OBVIOUS
<1>t. \A kept, i : then(kept, i) = IF index[i] \in positions THEN Append(kept, items[index[i]]) ELSE kept
  OBVIOUS
<1> HIDE DEF n, then, index
<1>3. \A m \in Nat : \E h : h = E(h, m)
  <2> DEFINE T == {m \in Nat : \E h : h = E(h, m)}
  <2>1. 0 \in T
    <3> DEFINE h == [V \in SUBSET (1..0) |-> <<>>]
    <3>1. h = E(h, 0)
      OBVIOUS
    <3> QED BY <3>1
  <2>2. ASSUME NEW m \in Nat, m \in T PROVE m + 1 \in T
    <3>1. PICK h : h = E(h, m)
      BY <2>2
    <3> DEFINE S1 == SUBSET (1..(m + 1))
               k == [V \in S1 |-> IF m + 1 \in V THEN then(h[V \ {m + 1}], m + 1) ELSE h[V]]
    <3>2. ASSUME NEW V \in S1
          PROVE  k[V] = IF V = {} THEN <<>> ELSE then(k[V \ {Lists!Max(V)}], Lists!Max(V))
      <4>0. k[V] = IF m + 1 \in V THEN then(h[V \ {m + 1}], m + 1) ELSE h[V]
        OBVIOUS
      <4>1. CASE m + 1 \in V
        <5>1. Lists!Max(V) = m + 1
          <6>1. m + 1 \in Nat \ {0} /\ V \in SUBSET (1..(m + 1))
            OBVIOUS
          <6> QED BY <4>1, <6>1, LastNumber
        <5>2. V \ {m + 1} \in S1 /\ m + 1 \notin V \ {m + 1}
          OBVIOUS
        <5>3. k[V \ {m + 1}] = h[V \ {m + 1}]
          BY <5>2
        <5> QED BY <4>0, <4>1, <5>1, <5>3
      <4>2. CASE m + 1 \notin V /\ V # {}
        <5>1. V \in SUBSET (1..m)
          BY <4>2
        <5>2. h[V] = then(h[V \ {Lists!Max(V)}], Lists!Max(V))
          BY <3>1, <4>2, <5>1
        <5>3. V \ {Lists!Max(V)} \in S1 /\ m + 1 \notin V \ {Lists!Max(V)}
          BY <4>2
        <5>4. k[V \ {Lists!Max(V)}] = h[V \ {Lists!Max(V)}]
          BY <5>3
        <5> QED BY <4>0, <4>2, <5>2, <5>4
      <4>3. CASE V = {}
        <5>1. h[{}] = <<>>
          BY <3>1
        <5> QED BY <4>0, <4>3, <5>1
      <4> QED BY <4>1, <4>2, <4>3
    <3>3. k = E(k, m + 1)
      BY <3>2
    <3>4. \E f : f = E(f, m + 1)
      <4> HIDE DEF k, E
      <4> QED BY <3>3
    <3> HIDE DEF E
    <3> QED BY <3>4
  <2> HIDE DEF T
  <2>3. Nat \subseteq T
    BY <2>1, <2>2, NumberInduction
  <2> QED BY <2>3 DEF T
<1>4. iter = E(iter, n)
  BY <1>1, <1>3
<1> HIDE DEF iter
<1>5. \A V \in SUBSET (1..n) :
         iter[V] = IF V = {} THEN <<>> ELSE then(iter[V \ {Lists!Max(V)}], Lists!Max(V))
  BY <1>4
<1> DEFINE g == [i \in 0..n |-> iter[1..i]]
<1>6. g[0] = <<>>
  <2>1. 0 \in 0..n /\ 1..0 = {} /\ {} \in SUBSET (1..n)
    BY <1>1
  <2>2. iter[{}] = <<>>
    BY <1>5, <2>1
  <2> QED BY <2>1, <2>2
<1>7. ASSUME NEW i \in 1..n
      PROVE  g[i] = IF i \in positions THEN Append(g[i - 1], items[i]) ELSE g[i - 1]
  <2>1. i \in Nat \ {0} /\ i <= n /\ i \in 0..n /\ i - 1 \in 0..n
    BY <1>1
  <2>2. 1..i \in SUBSET (1..i) /\ i \in 1..i /\ 1..i # {} /\ (1..i) \ {i} = 1..(i - 1)
    BY <2>1, SMTT(60)
  <2>3. Lists!Max(1..i) = i
    BY <2>1, <2>2, LastNumber
  <2>4. 1..i \in SUBSET (1..n)
    BY <1>1, <2>1
  <2>5. iter[1..i] = then(iter[1..(i - 1)], i)
    BY <1>5, <2>2, <2>3, <2>4
  <2>6. g[i] = iter[1..i] /\ g[i - 1] = iter[1..(i - 1)]
    BY <2>1
  <2>7. index[i] = i
    BY <1>i
  <2> HIDE DEF g
  <2> QED BY <1>t, <2>5, <2>6, <2>7
<1>8. Lists!Chosen(items, positions) = g[n]
  BY <1>1, <1>2
<1>9. Choosings(g, items, positions)
  <2> HIDE DEF g
  <2> QED BY <1>6, <1>7 DEF Choosings, n
<1> QED BY <1>8, <1>9 DEF n

\* A set of sequences that contains the empty one, and with a sequence all that
\* are longer by one element, contains all of them.
LEMMA SequenceInduction ==
    ASSUME NEW S, NEW T, <<>> \in T, \A s \in Seq(S) : \A x \in S : s \in T => Append(s, x) \in T
    PROVE  Seq(S) \subseteq T
<1> DEFINE N == {n \in Nat : \A s \in Seq(S) : Len(s) = n => s \in T}
<1>1. 0 \in N
  <2>1. ASSUME NEW s \in Seq(S), Len(s) = 0 PROVE s = <<>>
    BY <2>1, EmptySeq
  <2> QED BY <2>1
<1>2. ASSUME NEW n \in Nat, n \in N PROVE n + 1 \in N
  <2>1. ASSUME NEW s \in Seq(S), Len(s) = n + 1 PROVE s \in T
    <3>1. s # <<>>
      BY <2>1
    <3>2. PICK r \in Seq(S), x \in S : s = Append(r, x)
      BY <3>1, SequenceEmptyOrAppend
    <3>3. Len(r) = n
      BY <2>1, <3>2
    <3> QED BY <1>2, <3>2, <3>3
  <2> QED BY <2>1
<1> HIDE DEF N
<1>3. Nat \subseteq N
  BY <1>1, <1>2, NumberInduction
<1>4. \A s \in Seq(S) : Len(s) \in Nat
  OBVIOUS
<1> QED BY <1>3, <1>4 DEF N

\* Nothing is chosen from nothing.
LEMMA ChosenNone ==
    ASSUME NEW positions
    PROVE  Lists!Chosen(<<>>, positions) = <<>>
<1> DEFINE empty == <<>>
<1>1. empty \in Seq({}) /\ Len(empty) = 0
  OBVIOUS
<1> HIDE DEF empty
<1>2. PICK g : Choosings(g, empty, positions) /\ Lists!Chosen(empty, positions) = g[Len(empty)]
  BY <1>1, ChosenInOrder
<1>3. Lists!Chosen(empty, positions) = <<>>
  BY <1>1, <1>2 DEF Choosings
<1> QED BY <1>3 DEF empty

\* What is chosen from a list with one item more.
LEMMA ChosenAppend ==
    ASSUME NEW S, NEW s \in Seq(S), NEW x \in S, NEW P, NEW Q,
           \A i \in 1..Len(s) : i \in P <=> i \in Q
    PROVE  Lists!Chosen(Append(s, x), P) =
              IF Len(s) + 1 \in P THEN Append(Lists!Chosen(s, Q), x) ELSE Lists!Chosen(s, Q)
<1> DEFINE n == Len(s)
           longer == Append(s, x)
<1>1. /\ n \in Nat /\ longer \in Seq(S) /\ Len(longer) = n + 1 /\ longer[n + 1] = x
      /\ \A i \in 1..n : longer[i] = s[i]
  OBVIOUS
<1>2. PICK g : Choosings(g, s, Q) /\ Lists!Chosen(s, Q) = g[n]
  BY ChosenInOrder
<1> HIDE DEF longer
<1>3. PICK h : Choosings(h, longer, P) /\ Lists!Chosen(longer, P) = h[n + 1]
  BY <1>1, ChosenInOrder
<1>4. h[0] = g[0]
  BY <1>2, <1>3 DEF Choosings
<1>5. ASSUME NEW i \in 1..n
      PROVE  /\ g[i] = IF i \in Q THEN Append(g[i - 1], s[i]) ELSE g[i - 1]
             /\ h[i] = IF i \in Q THEN Append(h[i - 1], s[i]) ELSE h[i - 1]
  <2>1. i \in 1..(n + 1)
    BY <1>1
  <2> QED BY <1>1, <1>2, <1>3, <2>1 DEF Choosings
<1>6. h[n + 1] = IF n + 1 \in P THEN Append(h[n], x) ELSE h[n]
  <2>1. n + 1 \in 1..(n + 1) /\ (n + 1) - 1 = n
    BY <1>1
  <2> QED BY <1>1, <1>3, <2>1 DEF Choosings
<1> HIDE DEF n
<1> DEFINE T == {i \in Nat : i <= n => h[i] = g[i]}
<1>7. 0 \in T
  BY <1>4
<1>8. ASSUME NEW i \in Nat, i \in T PROVE i + 1 \in T
  <2>1. CASE i + 1 <= n
    <3>1. i <= n /\ i + 1 \in 1..n /\ (i + 1) - 1 = i
      BY <1>1, <2>1
    <3>2. h[i] = g[i]
      BY <1>8, <3>1
    <3>3. h[i + 1] = g[i + 1]
      BY <1>5, <3>1, <3>2
    <3> QED BY <3>3
  <2>2. CASE ~ (i + 1 <= n)
    BY <2>2
  <2> QED BY <2>1, <2>2
<1> HIDE DEF T
<1>9. Nat \subseteq T
  BY <1>7, <1>8, NumberInduction
<1>10. h[n] = g[n]
  BY <1>1, <1>9 DEF T
<1> QED BY <1>2, <1>3, <1>6, <1>10 DEF n, longer

\* What is chosen are items of the list.
LEMMA ChosenType ==
    ASSUME NEW S, NEW s \in Seq(S), NEW P
    PROVE  Lists!Chosen(s, P) \in Seq(S)
<1> DEFINE T == {r \in Seq(S) : Lists!Chosen(r, P) \in Seq(S)}
<1>1. <<>> \in T
  BY ChosenNone, EmptySeq
<1>2. ASSUME NEW r \in Seq(S), NEW x \in S, r \in T PROVE Append(r, x) \in T
  <2>1. Lists!Chosen(r, P) \in Seq(S)
    BY <1>2
  <2>2. \/ Lists!Chosen(Append(r, x), P) = Append(Lists!Chosen(r, P), x)
        \/ Lists!Chosen(Append(r, x), P) = Lists!Chosen(r, P)
    BY ChosenAppend
  <2>a. \A c \in Seq(S) : Append(c, x) \in Seq(S)
    BY AppendProperties
  <2>3. Lists!Chosen(Append(r, x), P) \in Seq(S)
    BY <2>1, <2>2, <2>a
  <2>4. Append(r, x) \in Seq(S)
    BY AppendProperties
  <2> QED BY <2>3, <2>4
<1> HIDE DEF T
<1>3. Seq(S) \subseteq T
  BY <1>1, <1>2, SequenceInduction
<1> QED BY <1>3 DEF T
-----------------------------------------------------------------------------
(* The first item of every key; k is what items are told apart by. *)

UniqueBy(s, k) == Lists!Unique(s, [i \in 1..Len(s) |-> k[s[i]]])
KeySet(s, k) == {k[s[i]] : i \in 1..Len(s)}
Distinct(s, k) == \A i, j \in 1..Len(s) : k[s[i]] = k[s[j]] => i = j

\* The keys of longer lists.
LEMMA KeySets ==
    ASSUME NEW S, NEW k, NEW s \in Seq(S)
    PROVE  /\ KeySet(<<>>, k) = {}
           /\ \A x \in S : KeySet(Append(s, x), k) = KeySet(s, k) \cup {k[x]}
           /\ \A t \in Seq(S) : KeySet(s \o t, k) = KeySet(s, k) \cup KeySet(t, k)
<1>1. KeySet(<<>>, k) = {}
  BY DEF KeySet
<1>2. ASSUME NEW x \in S PROVE KeySet(Append(s, x), k) = KeySet(s, k) \cup {k[x]}
  <2> DEFINE r == Append(s, x)
  <2>1. /\ Len(s) \in Nat /\ Len(r) = Len(s) + 1 /\ r[Len(s) + 1] = x
        /\ \A i \in 1..Len(s) : r[i] = s[i]
    OBVIOUS
  <2> HIDE DEF r
  <2>2. 1..Len(r) = (1..Len(s)) \cup {Len(s) + 1}
    BY <2>1
  <2>3. KeySet(r, k) = KeySet(s, k) \cup {k[x]}
    BY <2>1, <2>2 DEF KeySet
  <2> QED BY <2>3 DEF r
<1>3. ASSUME NEW t \in Seq(S) PROVE KeySet(s \o t, k) = KeySet(s, k) \cup KeySet(t, k)
  <2> DEFINE r == s \o t
  <2>1. /\ Len(s) \in Nat /\ Len(t) \in Nat /\ Len(r) = Len(s) + Len(t)
        /\ \A i \in 1..Len(s) : r[i] = s[i]
        /\ \A i \in 1..Len(t) : r[Len(s) + i] = t[i]
    OBVIOUS
  <2> HIDE DEF r
  <2>2. \A i \in 1..Len(r) : i \in 1..Len(s) \/ \E j \in 1..Len(t) : i = Len(s) + j
    <3>1. ASSUME NEW i \in 1..Len(r), i \notin 1..Len(s) PROVE \E j \in 1..Len(t) : i = Len(s) + j
      <4>1. i - Len(s) \in 1..Len(t) /\ i = Len(s) + (i - Len(s))
        BY <2>1, <3>1
      <4> QED BY <4>1
    <3> QED BY <3>1
  <2>3. 1..Len(s) \subseteq 1..Len(r) /\ \A j \in 1..Len(t) : Len(s) + j \in 1..Len(r)
    BY <2>1
  <2>4. ASSUME NEW v \in KeySet(r, k) PROVE v \in KeySet(s, k) \cup KeySet(t, k)
    <3>1. PICK i \in 1..Len(r) : v = k[r[i]]
      BY <2>4 DEF KeySet
    <3>2. CASE i \in 1..Len(s)
      BY <2>1, <3>1, <3>2 DEF KeySet
    <3>3. CASE \E j \in 1..Len(t) : i = Len(s) + j
      BY <2>1, <3>1, <3>3 DEF KeySet
    <3> QED BY <2>2, <3>2, <3>3
  <2>5. ASSUME NEW v \in KeySet(s, k) \cup KeySet(t, k) PROVE v \in KeySet(r, k)
    <3>1. CASE v \in KeySet(s, k)
      BY <2>1, <2>3, <3>1 DEF KeySet
    <3>2. CASE v \in KeySet(t, k)
      <4>1. PICK j \in 1..Len(t) : v = k[t[j]]
        BY <3>2 DEF KeySet
      <4>2. Len(s) + j \in 1..Len(r) /\ v = k[r[Len(s) + j]]
        BY <2>1, <2>3, <4>1
      <4> QED BY <4>2 DEF KeySet
    <3> QED BY <2>5, <3>1, <3>2
  <2>6. KeySet(r, k) = KeySet(s, k) \cup KeySet(t, k)
    BY <2>4, <2>5
  <2> QED BY <2>6 DEF r
<1> QED BY <1>1, <1>2, <1>3

\* An item is appended to the unique ones unless its key is among them.
LEMMA UniqueAppend ==
    ASSUME NEW S, NEW k, NEW s \in Seq(S), NEW x \in S
    PROVE  /\ UniqueBy(<<>>, k) = <<>>
           /\ UniqueBy(Append(s, x), k) = IF k[x] \in KeySet(s, k) THEN UniqueBy(s, k)
                                          ELSE Append(UniqueBy(s, k), x)
<1>1. UniqueBy(<<>>, k) = <<>>
  BY ChosenNone DEF UniqueBy, Lists!Unique
<1> DEFINE n == Len(s)
           r == Append(s, x)
           keys(q) == [i \in 1..Len(q) |-> k[q[i]]]
<1>2. /\ n \in Nat /\ Len(r) = n + 1 /\ r[n + 1] = x
      /\ \A i \in 1..n : r[i] = s[i]
  OBVIOUS
<1>3. UniqueBy(r, k) = Lists!Chosen(r, Lists!Firsts(keys(r))) /\ UniqueBy(s, k) = Lists!Chosen(s, Lists!Firsts(keys(s)))
  BY DEF UniqueBy, Lists!Unique
<1>4. \A q : DOMAIN keys(q) = 1..Len(q) /\ \A i \in 1..Len(q) : keys(q)[i] = k[q[i]]
  OBVIOUS
<1> HIDE DEF keys, r, n
<1>5. ASSUME NEW i \in 1..n PROVE i \in Lists!Firsts(keys(r)) <=> i \in Lists!Firsts(keys(s))
  <2>1. i \in 1..Len(r) /\ i \in 1..Len(s) /\ \A j \in 1..(i - 1) : j \in 1..Len(s) /\ j \in 1..Len(r) /\ j \in 1..n
    BY <1>2 DEF n
  <2>2. \A j \in 1..n : keys(r)[j] = keys(s)[j]
    <3>1. \A j \in 1..n : j \in 1..Len(r) /\ j \in 1..Len(s)
      BY <1>2 DEF n
    <3> QED BY <1>2, <1>4, <3>1
  <2> QED BY <1>4, <2>1, <2>2 DEF Lists!Firsts
<1>6. n + 1 \in Lists!Firsts(keys(r)) <=> k[x] \notin KeySet(s, k)
  <2>1. n + 1 \in 1..Len(r) /\ (n + 1) - 1 = n /\ n = Len(s)
    BY <1>2 DEF n
  <2>2. keys(r)[n + 1] = k[x]
    BY <1>2, <1>4, <2>1
  <2>3. \A j \in 1..n : keys(r)[j] = k[s[j]]
    <3>1. \A j \in 1..n : j \in 1..Len(r)
      BY <1>2
    <3> QED BY <1>2, <1>4, <3>1
  <2> QED BY <1>4, <2>1, <2>2, <2>3 DEF Lists!Firsts, KeySet
<1>7. UniqueBy(r, k) = IF n + 1 \in Lists!Firsts(keys(r)) THEN Append(UniqueBy(s, k), x) ELSE UniqueBy(s, k)
  <2>1. \A i \in 1..Len(s) : i \in Lists!Firsts(keys(r)) <=> i \in Lists!Firsts(keys(s))
    BY <1>5 DEF n
  <2> QED BY <1>3, <2>1, ChosenAppend DEF n, r
<1>8. UniqueBy(r, k) = IF k[x] \in KeySet(s, k) THEN UniqueBy(s, k) ELSE Append(UniqueBy(s, k), x)
  BY <1>6, <1>7
<1> QED BY <1>1, <1>8 DEF r

\* What makes a list unique: its items are items of the list, of the same keys,
\* no two of one key.
LEMMA UniqueFacts ==
    ASSUME NEW S, NEW k, NEW s \in Seq(S)
    PROVE  UniqueBy(s, k) \in Seq(S) /\ KeySet(UniqueBy(s, k), k) = KeySet(s, k) /\ Distinct(UniqueBy(s, k), k)
<1> DEFINE Good(r) == /\ UniqueBy(r, k) \in Seq(S) /\ KeySet(UniqueBy(r, k), k) = KeySet(r, k)
                      /\ Distinct(UniqueBy(r, k), k)
           T == {r \in Seq(S) : Good(r)}
<1>1. <<>> \in T
  <2>1. UniqueBy(<<>>, k) = <<>>
    BY ChosenNone DEF UniqueBy, Lists!Unique
  <2>2. 1..Len(<<>>) = {} /\ <<>> \in Seq(S)
    OBVIOUS
  <2>3. Distinct(<<>>, k)
    BY <2>2 DEF Distinct
  <2>4. Good(<<>>)
    BY <2>1, <2>2, <2>3
  <2> QED BY <2>2, <2>4
<1>2. ASSUME NEW r \in Seq(S), NEW x \in S, r \in T PROVE Append(r, x) \in T
  <2> DEFINE u == UniqueBy(r, k)
             v == UniqueBy(Append(r, x), k)
  <2>1. u \in Seq(S) /\ KeySet(u, k) = KeySet(r, k) /\ Distinct(u, k)
    BY <1>2
  <2>2. v = IF k[x] \in KeySet(r, k) THEN u ELSE Append(u, x)
    BY UniqueAppend
  <2>3. KeySet(Append(r, x), k) = KeySet(r, k) \cup {k[x]}
    BY KeySets
  <2> HIDE DEF u
  <2>4. CASE k[x] \in KeySet(r, k)
    <3>1. v = u /\ KeySet(Append(r, x), k) = KeySet(r, k)
      BY <2>2, <2>3, <2>4
    <3> QED BY <2>1, <3>1, AppendProperties
  <2>5. CASE k[x] \notin KeySet(r, k)
    <3>1. v = Append(u, x)
      BY <2>2, <2>5
    <3>2. v \in Seq(S) /\ KeySet(v, k) = KeySet(Append(r, x), k)
      BY <2>1, <2>3, <3>1, KeySets, AppendProperties
    <3>3. Distinct(v, k)
      <4>1. Len(u) \in Nat /\ Len(v) = Len(u) + 1 /\ v[Len(u) + 1] = x /\ \A i \in 1..Len(u) : v[i] = u[i]
        BY <2>1, <3>1
      <4>2. \A i \in 1..Len(u) : k[u[i]] # k[x]
        BY <2>1, <2>5 DEF KeySet
      <4> HIDE DEF v
      <4>3. \A i \in 1..Len(v) : i \in 1..Len(u) \/ i = Len(u) + 1
        BY <4>1
      <4> QED BY <2>1, <4>1, <4>2, <4>3 DEF Distinct
    <3>4. Append(r, x) \in Seq(S)
      BY AppendProperties
    <3> QED BY <3>2, <3>3, <3>4
  <2> QED BY <2>4, <2>5
<1> HIDE DEF T
<1>3. Seq(S) \subseteq T
  BY <1>1, <1>2, SequenceInduction
<1> QED BY <1>3 DEF T

\* A list without repeats is as unique as it can be.
LEMMA UniqueStays ==
    ASSUME NEW S, NEW k, NEW s \in Seq(S), Distinct(s, k)
    PROVE  UniqueBy(s, k) = s
<1> DEFINE T == {r \in Seq(S) : Distinct(r, k) => UniqueBy(r, k) = r}
<1>1. <<>> \in T
  BY UniqueAppend, EmptySeq
<1>2. ASSUME NEW r \in Seq(S), NEW x \in S, r \in T PROVE Append(r, x) \in T
  <2> DEFINE q == Append(r, x)
  <2>1. q \in Seq(S) /\ Len(r) \in Nat /\ Len(q) = Len(r) + 1 /\ q[Len(r) + 1] = x /\ \A i \in 1..Len(r) : q[i] = r[i]
    OBVIOUS
  <2>2. UniqueBy(q, k) = IF k[x] \in KeySet(r, k) THEN UniqueBy(r, k) ELSE Append(UniqueBy(r, k), x)
    BY UniqueAppend
  <2>3. ASSUME Distinct(q, k) PROVE UniqueBy(q, k) = q
    <3> HIDE DEF q
    <3>1. \A i \in 1..Len(r) : i \in 1..Len(q) /\ Len(r) + 1 \in 1..Len(q) /\ i # Len(r) + 1
      BY <2>1
    <3>2. Distinct(r, k)
      BY <2>1, <2>3, <3>1 DEF Distinct
    <3>3. k[x] \notin KeySet(r, k)
      BY <2>1, <2>3, <3>1 DEF Distinct, KeySet
    <3> QED BY <1>2, <2>2, <3>2, <3>3 DEF q
  <2> QED BY <2>1, <2>3
<1> HIDE DEF T
<1>3. Seq(S) \subseteq T
  BY <1>1, <1>2, SequenceInduction
<1> QED BY <1>3 DEF T

\* Concatenations, one element at a time.
LEMMA ConcatAppend ==
    ASSUME NEW S, NEW s \in Seq(S), NEW t \in Seq(S), NEW x \in S
    PROVE  s \o Append(t, x) = Append(s \o t, x) /\ s \o t \in Seq(S) /\ Append(t, x) \in Seq(S)
<1>1. s \o Append(t, x) \in Seq(S) /\ Append(s \o t, x) \in Seq(S)
  OBVIOUS
<1> QED OBVIOUS

UniqueLaw(S, k) ==
    /\ \A q \in Seq(S) : \A x \in S :
          /\ UniqueBy(Append(q, x), k) = IF k[x] \in KeySet(q, k) THEN UniqueBy(q, k)
                                         ELSE Append(UniqueBy(q, k), x)
          /\ KeySet(Append(q, x), k) = KeySet(q, k) \cup {k[x]}
    /\ \A q, r \in Seq(S) : KeySet(q \o r, k) = KeySet(q, k) \cup KeySet(r, k)

ConcatLaw(S) ==
    /\ \A q, r \in Seq(S) : q \o r \in Seq(S) /\ \A x \in S : q \o Append(r, x) = Append(q \o r, x)
    /\ \A q \in Seq(S) : q \o <<>> = q /\ <<>> \o q = q /\ \A x \in S : Append(q, x) \in Seq(S)

\* The facts above, for any lists.
LEMMA UniqueLaws ==
    ASSUME NEW S, NEW k
    PROVE  UniqueLaw(S, k)
<1>1. \A q \in Seq(S) : \A x \in S :
         UniqueBy(Append(q, x), k) = IF k[x] \in KeySet(q, k) THEN UniqueBy(q, k) ELSE Append(UniqueBy(q, k), x)
  BY UniqueAppend
<1>2. \A q \in Seq(S) : \A x \in S : KeySet(Append(q, x), k) = KeySet(q, k) \cup {k[x]}
  BY KeySets
<1>3. \A q \in Seq(S) : \A r \in Seq(S) : KeySet(q \o r, k) = KeySet(q, k) \cup KeySet(r, k)
  BY KeySets
<1> QED BY <1>1, <1>2, <1>3 DEF UniqueLaw

\* Concatenations of any lists.
LEMMA ConcatLaws ==
    ASSUME NEW S
    PROVE  ConcatLaw(S)
<1>1. \A q \in Seq(S) : \A r \in Seq(S) : \A x \in S : q \o Append(r, x) = Append(q \o r, x)
  BY ConcatAppend
<1>2. \A q \in Seq(S) : \A r \in Seq(S) : q \o r \in Seq(S)
  OBVIOUS
<1>3. \A q \in Seq(S) : q \o <<>> = q /\ <<>> \o q = q
  OBVIOUS
<1>4. \A q \in Seq(S) : \A x \in S : Append(q, x) \in Seq(S)
  OBVIOUS
<1> QED BY <1>1, <1>2, <1>3, <1>4 DEF ConcatLaw

\* Items of known keys add nothing.
LEMMA UniqueKnown ==
    ASSUME NEW S, NEW k, NEW s \in Seq(S), NEW t \in Seq(S), KeySet(t, k) \subseteq KeySet(s, k)
    PROVE  UniqueBy(s \o t, k) = UniqueBy(s, k)
<1> DEFINE T == {r \in Seq(S) : KeySet(r, k) \subseteq KeySet(s, k) => UniqueBy(s \o r, k) = UniqueBy(s, k)}
<1>1. <<>> \in T
  BY EmptySeq
<1>2. ASSUME NEW r \in Seq(S), NEW x \in S, r \in T PROVE Append(r, x) \in T
  <2>1. s \o Append(r, x) = Append(s \o r, x) /\ s \o r \in Seq(S) /\ Append(r, x) \in Seq(S)
    BY ConcatAppend
  <2>2. KeySet(Append(r, x), k) = KeySet(r, k) \cup {k[x]} /\ KeySet(s \o r, k) = KeySet(s, k) \cup KeySet(r, k)
    BY KeySets
  <2>3. UniqueBy(Append(s \o r, x), k) =
           IF k[x] \in KeySet(s \o r, k) THEN UniqueBy(s \o r, k) ELSE Append(UniqueBy(s \o r, k), x)
    BY <2>1, UniqueAppend
  <2> QED BY <1>2, <2>1, <2>2, <2>3
<1> HIDE DEF T
<1>3. Seq(S) \subseteq T
  BY <1>1, <1>2, SequenceInduction
<1> QED BY <1>3 DEF T

\* It makes no difference whether the end of a list is made unique first.
LEMMA UniqueTwice ==
    ASSUME NEW S, NEW k, NEW s \in Seq(S), NEW t \in Seq(S)
    PROVE  UniqueBy(s \o UniqueBy(t, k), k) = UniqueBy(s \o t, k)
<1> DEFINE T == {r \in Seq(S) : UniqueBy(s \o UniqueBy(r, k), k) = UniqueBy(s \o r, k)}
<1>u. UniqueLaw(S, k) /\ ConcatLaw(S)
  BY UniqueLaws, ConcatLaws
<1>1. <<>> \in T
  BY UniqueAppend, EmptySeq
<1>2. ASSUME NEW r \in Seq(S), NEW x \in S, r \in T PROVE Append(r, x) \in T
  <2> DEFINE u == UniqueBy(r, k)
  <2>1. u \in Seq(S) /\ KeySet(u, k) = KeySet(r, k)
    BY UniqueFacts
  <2>2. UniqueBy(Append(r, x), k) = IF k[x] \in KeySet(r, k) THEN u ELSE Append(u, x)
    BY UniqueAppend
  <2>3. s \o Append(r, x) = Append(s \o r, x) /\ s \o r \in Seq(S) /\ Append(r, x) \in Seq(S)
    BY ConcatAppend
  <2>4. UniqueBy(Append(s \o r, x), k) =
           IF k[x] \in KeySet(s \o r, k) THEN UniqueBy(s \o r, k) ELSE Append(UniqueBy(s \o r, k), x)
    BY ONLY <2>3, <1>u, x \in S DEF UniqueLaw
  <2>5. KeySet(s \o r, k) = KeySet(s, k) \cup KeySet(r, k)
    BY KeySets, SMTT(60)
  <2>i. UniqueBy(s \o u, k) = UniqueBy(s \o r, k)
    BY <1>2
  <2> HIDE DEF u
  <2>6. CASE k[x] \in KeySet(r, k)
    BY <2>i, <2>2, <2>3, <2>4, <2>5, <2>6
  <2>7. CASE k[x] \notin KeySet(r, k)
    <3>1. s \o Append(u, x) = Append(s \o u, x) /\ s \o u \in Seq(S)
      BY <2>1, <1>u DEF ConcatLaw
    <3>2. UniqueBy(Append(s \o u, x), k) =
             IF k[x] \in KeySet(s \o u, k) THEN UniqueBy(s \o u, k) ELSE Append(UniqueBy(s \o u, k), x)
      BY ONLY <3>1, <1>u, x \in S DEF UniqueLaw
    <3>3. KeySet(s \o u, k) = KeySet(s \o r, k)
      BY ONLY <2>1, <2>5, <1>u, s \in Seq(S) DEF UniqueLaw
    <3> QED BY <2>i, <2>2, <2>3, <2>4, <2>7, <3>1, <3>2, <3>3
  <2> QED BY <2>6, <2>7
<1> HIDE DEF T
<1>3. Seq(S) \subseteq T
  BY <1>1, <1>2, SequenceInduction
<1> QED BY <1>3 DEF T

\* What comes first again need not come twice.
LEMMA UniqueRepeat ==
    ASSUME NEW S, NEW k, NEW s \in Seq(S), NEW t \in Seq(S)
    PROVE  UniqueBy(s \o (s \o t), k) = UniqueBy(s \o t, k)
<1> DEFINE T == {r \in Seq(S) : UniqueBy(s \o (s \o r), k) = UniqueBy(s \o r, k)}
<1>u. UniqueLaw(S, k) /\ ConcatLaw(S)
  BY UniqueLaws, ConcatLaws
<1>1. <<>> \in T
  <2>1. s \o (s \o <<>>) = s \o s /\ s \o <<>> = s /\ <<>> \in Seq(S)
    OBVIOUS
  <2>2. UniqueBy(s \o s, k) = UniqueBy(s, k)
    BY UniqueKnown
  <2> QED BY <2>1, <2>2
<1>2. ASSUME NEW r \in Seq(S), NEW x \in S, r \in T PROVE Append(r, x) \in T
  <2> DEFINE a == s \o r
             b == s \o a
  <2>1. s \o Append(r, x) = Append(a, x) /\ a \in Seq(S) /\ Append(r, x) \in Seq(S)
    BY ConcatAppend
  <2>2. s \o Append(a, x) = Append(b, x) /\ b \in Seq(S)
    BY <2>1, ConcatAppend
  <2>3. KeySet(a, k) = KeySet(s, k) \cup KeySet(r, k)
    BY KeySets, SMTT(60)
  <2>i. UniqueBy(b, k) = UniqueBy(a, k)
    BY <1>2
  <2> HIDE DEF a
  <2>4. KeySet(b, k) = KeySet(s, k) \cup KeySet(a, k)
    BY <2>1, <1>u DEF UniqueLaw
  <2> HIDE DEF b
  <2>5. /\ UniqueBy(Append(a, x), k) = IF k[x] \in KeySet(a, k) THEN UniqueBy(a, k) ELSE Append(UniqueBy(a, k), x)
        /\ UniqueBy(Append(b, x), k) = IF k[x] \in KeySet(b, k) THEN UniqueBy(b, k) ELSE Append(UniqueBy(b, k), x)
    BY ONLY <2>1, <2>2, <1>u, x \in S DEF UniqueLaw
  <2>6. KeySet(b, k) = KeySet(a, k)
    BY <2>3, <2>4
  <2>7. UniqueBy(s \o (s \o Append(r, x)), k) = UniqueBy(s \o Append(r, x), k)
    BY <2>1, <2>2, <2>5, <2>6, <2>i
  <2> QED BY <2>1, <2>7
<1> HIDE DEF T
<1>3. Seq(S) \subseteq T
  BY <1>1, <1>2, SequenceInduction
<1> QED BY <1>3 DEF T
-----------------------------------------------------------------------------
(* Empty strings. *)

\* Empty strings are left out.
LEMMA NonemptyAppend ==
    ASSUME NEW S, NEW s \in Seq(S), NEW x \in S
    PROVE  /\ Lists!Nonempty(<<>>) = <<>>
           /\ Lists!Nonempty(Append(s, x)) = IF x = "" THEN Lists!Nonempty(s) ELSE Append(Lists!Nonempty(s), x)
           /\ Lists!Nonempty(s) \in Seq(S)
<1>1. Lists!Nonempty(<<>>) = <<>> /\ Lists!Nonempty(s) \in Seq(S)
  BY ChosenNone, ChosenType DEF Lists!Nonempty
<1> DEFINE n == Len(s)
           r == Append(s, x)
           P(q) == {i \in DOMAIN q : q[i] # ""}
<1>2. /\ n \in Nat /\ Len(r) = n + 1 /\ r[n + 1] = x /\ r \in Seq(S)
      /\ \A i \in 1..n : r[i] = s[i]
  OBVIOUS
<1>3. DOMAIN s = 1..n /\ DOMAIN r = 1..(n + 1)
  BY <1>2
<1> HIDE DEF r, n
<1>4. \A i \in 1..n : i \in P(r) <=> i \in P(s)
  <2>1. \A i \in 1..n : i \in 1..(n + 1)
    BY <1>2
  <2> QED BY <1>2, <1>3, <2>1
<1>5. n + 1 \in P(r) <=> x # ""
  <2>1. n + 1 \in 1..(n + 1)
    BY <1>2
  <2> QED BY <1>2, <1>3, <2>1
<1>6. Lists!Chosen(r, P(r)) = IF n + 1 \in P(r) THEN Append(Lists!Chosen(s, P(s)), x) ELSE Lists!Chosen(s, P(s))
  <2> HIDE DEF P
  <2> QED BY <1>4, ChosenAppend DEF n, r
<1>7. Lists!Nonempty(r) = IF x = "" THEN Lists!Nonempty(s) ELSE Append(Lists!Nonempty(s), x)
  BY <1>5, <1>6 DEF Lists!Nonempty
<1> QED BY <1>1, <1>7 DEF r

\* A list of strings is told apart by its strings.
Itself(S) == [x \in S |-> x]

\* Leaving out empty strings before or after repeats makes no difference, and
\* leaves out nothing else.
LEMMA NonemptyUnique ==
    ASSUME NEW S, NEW s \in Seq(S)
    PROVE  /\ Lists!Nonempty(UniqueBy(s, Itself(S))) = UniqueBy(Lists!Nonempty(s), Itself(S))
           /\ KeySet(Lists!Nonempty(s), Itself(S)) = KeySet(s, Itself(S)) \ {""}
<1> DEFINE k == Itself(S)
           N(q) == Lists!Nonempty(q)
           T == {r \in Seq(S) : /\ N(UniqueBy(r, k)) = UniqueBy(N(r), k)
                                /\ KeySet(N(r), k) = KeySet(r, k) \ {""}}
<1>k. \A x \in S : k[x] = x
  BY DEF Itself
<1>n. /\ N(<<>>) = <<>>
      /\ \A r \in Seq(S) : N(r) \in Seq(S) /\ \A x \in S : N(Append(r, x)) = IF x = "" THEN N(r) ELSE Append(N(r), x)
  <2>1. ASSUME NEW r \in Seq(S) PROVE N(r) \in Seq(S)
    BY ChosenType DEF Lists!Nonempty
  <2>2. N(<<>>) = <<>>
    BY ChosenNone DEF Lists!Nonempty
  <2> QED BY <2>1, <2>2, NonemptyAppend
<1> HIDE DEF k, N
<1>u. UniqueLaw(S, k) /\ ConcatLaw(S)
  BY UniqueLaws, ConcatLaws
<1>1. <<>> \in T
  <2>1. <<>> \in Seq(S) /\ KeySet(<<>>, k) = {} /\ UniqueBy(<<>>, k) = <<>>
    BY ChosenNone DEF UniqueBy, Lists!Unique, KeySet
  <2> QED BY <1>n, <2>1
<1>2. ASSUME NEW r \in Seq(S), NEW x \in S, r \in T PROVE Append(r, x) \in T
  <2> DEFINE u == UniqueBy(r, k)
             m == N(r)
  <2>1. u \in Seq(S) /\ m \in Seq(S)
    BY <1>n, UniqueFacts
  <2>2. N(u) = UniqueBy(m, k) /\ KeySet(m, k) = KeySet(r, k) \ {""}
    BY <1>2
  <2>3. UniqueBy(Append(r, x), k) = IF x \in KeySet(r, k) THEN u ELSE Append(u, x)
    BY <1>k, UniqueAppend
  <2>4. N(Append(r, x)) = IF x = "" THEN m ELSE Append(m, x)
    BY <1>n
  <2>5. KeySet(Append(r, x), k) = KeySet(r, k) \cup {x} /\ KeySet(Append(m, x), k) = KeySet(m, k) \cup {x}
    BY <1>k, <1>u, <2>1 DEF UniqueLaw
  <2> HIDE DEF u, m
  <2>6. N(Append(u, x)) = IF x = "" THEN N(u) ELSE Append(N(u), x)
    BY <1>n, <2>1
  <2>7. UniqueBy(Append(m, x), k) = IF x \in KeySet(m, k) THEN UniqueBy(m, k) ELSE Append(UniqueBy(m, k), x)
    BY <1>k, <1>u, <2>1 DEF UniqueLaw
  <2>8. N(UniqueBy(Append(r, x), k)) = UniqueBy(N(Append(r, x)), k)
    BY <2>2, <2>3, <2>4, <2>6, <2>7
  <2>9. KeySet(N(Append(r, x)), k) = KeySet(Append(r, x), k) \ {""}
    BY <2>2, <2>4, <2>5
  <2> QED BY <2>8, <2>9, AppendProperties
<1> HIDE DEF T
<1>3. Seq(S) \subseteq T
  BY <1>1, <1>2, SequenceInduction
<1> QED BY <1>3 DEF T, N, k

\* Nor does it whether they are left out of the parts of a list.
LEMMA NonemptyConcat ==
    ASSUME NEW S, NEW s \in Seq(S), NEW t \in Seq(S)
    PROVE  Lists!Nonempty(s \o t) = Lists!Nonempty(s) \o Lists!Nonempty(t)
<1> DEFINE N(q) == Lists!Nonempty(q)
           T == {r \in Seq(S) : N(s \o r) = N(s) \o N(r)}
<1>n. /\ N(<<>>) = <<>>
      /\ \A r \in Seq(S) : N(r) \in Seq(S) /\ \A x \in S : N(Append(r, x)) = IF x = "" THEN N(r) ELSE Append(N(r), x)
  <2>1. ASSUME NEW r \in Seq(S) PROVE N(r) \in Seq(S)
    BY ChosenType DEF Lists!Nonempty
  <2>2. N(<<>>) = <<>>
    BY ChosenNone DEF Lists!Nonempty
  <2> QED BY <2>1, <2>2, NonemptyAppend
<1> HIDE DEF N
<1>u. ConcatLaw(S)
  BY ConcatLaws
<1>1. <<>> \in T
  <2>1. s \o <<>> = s /\ N(s) \o <<>> = N(s) /\ <<>> \in Seq(S)
    <3>1. PICK a \in Seq(S) : a = N(s)
      BY <1>n
    <3> QED BY <3>1, <1>u DEF ConcatLaw
  <2> QED BY <1>n, <2>1
<1>2. ASSUME NEW r \in Seq(S), NEW x \in S, r \in T PROVE Append(r, x) \in T
  <2>1. s \o Append(r, x) = Append(s \o r, x) /\ s \o r \in Seq(S) /\ Append(r, x) \in Seq(S)
    BY ConcatAppend
  <2>2. N(s) \o Append(N(r), x) = Append(N(s) \o N(r), x)
    <3>1. N(s) \in Seq(S) /\ N(r) \in Seq(S)
      BY <1>n
    <3>2. PICK a, b \in Seq(S) : a = N(s) /\ b = N(r)
      BY <3>1
    <3> QED BY <3>2, <1>u DEF ConcatLaw
  <2>3. N(Append(s \o r, x)) = IF x = "" THEN N(s \o r) ELSE Append(N(s \o r), x)
    BY <1>n, <2>1
  <2>4. N(Append(r, x)) = IF x = "" THEN N(r) ELSE Append(N(r), x)
    BY <1>n
  <2> QED BY <1>2, <2>1, <2>2, <2>3, <2>4
<1> HIDE DEF T
<1>3. Seq(S) \subseteq T
  BY <1>1, <1>2, SequenceInduction
<1> QED BY <1>3 DEF T, N

-----------------------------------------------------------------------------
(* Both merges use the same helpers. *)

\* A helper on lists is the same in both modules.
LEMMA SharedLists ==
    \A a, b, n :
       /\ Product!Chosen(a, b) = Lists!Chosen(a, b)
       /\ Product!ToSet(a) = Lists!ToSet(a)
       /\ Product!IsList(a) <=> Lists!IsList(a)
       /\ Product!UniqueItems(a, Product!OwnKey) = Lists!UniqueItems(a, Lists!OwnKey)
       /\ Product!UniqueStrings(a) = Lists!UniqueStrings(a)
       /\ Product!Unique(a, b) = Lists!Unique(a, b)
       /\ Product!Nonempty(a) = Lists!Nonempty(a)
       /\ Product!KeepTail(a, n) = Lists!KeepTail(a, n)
       /\ Product!Replaced(a, b, n) = Lists!Replaced(a, b, n)
       /\ Product!Extended(a, b, Product!OwnKey) = Lists!Extended(a, b, Lists!OwnKey)
       /\ Product!ExtendedStrings(a, b) = Lists!ExtendedStrings(a, b)
       /\ Offer!Chosen(a, b) = Lists!Chosen(a, b)
       /\ Offer!ToSet(a) = Lists!ToSet(a)
       /\ Offer!IsList(a) <=> Lists!IsList(a)
       /\ Offer!UniqueItems(a, Offer!OwnKey) = Lists!UniqueItems(a, Lists!OwnKey)
       /\ Offer!UniqueStrings(a) = Lists!UniqueStrings(a)
       /\ Offer!KeepTail(a, n) = Lists!KeepTail(a, n)
       /\ Offer!Replaced(a, b, n) = Lists!Replaced(a, b, n)
       /\ Offer!Extended(a, b, Offer!OwnKey) = Lists!Extended(a, b, Lists!OwnKey)
       /\ Offer!ExtendedStrings(a, b) = Lists!ExtendedStrings(a, b)
<1>1. \A a, b : Product!Chosen(a, b) = Lists!Chosen(a, b)
  BY DEF Product!Chosen, Product!FoldLeftDomain, Product!FoldLeft, Product!MapThenFoldSet, Product!Max,
         Lists!Chosen, Lists!FoldLeftDomain, Lists!FoldLeft, Lists!MapThenFoldSet, Lists!Max
<1>2. \A a, b : Offer!Chosen(a, b) = Lists!Chosen(a, b)
  BY DEF Offer!Chosen, Offer!FoldLeftDomain, Offer!FoldLeft, Offer!MapThenFoldSet, Offer!Max,
         Lists!Chosen, Lists!FoldLeftDomain, Lists!FoldLeft, Lists!MapThenFoldSet, Lists!Max
<1>3. \A a : /\ Product!ToSet(a) = Lists!ToSet(a) /\ Offer!ToSet(a) = Lists!ToSet(a)
             /\ Product!IsList(a) <=> Lists!IsList(a)
             /\ Offer!IsList(a) <=> Lists!IsList(a)
  BY DEF Product!ToSet, Offer!ToSet, Lists!ToSet, Product!IsList, Offer!IsList, Lists!IsList
<1>4. \A keys : Product!Firsts(keys) = Lists!Firsts(keys) /\ Offer!Firsts(keys) = Lists!Firsts(keys)
  BY DEF Product!Firsts, Offer!Firsts, Lists!Firsts
<1>5. \A a, b : Product!Unique(a, b) = Lists!Unique(a, b) /\ Offer!Unique(a, b) = Lists!Unique(a, b)
  BY <1>1, <1>2, <1>4 DEF Product!Unique, Offer!Unique, Lists!Unique
<1>6. \A a : /\ Product!KeysOf(a, Product!OwnKey) = Lists!KeysOf(a, Lists!OwnKey)
             /\ Offer!KeysOf(a, Offer!OwnKey) = Lists!KeysOf(a, Lists!OwnKey)
  BY DEF Product!KeysOf, Offer!KeysOf, Lists!KeysOf, Product!OwnKey, Offer!OwnKey, Lists!OwnKey
<1>7. \A a : /\ Product!UniqueItems(a, Product!OwnKey) = Lists!UniqueItems(a, Lists!OwnKey) /\ Offer!UniqueItems(a, Offer!OwnKey) = Lists!UniqueItems(a, Lists!OwnKey)
             /\ Product!UniqueStrings(a) = Lists!UniqueStrings(a) /\ Offer!UniqueStrings(a) = Lists!UniqueStrings(a)
  BY <1>5, <1>6 DEF Product!UniqueItems, Offer!UniqueItems, Lists!UniqueItems,
                    Product!UniqueStrings, Offer!UniqueStrings, Lists!UniqueStrings
<1>8. \A a : Product!Nonempty(a) = Lists!Nonempty(a)
  BY <1>1 DEF Product!Nonempty, Lists!Nonempty
<1>9. \A a, b, n :
         /\ Product!KeepTail(a, n) = Lists!KeepTail(a, n) /\ Offer!KeepTail(a, n) = Lists!KeepTail(a, n)
         /\ Product!Replaced(a, b, n) = Lists!Replaced(a, b, n) /\ Offer!Replaced(a, b, n) = Lists!Replaced(a, b, n)
  BY DEF Product!KeepTail, Offer!KeepTail, Lists!KeepTail, Product!Replaced, Offer!Replaced, Lists!Replaced
<1>10. \A a, b :
         /\ Product!Extended(a, b, Product!OwnKey) = Lists!Extended(a, b, Lists!OwnKey) /\ Offer!Extended(a, b, Offer!OwnKey) = Lists!Extended(a, b, Lists!OwnKey)
         /\ Product!ExtendedStrings(a, b) = Lists!ExtendedStrings(a, b)
         /\ Offer!ExtendedStrings(a, b) = Lists!ExtendedStrings(a, b)
  BY <1>7 DEF Product!Extended, Offer!Extended, Lists!Extended,
              Product!ExtendedStrings, Offer!ExtendedStrings, Lists!ExtendedStrings
<1> QED BY <1>1, <1>2, <1>3, <1>5, <1>7, <1>8, <1>9, <1>10

\* So is a helper on tables.
LEMMA SharedTables ==
    \A t, e, f, v :
       /\ Product!Has(t, f) <=> Lists!Has(t, f)
       /\ Product!Get(t, f, v) = Lists!Get(t, f, v)
       /\ Product!With(t, f, v) = Lists!With(t, f, v)
       /\ Product!Without(t, f) = Lists!Without(t, f)
       /\ Product!HasItems(t, f) <=> Lists!HasItems(t, f)
       /\ Product!replace_nonempty_string(t, e, f) = Lists!replace_nonempty_string(t, e, f)
       /\ Product!replace_nonempty_array(t, e, f) = Lists!replace_nonempty_array(t, e, f)
       /\ Product!replace_nonzero(t, e, f) = Lists!replace_nonzero(t, e, f)
       /\ Product!union_strings(t, e, f) = Lists!union_strings(t, e, f)
       /\ Product!deduplicate(t, e, f, Product!OwnKey) = Lists!deduplicate(t, e, f, Lists!OwnKey)
       /\ Product!keep_tail(t, f, v) = Lists!keep_tail(t, f, v)
       /\ Product!merge_times(t, e, v) = Lists!merge_times(t, e, v)
       /\ Product!Encode(t, e, v) = Lists!Encode(t, e, v)
       /\ Product!Decode(t, e) = Lists!Decode(t, e)
       /\ Offer!Has(t, f) <=> Lists!Has(t, f)
       /\ Offer!Get(t, f, v) = Lists!Get(t, f, v)
       /\ Offer!With(t, f, v) = Lists!With(t, f, v)
       /\ Offer!Without(t, f) = Lists!Without(t, f)
       /\ Offer!replace_nonempty_string(t, e, f) = Lists!replace_nonempty_string(t, e, f)
       /\ Offer!replace_nonempty_array(t, e, f) = Lists!replace_nonempty_array(t, e, f)
       /\ Offer!replace_nonzero(t, e, f) = Lists!replace_nonzero(t, e, f)
       /\ Offer!replace_present(t, e, f) = Lists!replace_present(t, e, f)
       /\ Offer!union_strings(t, e, f) = Lists!union_strings(t, e, f)
       /\ Offer!deduplicate(t, e, f, Offer!OwnKey) = Lists!deduplicate(t, e, f, Lists!OwnKey)
       /\ Offer!keep_tail(t, f, v) = Lists!keep_tail(t, f, v)
       /\ Offer!merge_times(t, e, v) = Lists!merge_times(t, e, v)
       /\ Offer!Encode(t, e, v) = Lists!Encode(t, e, v)
       /\ Offer!Decode(t, e) = Lists!Decode(t, e)
<1>1. \A t, f : /\ (Product!Has(t, f) <=> Lists!Has(t, f)) /\ (Offer!Has(t, f) <=> Lists!Has(t, f))
                /\ (Product!HasItems(t, f) <=> Lists!HasItems(t, f)) /\ (Offer!HasItems(t, f) <=> Lists!HasItems(t, f))
  BY DEF Product!Has, Offer!Has, Lists!Has, Product!HasItems, Offer!HasItems, Lists!HasItems
<1>2. \A t, f, v : /\ Product!Get(t, f, v) = Lists!Get(t, f, v) /\ Offer!Get(t, f, v) = Lists!Get(t, f, v)
                   /\ Product!With(t, f, v) = Lists!With(t, f, v) /\ Offer!With(t, f, v) = Lists!With(t, f, v)
                   /\ Product!Without(t, f) = Lists!Without(t, f) /\ Offer!Without(t, f) = Lists!Without(t, f)
  BY <1>1 DEF Product!Get, Offer!Get, Lists!Get, Product!With, Offer!With, Lists!With,
              Product!Without, Offer!Without, Lists!Without
<1>3. \A t, e, f :
         /\ Product!replace_nonempty_string(t, e, f) = Lists!replace_nonempty_string(t, e, f)
         /\ Product!replace_nonempty_array(t, e, f) = Lists!replace_nonempty_array(t, e, f)
         /\ Product!replace_nonzero(t, e, f) = Lists!replace_nonzero(t, e, f)
         /\ Product!replace_present(t, e, f) = Lists!replace_present(t, e, f)
  <2>1. \A t, e, f : Product!replace_nonempty_string(t, e, f) = Lists!replace_nonempty_string(t, e, f)
    BY <1>1, <1>2 DEF Product!replace_nonempty_string, Lists!replace_nonempty_string
  <2>2. \A t, e, f : Product!replace_nonempty_array(t, e, f) = Lists!replace_nonempty_array(t, e, f)
    BY <1>1, <1>2 DEF Product!replace_nonempty_array, Lists!replace_nonempty_array
  <2>3. \A t, e, f : Product!replace_nonzero(t, e, f) = Lists!replace_nonzero(t, e, f)
    BY <1>1, <1>2 DEF Product!replace_nonzero, Lists!replace_nonzero
  <2>4. \A t, e, f : Product!replace_present(t, e, f) = Lists!replace_present(t, e, f)
    BY <1>1, <1>2 DEF Product!replace_present, Lists!replace_present
  <2>5. QED
    BY <2>1, <2>2, <2>3, <2>4
<1>4. \A t, e, f :
         /\ Offer!replace_nonempty_string(t, e, f) = Lists!replace_nonempty_string(t, e, f)
         /\ Offer!replace_nonempty_array(t, e, f) = Lists!replace_nonempty_array(t, e, f)
         /\ Offer!replace_nonzero(t, e, f) = Lists!replace_nonzero(t, e, f)
         /\ Offer!replace_present(t, e, f) = Lists!replace_present(t, e, f)
  <2>1. \A t, e, f : Offer!replace_nonempty_string(t, e, f) = Lists!replace_nonempty_string(t, e, f)
    BY <1>1, <1>2 DEF Offer!replace_nonempty_string, Lists!replace_nonempty_string
  <2>2. \A t, e, f : Offer!replace_nonempty_array(t, e, f) = Lists!replace_nonempty_array(t, e, f)
    BY <1>1, <1>2 DEF Offer!replace_nonempty_array, Lists!replace_nonempty_array
  <2>3. \A t, e, f : Offer!replace_nonzero(t, e, f) = Lists!replace_nonzero(t, e, f)
    BY <1>1, <1>2 DEF Offer!replace_nonzero, Lists!replace_nonzero
  <2>4. \A t, e, f : Offer!replace_present(t, e, f) = Lists!replace_present(t, e, f)
    BY <1>1, <1>2 DEF Offer!replace_present, Lists!replace_present
  <2>5. QED
    BY <2>1, <2>2, <2>3, <2>4
<1>5. \A t, e, f :
         /\ Product!union_strings(t, e, f) = Lists!union_strings(t, e, f)
         /\ Product!deduplicate(t, e, f, Product!OwnKey) = Lists!deduplicate(t, e, f, Lists!OwnKey)
         /\ Offer!union_strings(t, e, f) = Lists!union_strings(t, e, f)
         /\ Offer!deduplicate(t, e, f, Offer!OwnKey) = Lists!deduplicate(t, e, f, Lists!OwnKey)
  BY <1>1, <1>2, SharedLists DEF Product!union_strings, Product!deduplicate, Offer!union_strings,
         Offer!deduplicate, Lists!union_strings, Lists!deduplicate
<1>6. \A t, f, v : /\ Product!keep_tail(t, f, v) = Lists!keep_tail(t, f, v)
                   /\ Offer!keep_tail(t, f, v) = Lists!keep_tail(t, f, v)
  BY <1>1, <1>2, SharedLists DEF Product!keep_tail, Offer!keep_tail, Lists!keep_tail
<1>7. \A t, e, v : /\ Product!merge_times(t, e, v) = Lists!merge_times(t, e, v)
                   /\ Offer!merge_times(t, e, v) = Lists!merge_times(t, e, v)
  BY <1>1, <1>2, <1>3, <1>4 DEF Product!merge_times, Offer!merge_times, Lists!merge_times
<1>8. \A t, e, v : /\ Product!Encode(t, e, v) = Lists!Encode(t, e, v) /\ Offer!Encode(t, e, v) = Lists!Encode(t, e, v)
                   /\ Product!Decode(t, e) = Lists!Decode(t, e) /\ Offer!Decode(t, e) = Lists!Decode(t, e)
  BY <1>2 DEF Product!Encode, Offer!Encode, Lists!Encode, Product!Decode, Offer!Decode, Lists!Decode
<1> QED BY <1>1, <1>2, <1>3, <1>4, <1>5, <1>6, <1>7, <1>8

\* Items are told apart by their keys.
KeyOf(S) == [x \in S |-> x.key]

\* What the helpers make of lists.
LEMMA UniqueLists ==
    ASSUME NEW S, NEW s \in Seq(S)
    PROVE  /\ Lists!UniqueItems(s, Lists!OwnKey) = UniqueBy(s, KeyOf(S))
           /\ Lists!UniqueStrings(s) = UniqueBy(s, Itself(S))
<1>1. [i \in 1..Len(s) |-> KeyOf(S)[s[i]]] = [i \in 1..Len(s) |-> s[i].key]
  BY DEF KeyOf
<1>2. [i \in 1..Len(s) |-> Itself(S)[s[i]]] = s
  BY DEF Itself
<1> QED BY <1>1, <1>2 DEF Lists!UniqueItems, Lists!UniqueStrings, Lists!KeysOf, Lists!OwnKey, UniqueBy

\* Lists have a common set of items.
LEMMA CommonItems ==
    ASSUME NEW a, NEW b, Lists!IsList(a), Lists!IsList(b)
    PROVE  \E S : a \in Seq(S) /\ b \in Seq(S)
<1> DEFINE A == Lists!ToSet(a)
           B == Lists!ToSet(b)
           S == A \cup B
<1>1. a \in Seq(A) /\ b \in Seq(B)
  BY DEF Lists!IsList
<1>2. A \subseteq S /\ B \subseteq S
  OBVIOUS
<1> HIDE DEF A, B, S
<1>3. Seq(A) \subseteq Seq(S) /\ Seq(B) \subseteq Seq(S)
  BY <1>2, SeqMonotonic
<1> QED BY <1>1, <1>3

\* A list of items is a list.
LEMMA ItemsAreList ==
    ASSUME NEW S, NEW q \in Seq(S)
    PROVE  Lists!IsList(q)
<1> DEFINE R == {q[i] : i \in 1..Len(q)}
<1>1. q \in Seq(R)
  OBVIOUS
<1>2. Lists!ToSet(q) = R
  BY DEF Lists!ToSet
<1> HIDE DEF R
<1> QED BY <1>1, <1>2 DEF Lists!IsList

\* The types of what the helpers compute.
LEMMA ListTypes ==
    ASSUME NEW S, NEW a \in Seq(S), NEW b \in Seq(S), NEW limit \in Nat \ {0}
    PROVE  /\ Lists!Extended(a, b, Lists!OwnKey) \in Seq(S) /\ Lists!ExtendedStrings(a, b) \in Seq(S)
           /\ Lists!UniqueItems(b \o a, Lists!OwnKey) \in Seq(S)
           /\ Lists!KeepTail(a, limit) \in Seq(S)
<1>1. a \o b \in Seq(S) /\ b \o a \in Seq(S)
  OBVIOUS
<1>2. \A q \in Seq(S) : UniqueBy(q, KeyOf(S)) \in Seq(S) /\ UniqueBy(q, Itself(S)) \in Seq(S)
  BY UniqueFacts
<1>3. /\ Lists!Extended(a, b, Lists!OwnKey) \in Seq(S) /\ Lists!ExtendedStrings(a, b) \in Seq(S)
      /\ Lists!UniqueItems(b \o a, Lists!OwnKey) \in Seq(S)
  <2>1. /\ Lists!UniqueItems(a \o b, Lists!OwnKey) \in Seq(S) /\ Lists!UniqueStrings(a \o b) \in Seq(S)
        /\ Lists!UniqueItems(b \o a, Lists!OwnKey) \in Seq(S)
    BY <1>1, <1>2, UniqueLists
  <2> QED BY <2>1 DEF Lists!Extended, Lists!ExtendedStrings
<1>4. Len(a) > limit => SubSeq(a, Len(a) - limit + 1, Len(a)) \in Seq(S)
  OBVIOUS
<1>5. Lists!KeepTail(a, limit) \in Seq(S)
  <2>1. Len(a) <= limit \/ Len(a) > limit
    OBVIOUS
  <2> QED BY <1>4, <2>1 DEF Lists!KeepTail
<1> QED BY <1>3, <1>5
-----------------------------------------------------------------------------
(* Tables, whose fields may be absent. *)

ProductFields == {"uid", "uids", "title", "prices", "solds", "stocks", "comment_count", "offers", "countries",
                  "first_found_at", "last_found_at", "evicted_at", "available"}
OfferFields == {"uid", "uids", "name", "addresses", "contacts", "member_since", "sold", "comment_count",
                "first_found_at", "last_found_at", "evicted_at", "hostnames", "tracking_ids", "has_paypal"}
TrackingFields == {"gtm", "script_urls"}
Texts == {"uid", "title", "name"}
ItemLists == {"uids", "prices", "solds", "stocks", "offers", "countries", "addresses", "contacts", "hostnames",
          "tracking_ids", "gtm", "script_urls"}
Amounts == {"comment_count", "sold", "member_since", "first_found_at", "last_found_at", "evicted_at"}
Flags == {"available", "has_paypal"}
Fields == ProductFields \cup OfferFields \cup TrackingFields

\* What a field is when it is empty.
Empty == [f \in Fields |-> CASE f \in Texts -> "" [] f \in ItemLists -> <<>> [] f \in Amounts -> 0 [] OTHER -> FALSE]

\* The field of a table, a missing one being empty.
Field(t, f) == IF f \in DOMAIN t THEN t[f] ELSE Empty[f]

\* A field is as it was, or as absent.
Untouched(t, u, f) == (f \in DOMAIN u <=> f \in DOMAIN t) /\ (f \in DOMAIN u => u[f] = t[f])

\* One field of a table is set, the others stay.
SetsField(t, u, f, v) ==
    /\ Field(u, f) = v
    /\ \A g \in Fields \ {f} : Untouched(t, u, g)

\* A field of a document is carried by its table unless it is empty.
Carries(e, d, f) == Field(e, f) = d[f]

\* The empty fields.
LEMMA Empties ==
    /\ \A f \in Texts : f \in Fields /\ Empty[f] = ""
    /\ \A f \in ItemLists : f \in Fields /\ Empty[f] = <<>>
    /\ \A f \in Amounts : f \in Fields /\ Empty[f] = 0
    /\ \A f \in Flags : f \in Fields /\ Empty[f] = FALSE
    /\ DOMAIN Product!Nothing = ProductFields /\ \A f \in ProductFields : Product!Nothing[f] = Empty[f]
    /\ DOMAIN Offer!Nothing = OfferFields /\ \A f \in OfferFields : Offer!Nothing[f] = Empty[f]
    /\ DOMAIN Offer!NoTracking = TrackingFields /\ \A f \in TrackingFields : Offer!NoTracking[f] = Empty[f]
<1>1. /\ \A f \in Texts : f \in Fields /\ Empty[f] = ""
      /\ \A f \in ItemLists : f \in Fields /\ Empty[f] = <<>>
      /\ \A f \in Amounts : f \in Fields /\ Empty[f] = 0
      /\ \A f \in Flags : f \in Fields /\ Empty[f] = FALSE
  BY DEF Empty, Fields, ProductFields, OfferFields, TrackingFields, Texts, ItemLists, Amounts, Flags
<1>2. DOMAIN Product!Nothing = ProductFields /\ \A f \in ProductFields : Product!Nothing[f] = Empty[f]
  <2>1. /\ DOMAIN Product!Nothing = ProductFields
        /\ \A f \in {"uid", "title"} : Product!Nothing[f] = ""
        /\ \A f \in {"comment_count", "first_found_at", "last_found_at", "evicted_at"} : Product!Nothing[f] = 0
        /\ \A f \in {"available"} : Product!Nothing[f] = FALSE
        /\ \A f \in {"uids", "prices", "solds", "stocks", "offers", "countries"} : Product!Nothing[f] = <<>>
    BY DEF Product!Nothing, Product!NoTime, ProductFields
  <2>2. {"uid", "title"} \subseteq Texts
    BY DEF Texts
  <2>3. {"comment_count", "first_found_at", "last_found_at", "evicted_at"} \subseteq Amounts
    BY DEF Amounts
  <2>4. {"available"} \subseteq Flags
    BY DEF Flags
  <2>5. {"uids", "prices", "solds", "stocks", "offers", "countries"} \subseteq ItemLists
    BY DEF ItemLists
  <2> QED BY <1>1, <2>1, <2>2, <2>3, <2>4, <2>5 DEF ProductFields
<1>3. DOMAIN Offer!Nothing = OfferFields /\ \A f \in OfferFields : Offer!Nothing[f] = Empty[f]
  <2>1. /\ DOMAIN Offer!Nothing = OfferFields
        /\ \A f \in {"uid", "name"} : Offer!Nothing[f] = ""
        /\ \A f \in {"member_since", "sold", "comment_count", "first_found_at", "last_found_at", "evicted_at"} : Offer!Nothing[f] = 0
        /\ \A f \in {"has_paypal"} : Offer!Nothing[f] = FALSE
        /\ \A f \in {"uids", "addresses", "contacts", "hostnames", "tracking_ids"} : Offer!Nothing[f] = <<>>
    BY DEF Offer!Nothing, Offer!NoTime, OfferFields
  <2>2. {"uid", "name"} \subseteq Texts
    BY DEF Texts
  <2>3. {"member_since", "sold", "comment_count", "first_found_at", "last_found_at", "evicted_at"} \subseteq Amounts
    BY DEF Amounts
  <2>4. {"has_paypal"} \subseteq Flags
    BY DEF Flags
  <2>5. {"uids", "addresses", "contacts", "hostnames", "tracking_ids"} \subseteq ItemLists
    BY DEF ItemLists
  <2> QED BY <1>1, <2>1, <2>2, <2>3, <2>4, <2>5 DEF OfferFields
<1>4. DOMAIN Offer!NoTracking = TrackingFields /\ \A f \in TrackingFields : Offer!NoTracking[f] = Empty[f]
  <2>1. /\ DOMAIN Offer!NoTracking = TrackingFields
        /\ \A f \in {"gtm", "script_urls"} : Offer!NoTracking[f] = <<>>
    BY DEF Offer!NoTracking, TrackingFields
  <2>2. {"gtm", "script_urls"} \subseteq ItemLists
    BY DEF ItemLists
  <2> QED BY <1>1, <2>1, <2>2 DEF TrackingFields
<1> QED BY <1>1, <1>2, <1>3, <1>4

\* Setting a field.
LEMMA WithSets ==
    ASSUME NEW t, NEW f, NEW v
    PROVE  SetsField(t, Lists!With(t, f, v), f, v) /\ f \in DOMAIN Lists!With(t, f, v)
<1> DEFINE u == Lists!With(t, f, v)
<1>1. u = [g \in DOMAIN t \cup {f} |-> IF g = f THEN v ELSE t[g]]
  BY DEF Lists!With
<1> HIDE DEF u
<1>2. DOMAIN u = DOMAIN t \cup {f} /\ \A g \in DOMAIN u : u[g] = IF g = f THEN v ELSE t[g]
  BY <1>1
<1>3. SetsField(t, u, f, v) /\ f \in DOMAIN u
  BY <1>2 DEF SetsField, Field, Untouched
<1> QED BY <1>3 DEF u

\* Leaving it.
LEMMA KeepsField ==
    ASSUME NEW t, NEW f
    PROVE  SetsField(t, t, f, Field(t, f))
BY DEF SetsField, Untouched

\* Setting it twice.
LEMMA SetsTwice ==
    ASSUME NEW t, NEW u, NEW w, NEW f, NEW a, NEW b, SetsField(t, u, f, a), SetsField(u, w, f, b)
    PROVE  SetsField(t, w, f, b)
BY DEF SetsField, Untouched

\* What a field is, with a default.
LEMMA GetsField ==
    \A t :
          /\ \A f \in Texts : Lists!Get(t, f, "") = Field(t, f)
          /\ \A f \in ItemLists : Lists!Get(t, f, <<>>) = Field(t, f)
          /\ \A f \in Amounts : Lists!Get(t, f, 0) = Field(t, f)
          /\ \A f \in Flags : Lists!Get(t, f, FALSE) = Field(t, f)
BY Empties DEF Lists!Get, Lists!Has, Field

\* Helpers for texts and numbers.
LEMMA ScalarHelpers ==
    ASSUME NEW t, NEW e, NEW d, NEW f, Carries(e, d, f)
    PROVE  /\ f \in Texts =>
                SetsField(t, Lists!replace_nonempty_string(t, e, f), f, Lists!Replaced(Field(t, f), d[f], ""))
           /\ f \in Amounts =>
                SetsField(t, Lists!replace_nonzero(t, e, f), f, Lists!Replaced(Field(t, f), d[f], 0))
           /\ f \in Amounts /\ (f \in DOMAIN e => d[f] # 0) =>
                SetsField(t, Lists!replace_present(t, e, f), f, Lists!Replaced(Field(t, f), d[f], 0))
<1>1. f \in DOMAIN e => e[f] = d[f]
  BY DEF Carries, Field
<1>2. f \notin DOMAIN e => d[f] = Empty[f]
  BY DEF Carries, Field
<1>3. ASSUME f \in Texts
      PROVE  SetsField(t, Lists!replace_nonempty_string(t, e, f), f, Lists!Replaced(Field(t, f), d[f], ""))
  <2>1. Lists!Get(e, f, "") = d[f] /\ (d[f] # "" => e[f] = d[f])
    BY <1>1, <1>2, <1>3, Empties DEF Lists!Get, Lists!Has
  <2> QED BY <2>1, WithSets, KeepsField DEF Lists!replace_nonempty_string, Lists!Replaced
<1>4. ASSUME f \in Amounts
      PROVE  SetsField(t, Lists!replace_nonzero(t, e, f), f, Lists!Replaced(Field(t, f), d[f], 0))
  <2>1. Lists!Get(e, f, 0) = d[f] /\ (d[f] # 0 => e[f] = d[f])
    BY <1>1, <1>2, <1>4, Empties DEF Lists!Get, Lists!Has
  <2> QED BY <2>1, WithSets, KeepsField DEF Lists!replace_nonzero, Lists!Replaced
<1>5. ASSUME f \in Amounts, f \in DOMAIN e => d[f] # 0
      PROVE  SetsField(t, Lists!replace_present(t, e, f), f, Lists!Replaced(Field(t, f), d[f], 0))
  <2>1. (f \in DOMAIN e <=> d[f] # 0) /\ (d[f] # 0 => e[f] = d[f])
    BY <1>1, <1>2, <1>5, Empties
  <2> QED BY <2>1, WithSets, KeepsField DEF Lists!replace_present, Lists!Replaced, Lists!Has
<1> QED BY <1>3, <1>4, <1>5

\* Helpers for lists.
LEMMA ListHelpers ==
    ASSUME NEW t, NEW e, NEW d, NEW f \in ItemLists, Carries(e, d, f), Lists!IsList(d[f])
    PROVE  /\ Lists!HasItems(e, f) <=> d[f] # <<>>
           /\ SetsField(t, Lists!replace_nonempty_array(t, e, f), f, Lists!Replaced(Field(t, f), d[f], <<>>))
           /\ SetsField(t, Lists!deduplicate(t, e, f, Lists!OwnKey), f, Lists!Extended(Field(t, f), d[f], Lists!OwnKey))
           /\ SetsField(t, Lists!union_strings(t, e, f), f, Lists!ExtendedStrings(Field(t, f), d[f]))
<1>1. f \in DOMAIN e => e[f] = d[f]
  BY DEF Carries, Field
<1>2. f \notin DOMAIN e => d[f] = <<>>
  BY Empties DEF Carries, Field
<1>3. Len(d[f]) > 0 <=> d[f] # <<>>
  <2>1. PICK S : d[f] \in Seq(S)
    BY DEF Lists!IsList
  <2> QED BY <2>1, EmptySeq
<1>4. (Lists!HasItems(e, f) <=> d[f] # <<>>) /\ (d[f] # <<>> => e[f] = d[f])
  BY <1>1, <1>2, <1>3 DEF Lists!HasItems, Lists!Has
<1>5. Lists!Get(t, f, <<>>) = Field(t, f)
  BY Empties DEF Lists!Get, Lists!Has, Field
<1>6. SetsField(t, Lists!replace_nonempty_array(t, e, f), f, Lists!Replaced(Field(t, f), d[f], <<>>))
  BY <1>4, WithSets, KeepsField DEF Lists!replace_nonempty_array, Lists!Replaced
<1>7. SetsField(t, Lists!deduplicate(t, e, f, Lists!OwnKey), f, Lists!Extended(Field(t, f), d[f], Lists!OwnKey))
  BY <1>4, <1>5, WithSets, KeepsField DEF Lists!deduplicate, Lists!Extended
<1>8. SetsField(t, Lists!union_strings(t, e, f), f, Lists!ExtendedStrings(Field(t, f), d[f]))
  BY <1>4, <1>5, WithSets, KeepsField DEF Lists!union_strings, Lists!ExtendedStrings
<1> QED BY <1>4, <1>6, <1>7, <1>8

\* A list within its limit is kept, and so is one that is cut to it.
LEMMA TailSets ==
    ASSUME NEW t, NEW f \in ItemLists, NEW limit \in Nat \ {0}, NEW S, NEW r \in Seq(S), Field(t, f) = r
    PROVE  SetsField(t, Lists!keep_tail(t, f, limit), f, Lists!KeepTail(r, limit))
<1>1. f \in Fields /\ Empty[f] = <<>>
  BY Empties
<1>2. CASE f \in DOMAIN t /\ Len(t[f]) > limit
  <2>1. t[f] = r
    BY <1>2 DEF Field
  <2> QED BY <1>2, <2>1, WithSets DEF Lists!keep_tail, Lists!Has
<1>3. CASE ~(f \in DOMAIN t /\ Len(t[f]) > limit)
  <2>1. f \in DOMAIN t => t[f] = r
    BY DEF Field
  <2>2. f \notin DOMAIN t => r = <<>>
    BY <1>1 DEF Field
  <2>3. Len(r) <= limit
    BY <1>3, <2>1, <2>2
  <2>4. Lists!KeepTail(r, limit) = Field(t, f)
    BY <2>3 DEF Lists!KeepTail
  <2> QED BY <1>3, <2>4, KeepsField DEF Lists!keep_tail, Lists!Has
<1> QED BY <1>2, <1>3

\* A merge of p in progress, of which m is the result: of the fields in F, those
\* in D are merged, the others as they were.
Progress(F, t, u, p, m, D) ==
    /\ \A f \in F : Field(u, f) = IF f \in D THEN m[f] ELSE p[f]
    /\ \A f \in Fields \ D : Untouched(t, u, f)

\* One field further.
LEMMA Advance ==
    ASSUME NEW F \in SUBSET Fields, NEW t, NEW u, NEW w, NEW p, NEW m, NEW D, Progress(F, t, u, p, m, D),
           NEW f, NEW v, SetsField(u, w, f, v), f \in F => v = m[f]
    PROVE  Progress(F, t, w, p, m, D \cup {f})
<1>1. \A g \in Fields \ {f} : Field(w, g) = Field(u, g)
  BY DEF SetsField, Untouched, Field
<1> QED BY <1>1 DEF Progress, SetsField, Untouched

\* The times of the merged document, first seen at p's time.
MergedTimes(p, d, m, at) ==
    /\ m.first_found_at = IF p.first_found_at # 0 THEN p.first_found_at
                          ELSE Lists!Replaced(at, d.first_found_at, 0)
    /\ m.last_found_at = at
    /\ m.evicted_at = Lists!Replaced(p.evicted_at, d.evicted_at, 0)

\* A time a table has is not zero.
Seen(t) == "first_found_at" \in DOMAIN t => t["first_found_at"] # 0

\* The times.
LEMMA TimesAdvance ==
    ASSUME NEW F \in SUBSET Fields, NEW t, NEW c, NEW p, NEW m, NEW D, Progress(F, t, c, p, m, D),
           {"first_found_at", "last_found_at", "evicted_at"} \subseteq F \ D,
           NEW e, NEW d, NEW at, at # 0, Seen(t), MergedTimes(p, d, m, at),
           \A f \in {"first_found_at", "evicted_at"} : Carries(e, d, f) /\ (f \in DOMAIN e => d[f] # 0)
    PROVE  /\ Progress(F, t, Lists!merge_times(c, e, at), p, m, D \cup {"last_found_at", "first_found_at", "evicted_at"})
           /\ Seen(Lists!merge_times(c, e, at))
<1> DEFINE seen == Lists!With(c, "last_found_at", at)
           first == IF Lists!Has(seen, "first_found_at") THEN seen
                    ELSE Lists!With(seen, "first_found_at", Lists!Get(e, "first_found_at", at))
           u == Lists!merge_times(c, e, at)
<1>1. u = Lists!replace_present(first, e, "evicted_at")
  BY DEF Lists!merge_times
<1>2. Progress(F, t, seen, p, m, D \cup {"last_found_at"})
  <2>1. SetsField(c, seen, "last_found_at", m.last_found_at)
    BY WithSets DEF MergedTimes
  <2> HIDE DEF seen
  <2> QED BY <2>1, Advance
<1>3. SetsField(seen, first, "first_found_at", m.first_found_at) /\ Seen(first)
  <2> HIDE DEF seen
  <2>1. Untouched(t, seen, "first_found_at") /\ Field(seen, "first_found_at") = p.first_found_at
    BY <1>2 DEF Progress
  <2>2. CASE "first_found_at" \in DOMAIN seen
    <3>1. seen["first_found_at"] # 0 /\ seen["first_found_at"] = p.first_found_at
      BY <2>1, <2>2 DEF Untouched, Field, Seen
    <3>2. first = seen /\ m.first_found_at = p.first_found_at
      BY <2>2, <3>1 DEF MergedTimes, Lists!Has
    <3> QED BY <2>1, <3>1, <3>2, KeepsField DEF Seen
  <2>3. CASE "first_found_at" \notin DOMAIN seen
    <3>1. p.first_found_at = 0
      BY <2>1, <2>3, Empties DEF Field, Amounts
    <3>2. m.first_found_at = Lists!Get(e, "first_found_at", at)
      BY <3>1, Empties DEF MergedTimes, Lists!Get, Lists!Has, Lists!Replaced, Carries, Field, Amounts
    <3>3. m.first_found_at # 0
      BY <3>1 DEF MergedTimes, Lists!Replaced
    <3>4. first = Lists!With(seen, "first_found_at", m.first_found_at)
      BY <2>3, <3>2 DEF Lists!Has
    <3>5. SetsField(seen, first, "first_found_at", m.first_found_at) /\ "first_found_at" \in DOMAIN first
      <4> HIDE DEF first
      <4> QED BY <3>4, WithSets
    <3>6. "first_found_at" \in Fields
      BY Empties DEF Amounts
    <3> HIDE DEF first
    <3> QED BY <3>3, <3>5, <3>6 DEF SetsField, Seen, Field
  <2> QED BY <2>2, <2>3
<1> HIDE DEF seen, first, u
<1>4. Progress(F, t, first, p, m, (D \cup {"last_found_at"}) \cup {"first_found_at"})
  BY <1>2, <1>3, Advance
<1>5. SetsField(first, u, "evicted_at", m.evicted_at)
  <2>1. Field(first, "evicted_at") = p.evicted_at
    BY <1>4 DEF Progress
  <2>2. SetsField(first, u, "evicted_at", Lists!Replaced(Field(first, "evicted_at"), d["evicted_at"], 0))
    BY <1>1, ScalarHelpers DEF Amounts
  <2> QED BY <2>1, <2>2 DEF MergedTimes
<1>6. Progress(F, t, u, p, m, ((D \cup {"last_found_at"}) \cup {"first_found_at"}) \cup {"evicted_at"})
  BY <1>4, <1>5, Advance
<1>7. ((D \cup {"last_found_at"}) \cup {"first_found_at"}) \cup {"evicted_at"}
         = D \cup {"last_found_at", "first_found_at", "evicted_at"}
  OBVIOUS
<1>8. Seen(u)
  <2>1. "first_found_at" \in Fields
    BY Empties DEF Amounts
  <2> QED BY <1>3, <1>5, <2>1 DEF Seen, SetsField, Untouched
<1>9. Progress(F, t, u, p, m, D \cup {"last_found_at", "first_found_at", "evicted_at"})
  BY <1>6, <1>7
<1> QED BY <1>8, <1>9 DEF u

-----------------------------------------------------------------------------
(* Products, in Go and in Lua. *)

AliasLaw(a, b, u, v) ==
    \A own, new :
       own = (IF u # "" THEN <<u>> ELSE <<>>) /\ new = (IF v # "" THEN <<v>> ELSE <<>>) =>
          Lists!Nonempty(Lists!UniqueStrings(a \o own \o new \o b))
             = Lists!UniqueStrings(Lists!Nonempty(a \o <<u, v>> \o b))

\* The aliases of a document: empty names are left out before or after.
LEMMA AliasesAgree ==
    ASSUME NEW S, NEW a \in Seq(S), NEW b \in Seq(S), NEW u \in S, NEW v \in S
    PROVE  AliasLaw(a, b, u, v)
<1>o. SUFFICES ASSUME NEW own, NEW new, own = (IF u # "" THEN <<u>> ELSE <<>>), new = (IF v # "" THEN <<v>> ELSE <<>>)
             PROVE  Lists!Nonempty(Lists!UniqueStrings(a \o own \o new \o b))
                       = Lists!UniqueStrings(Lists!Nonempty(a \o <<u, v>> \o b))
  BY DEF AliasLaw
<1> DEFINE N(q) == Lists!Nonempty(q)
<1>1. own \in Seq(S) /\ new \in Seq(S) /\ <<u>> \in Seq(S) /\ <<v>> \in Seq(S) /\ <<u, v>> = <<u>> \o <<v>>
  <2>1. <<u>> \in Seq(S) /\ <<v>> \in Seq(S) /\ <<>> \in Seq(S)
    OBVIOUS
  <2>2. own \in Seq(S) /\ new \in Seq(S)
    BY <1>o, <2>1
  <2>3. <<u, v>> = Append(<<u>>, v) /\ Append(<<u>>, v) = <<u>> \o <<v>>
    <3>1. <<u, v>> = Append(<<u>>, v)
      OBVIOUS
    <3>2. \A q \in Seq(S) : Append(q, v) = q \o <<v>>
      BY AppendIsConcat
    <3> QED BY ONLY <2>1, <3>1, <3>2, Zenon
  <2> QED BY <2>1, <2>2, <2>3
<1>2. \A x \in S : N(<<x>>) = IF x = "" THEN <<>> ELSE <<x>>
  <2>1. ASSUME NEW x \in S PROVE N(<<x>>) = IF x = "" THEN <<>> ELSE <<x>>
    <3>1. <<>> \in Seq(S) /\ Append(<<>>, x) = <<x>>
      OBVIOUS
    <3>2. N(Append(<<>>, x)) = IF x = "" THEN N(<<>>) ELSE Append(N(<<>>), x)
      BY <3>1, NonemptyAppend
    <3>3. N(<<>>) = <<>>
      BY ChosenNone DEF Lists!Nonempty
    <3> QED BY <3>1, <3>2, <3>3
  <2> QED BY <2>1
<1>3. \A q \in Seq(S) : \A r \in Seq(S) : N(q \o r) = N(q) \o N(r)
  BY NonemptyConcat
<1>4. N(<<>>) = <<>>
  BY ChosenNone DEF Lists!Nonempty
<1> HIDE DEF N
<1>5. N(own) = N(<<u>>) /\ N(new) = N(<<v>>)
  BY <1>o, <1>2, <1>4
<1>6. a \o own \in Seq(S) /\ a \o own \o new \in Seq(S) /\ a \o own \o new \o b \in Seq(S)
  BY <1>1
<1>7. N(a \o own \o new \o b) = ((N(a) \o N(own)) \o N(new)) \o N(b)
  <2>1. N((a \o own \o new) \o b) = N(a \o own \o new) \o N(b)
    BY ONLY <1>3, <1>6, b \in Seq(S), Zenon
  <2>2. N((a \o own) \o new) = N(a \o own) \o N(new)
    BY ONLY <1>1, <1>3, <1>6, Zenon
  <2>3. N(a \o own) = N(a) \o N(own)
    BY ONLY <1>1, <1>3, a \in Seq(S), Zenon
  <2> QED BY ONLY <2>1, <2>2, <2>3, Zenon
<1>8. <<u, v>> \in Seq(S) /\ a \o <<u, v>> \in Seq(S) /\ a \o <<u, v>> \o b \in Seq(S)
  OBVIOUS
<1>9. N(a \o <<u, v>> \o b) = (N(a) \o N(<<u, v>>)) \o N(b) /\ N(<<u, v>>) = N(<<u>>) \o N(<<v>>)
  <2>1. N((a \o <<u, v>>) \o b) = N(a \o <<u, v>>) \o N(b)
    BY ONLY <1>3, <1>8, b \in Seq(S), Zenon
  <2>2. N(a \o <<u, v>>) = N(a) \o N(<<u, v>>)
    BY ONLY <1>3, <1>8, a \in Seq(S), Zenon
  <2>3. N(<<u>> \o <<v>>) = N(<<u>>) \o N(<<v>>)
    BY ONLY <1>1, <1>3, Zenon
  <2>4. N(<<u, v>>) = N(<<u>>) \o N(<<v>>)
    BY ONLY <2>3, <1>1, Zenon
  <2> QED BY ONLY <2>1, <2>2, <2>4, Zenon
<1>10. N(a) \in Seq(S) /\ N(<<u>>) \in Seq(S) /\ N(<<v>>) \in Seq(S)
  BY <1>1, ChosenType DEF N, Lists!Nonempty
<1>11. N(a) \o (N(<<u>>) \o N(<<v>>)) = (N(a) \o N(<<u>>)) \o N(<<v>>)
  BY <1>10, ConcatAssociative, SMTT(60)
<1>12. N(a \o own \o new \o b) = N(a \o <<u, v>> \o b)
  BY <1>5, <1>7, <1>9, <1>11
<1> DEFINE all == a \o own \o new \o b
           kept == a \o <<u, v>> \o b
<1>13. all \in Seq(S) /\ kept \in Seq(S) /\ N(all) = N(kept)
  BY <1>6, <1>8, <1>12
<1>14. N(kept) \in Seq(S)
  BY <1>13, ChosenType DEF N, Lists!Nonempty
<1> HIDE DEF all, kept
<1>15. Lists!Nonempty(Lists!UniqueStrings(all)) = N(UniqueBy(all, Itself(S)))
  <2>1. UniqueBy(all, Itself(S)) \in Seq(S)
    BY <1>13, UniqueFacts
  <2> QED BY <1>13, <2>1, UniqueLists DEF N
<1>16. N(UniqueBy(all, Itself(S))) = UniqueBy(N(all), Itself(S))
  BY <1>13, NonemptyUnique DEF N
<1>17. Lists!UniqueStrings(Lists!Nonempty(kept)) = UniqueBy(N(kept), Itself(S))
  BY <1>13, <1>14, UniqueLists DEF N
<1>18. Lists!Nonempty(Lists!UniqueStrings(all)) = Lists!UniqueStrings(Lists!Nonempty(kept))
  BY <1>13, <1>15, <1>16, <1>17
<1> QED BY <1>18 DEF all, kept

\* The reference merge, if the program's texts told its stocks apart.
TextStocks(a, b) == Lists!KeepTail(Product!Extended(a, b, Product!stock_key), HistoryLimit)
TextMergeAt(p, d, at) == [Product!MergeAt(p, d, at) EXCEPT !.stocks = TextStocks(p.stocks, d.stocks)]
TextMerge(c, d, at) ==
    LET base == IF c = <<>> THEN Product!Nothing ELSE TextMergeAt(Product!Nothing, c, at)
    IN [TextMergeAt(base, d, at) EXCEPT !.evicted_at = 0]

\* What both keys make of stocks.
KeysOn(S) == [x \in S |-> Product!productStockKey(x)]
TextsOn(S) == [x \in S |-> Product!stock_key(x)]

LEMMA StockLists ==
    ASSUME NEW S, NEW s \in Seq(S)
    PROVE  /\ Product!UniqueItems(s, Product!productStockKey) = UniqueBy(s, KeysOn(S))
           /\ Product!UniqueItems(s, Product!stock_key) = UniqueBy(s, TextsOn(S))
<1>1. \A i \in 1..Len(s) : KeysOn(S)[s[i]] = Product!productStockKey(s[i]) /\ TextsOn(S)[s[i]] = Product!stock_key(s[i])
  BY DEF KeysOn, TextsOn
<1>2. [i \in 1..Len(s) |-> Product!productStockKey(s[i])] = [i \in 1..Len(s) |-> KeysOn(S)[s[i]]]
  BY <1>1
<1>3. [i \in 1..Len(s) |-> Product!stock_key(s[i])] = [i \in 1..Len(s) |-> TextsOn(S)[s[i]]]
  BY <1>1
<1>4. Product!UniqueItems(s, Product!productStockKey) = UniqueBy(s, KeysOn(S))
  BY <1>2, SharedLists DEF Product!UniqueItems, Product!KeysOf, UniqueBy
<1>5. Product!UniqueItems(s, Product!stock_key) = UniqueBy(s, TextsOn(S))
  BY <1>3, SharedLists DEF Product!UniqueItems, Product!KeysOf, UniqueBy
<1> QED BY <1>4, <1>5

\* Lists of stocks stay lists of them.
LEMMA TextsTyped ==
    ASSUME NEW S, NEW a \in Seq(S), NEW b \in Seq(S)
    PROVE  /\ Product!Extended(a, b, Product!stock_key) \in Seq(S)
           /\ Product!Extended(a, b, Product!productStockKey) \in Seq(S)
           /\ TextStocks(a, b) \in Seq(S) /\ Product!MergedStocks(a, b) \in Seq(S)
<1>1. PICK r \in Seq(S) : r = a \o b
  <2>1. a \o b \in Seq(S)
    OBVIOUS
  <2> QED BY <2>1
<1>2. UniqueBy(r, TextsOn(S)) \in Seq(S) /\ UniqueBy(r, KeysOn(S)) \in Seq(S)
  BY UniqueFacts
<1>3. Product!UniqueItems(r, Product!stock_key) \in Seq(S) /\ Product!UniqueItems(r, Product!productStockKey) \in Seq(S)
  BY <1>2, StockLists
<1>4. Product!Extended(a, b, Product!stock_key) \in Seq(S)
  BY <1>1, <1>3 DEF Product!Extended
<1>5. Product!Extended(a, b, Product!productStockKey) \in Seq(S)
  BY <1>1, <1>3 DEF Product!Extended
<1>6. \A q \in Seq(S) : Lists!KeepTail(q, HistoryLimit) \in Seq(S)
  BY ReplayLimits, ListTypes
<1>7. Product!MergedStocks(a, b) = Lists!KeepTail(Product!Extended(a, b, Product!productStockKey), HistoryLimit)
  BY SharedLists DEF Product!MergedStocks
<1> QED BY <1>4, <1>5, <1>6, <1>7 DEF TextStocks

\* Keys that tell the same items apart leave the same ones.
LEMMA SameDistinctions ==
    ASSUME NEW S, NEW s \in Seq(S), NEW k, NEW l, \A x, y \in S : k[x] = k[y] <=> l[x] = l[y]
    PROVE  UniqueBy(s, k) = UniqueBy(s, l)
<1> DEFINE a == [i \in 1..Len(s) |-> k[s[i]]]
           b == [i \in 1..Len(s) |-> l[s[i]]]
<1>1. \A i \in 1..Len(s) : s[i] \in S
  OBVIOUS
<1>2. DOMAIN a = 1..Len(s) /\ DOMAIN b = 1..Len(s) /\ \A i \in 1..Len(s) : a[i] = k[s[i]] /\ b[i] = l[s[i]]
  OBVIOUS
<1>3. \A i, j \in 1..Len(s) : a[i] = a[j] <=> b[i] = b[j]
  BY <1>1, <1>2
<1>4. \A i \in 1..Len(s) : 1..(i - 1) \subseteq 1..Len(s)
  <2>1. Len(s) \in Nat
    OBVIOUS
  <2> QED BY <2>1
<1> HIDE DEF a, b
<1>5. Lists!Firsts(a) = Lists!Firsts(b)
  BY <1>2, <1>3, <1>4 DEF Lists!Firsts
<1> QED BY <1>5 DEF UniqueBy, Lists!Unique, a, b

\* The types of what the reference merge computes.
LEMMA ProductTypes ==
    ASSUME NEW p, Product!IsDocument(p), NEW d, Product!IsDocument(d), NEW at
    PROVE  Product!IsDocument(Product!MergeAt(p, d, at))
<1> DEFINE m == Product!MergeAt(p, d, at)
<1>1. m = [f \in DOMAIN Product!Nothing |-> m[f]]
  BY DEF Product!MergeAt, Product!Nothing
<1>2. \A f \in {"uids", "prices", "solds", "stocks", "offers", "countries"} : Lists!IsList(p[f]) /\ Lists!IsList(d[f])
  BY SharedLists DEF Product!IsDocument
<1>l. HistoryLimit \in Nat \ {0} /\ OfferLimit \in Nat \ {0}
  BY ReplayLimits
<1>3. Lists!IsList(m.uids)
  <2> DEFINE list == Lists!Nonempty(p.uids \o <<p.uid, d.uid>> \o d.uids)
  <2>1. PICK R : p.uids \in Seq(R) /\ d.uids \in Seq(R)
    BY <1>2, CommonItems
  <2> DEFINE S == R \cup {p.uid, d.uid}
  <2>2. R \subseteq S /\ p.uid \in S /\ d.uid \in S
    OBVIOUS
  <2> HIDE DEF S
  <2>3. p.uids \in Seq(S) /\ d.uids \in Seq(S) /\ <<p.uid, d.uid>> \in Seq(S)
    BY <2>1, <2>2, SeqMonotonic
  <2>4. p.uids \o <<p.uid, d.uid>> \o d.uids \in Seq(S)
    BY <2>3
  <2>5. list \in Seq(S)
    BY <2>4, ChosenType DEF Lists!Nonempty
  <2> HIDE DEF list
  <2>6. Lists!UniqueStrings(list) \in Seq(S)
    BY <2>5, UniqueLists, UniqueFacts
  <2>7. m.uids = Lists!UniqueStrings(list)
    BY SharedLists DEF Product!MergeAt, list
  <2> HIDE DEF m
  <2> QED BY <2>6, <2>7, ItemsAreList
<1>4. Lists!IsList(m.prices)
  BY <1>2 DEF Product!MergeAt, Product!Replaced
<1>5. Lists!IsList(m.solds)
  <2>1. PICK S : p.solds \in Seq(S) /\ d.solds \in Seq(S)
    BY <1>2, CommonItems
  <2>2. Lists!KeepTail(Lists!Extended(p.solds, d.solds, Lists!OwnKey), HistoryLimit) \in Seq(S)
    BY <1>l, <2>1, ListTypes
  <2>3. m.solds = Lists!KeepTail(Lists!Extended(p.solds, d.solds, Lists!OwnKey), HistoryLimit)
    BY SharedLists DEF Product!MergeAt, Product!MergedSolds
  <2> HIDE DEF m
  <2> QED BY <2>2, <2>3, ItemsAreList
<1>9. Lists!IsList(m.stocks)
  <2>1. PICK S : p.stocks \in Seq(S) /\ d.stocks \in Seq(S)
    BY <1>2, CommonItems
  <2>2. Product!MergedStocks(p.stocks, d.stocks) \in Seq(S)
    BY <2>1, TextsTyped
  <2>3. m.stocks = Product!MergedStocks(p.stocks, d.stocks)
    BY DEF Product!MergeAt
  <2> HIDE DEF m
  <2> QED BY <2>2, <2>3, ItemsAreList
<1>6. Lists!IsList(m.offers)
  <2>1. PICK S : p.offers \in Seq(S) /\ d.offers \in Seq(S)
    BY <1>2, CommonItems
  <2>2. Product!MergedOffers(p.offers, d.offers) \in Seq(S)
    <3>1. /\ Lists!UniqueItems(d.offers \o p.offers, Lists!OwnKey) \in Seq(S) /\ Lists!KeepTail(p.offers, OfferLimit) \in Seq(S)
          /\ \A r \in Seq(S) : Lists!KeepTail(r, OfferLimit) \in Seq(S)
      BY <1>l, <2>1, ListTypes
    <3>2. Product!MergedOffers(p.offers, d.offers) =
             Lists!KeepTail(IF d.offers = <<>> THEN p.offers ELSE Lists!UniqueItems(d.offers \o p.offers, Lists!OwnKey), OfferLimit)
      BY SharedLists DEF Product!MergedOffers
    <3> QED BY <3>1, <3>2
  <2>3. m.offers = Product!MergedOffers(p.offers, d.offers)
    BY SharedLists DEF Product!MergeAt
  <2> HIDE DEF m
  <2> QED BY <2>2, <2>3, ItemsAreList
<1>7. Lists!IsList(m.countries)
  <2>1. PICK S : p.countries \in Seq(S) /\ d.countries \in Seq(S)
    BY <1>2, CommonItems
  <2>2. Lists!ExtendedStrings(p.countries, d.countries) \in Seq(S)
    BY <1>l, <2>1, ListTypes
  <2>3. m.countries = Lists!ExtendedStrings(p.countries, d.countries)
    BY SharedLists DEF Product!MergeAt
  <2> HIDE DEF m
  <2> QED BY <2>2, <2>3, ItemsAreList
<1> HIDE DEF m
<1>8. Product!IsDocument(m)
  BY <1>1, <1>3, <1>4, <1>5, <1>6, <1>7, <1>9, SharedLists DEF Product!IsDocument
<1> QED BY <1>8 DEF m

\* The same of the merge by texts.
LEMMA TextTypes ==
    ASSUME NEW p, Product!IsDocument(p), NEW d, Product!IsDocument(d), NEW at
    PROVE  Product!IsDocument(TextMergeAt(p, d, at))
<1> DEFINE m == Product!MergeAt(p, d, at)
           w == TextMergeAt(p, d, at)
<1>1. Product!IsDocument(m)
  BY ProductTypes
<1>2. Lists!IsList(TextStocks(p.stocks, d.stocks))
  <2>1. Lists!IsList(p.stocks) /\ Lists!IsList(d.stocks)
    BY SharedLists DEF Product!IsDocument
  <2>2. PICK S : p.stocks \in Seq(S) /\ d.stocks \in Seq(S)
    BY <2>1, CommonItems
  <2>3. TextStocks(p.stocks, d.stocks) \in Seq(S)
    BY <2>2, TextsTyped
  <2> QED BY <2>3, ItemsAreList
<1>3. w = [m EXCEPT !.stocks = TextStocks(p.stocks, d.stocks)]
  BY DEF TextMergeAt
<1>4. m = [f \in ProductFields |-> m[f]]
  BY <1>1, Empties DEF Product!IsDocument
<1> HIDE DEF m, w
<1>5. w = [f \in ProductFields |-> w[f]] /\ \A f \in ProductFields : w[f] = IF f = "stocks" THEN TextStocks(p.stocks, d.stocks) ELSE m[f]
  BY <1>3, <1>4
<1>6. \A f \in {"uids", "prices", "solds", "stocks", "offers", "countries"} : Lists!IsList(w[f])
  <2>1. \A f \in {"uids", "prices", "solds", "stocks", "offers", "countries"} : Lists!IsList(m[f])
    BY <1>1, SharedLists DEF Product!IsDocument
  <2>2. {"uids", "prices", "solds", "stocks", "offers", "countries"} \subseteq ProductFields
    BY DEF ProductFields
  <2> QED BY <1>2, <1>5, <2>1, <2>2
<1>7. Product!IsDocument(w)
  BY <1>5, <1>6, SharedLists, Empties DEF Product!IsDocument
<1> QED BY <1>7 DEF w

\* What is encoded of a product.
LEMMA EncodedProduct ==
    ASSUME NEW d, Product!IsDocument(d)
    PROVE  /\ \A f \in ProductFields : /\ Carries(Product!Encoded(d), d, f)
                                       /\ f # "uid" /\ f \in DOMAIN Product!Encoded(d) => d[f] # Empty[f]
           /\ \A f \in {"uids", "prices", "solds", "stocks", "offers", "countries"} : Lists!IsList(d[f])
<1> DEFINE e == Product!Encoded(d)
<1>1. e = [f \in {"uid"} \cup {g \in ProductFields : d[g] # Product!Nothing[g]} |-> d[f]]
  BY Empties DEF Product!Encoded, Product!Encode
<1> HIDE DEF e
<1>2. DOMAIN e = {"uid"} \cup {g \in ProductFields : d[g] # Product!Nothing[g]} /\ \A f \in DOMAIN e : e[f] = d[f]
  BY <1>1
<1>3. \A f \in ProductFields : Carries(e, d, f) /\ (f # "uid" /\ f \in DOMAIN e => d[f] # Empty[f])
  BY <1>2, Empties DEF Carries, Field
<1>4. \A f \in {"uids", "prices", "solds", "stocks", "offers", "countries"} : Lists!IsList(d[f])
  BY SharedLists DEF Product!IsDocument
<1> QED BY <1>3, <1>4 DEF e

\* A table stands for a product.
StandsForProduct(t, p) == Seen(t) /\ \A f \in ProductFields : Field(t, f) = p[f]

\* One merge of the program is one of the reference model, of which the texts
\* tell the stocks apart.
LEMMA ProductStep ==
    ASSUME NEW p, Product!IsDocument(p), NEW d, Product!IsDocument(d), NEW at, at # 0, NEW t, StandsForProduct(t, p)
    PROVE  StandsForProduct(Product!merge_one(t, Product!Encoded(d), at), TextMergeAt(p, d, at))
<1> DEFINE e == Product!Encoded(d)
           m == TextMergeAt(p, d, at)
           F == ProductFields
<1>e. /\ \A f \in F : Carries(e, d, f) /\ (f # "uid" /\ f \in DOMAIN e => d[f] # Empty[f])
      /\ \A f \in {"uids", "prices", "solds", "stocks", "offers", "countries"} : Lists!IsList(d[f]) /\ Lists!IsList(p[f])
  BY EncodedProduct
<1>f. /\ F = {"uid", "uids", "title", "prices", "solds", "stocks", "comment_count", "offers", "countries",
              "first_found_at", "last_found_at", "evicted_at", "available"}
      /\ F \subseteq Fields
      /\ \A f \in F : Field(t, f) = p[f]
  BY DEF ProductFields, StandsForProduct, Fields
<1>k. /\ {"uid", "title"} \subseteq Texts
      /\ {"uids", "prices", "solds", "stocks", "offers", "countries"} \subseteq ItemLists
      /\ {"comment_count", "first_found_at", "last_found_at", "evicted_at"} \subseteq Amounts
      /\ "available" \in Flags
  BY DEF Texts, ItemLists, Amounts, Flags
<1>s. \A x, f, v :
         /\ Product!Get(x, f, v) = Lists!Get(x, f, v)
         /\ Product!With(x, f, v) = Lists!With(x, f, v)
         /\ Product!HasItems(x, f) <=> Lists!HasItems(x, f)
         /\ Product!keep_tail(x, f, v) = Lists!keep_tail(x, f, v)
  BY SharedTables
<1> HIDE DEF e
<1> DEFINE c1 == Product!merge_uids(t, e)
           c2 == Product!replace_nonempty_string(c1, e, "title")
           c3 == Product!replace_nonempty_array(c2, e, "prices")
           c4 == Product!history(c3, e, "solds", Product!OwnKey, HistoryLimit)
           c5 == Product!history(c4, e, "stocks", Product!stock_key, HistoryLimit)
           c6 == Product!replace_nonzero(c5, e, "comment_count")
           c7 == Product!merge_offers(c6, e)
           c8 == Product!union_strings(c7, e, "countries")
           c9 == Product!merge_times(c8, e, at)
           c10 == Product!With(c9, "available", Product!Get(e, "available", FALSE))
<1>m. Product!merge_one(t, e, at) = c10
  BY DEF Product!merge_one
<1>v. /\ m.uid = Lists!Replaced(p.uid, d.uid, "")
      /\ m.uids = Lists!UniqueStrings(Lists!Nonempty(p.uids \o <<p.uid, d.uid>> \o d.uids))
      /\ m.title = Lists!Replaced(p.title, d.title, "")
      /\ m.prices = Lists!Replaced(p.prices, d.prices, <<>>)
      /\ m.solds = Lists!KeepTail(Lists!Extended(p.solds, d.solds, Lists!OwnKey), HistoryLimit)
      /\ m.stocks = TextStocks(p.stocks, d.stocks)
      /\ m.comment_count = Lists!Replaced(p.comment_count, d.comment_count, 0)
      /\ m.offers = Product!MergedOffers(p.offers, d.offers)
      /\ m.countries = Lists!ExtendedStrings(p.countries, d.countries)
      /\ MergedTimes(p, d, m, at)
      /\ m.available = d.available
  BY SharedLists DEF TextMergeAt, Product!MergeAt, Product!MergedSolds, Product!NoTime, MergedTimes
<1> HIDE DEF m, F
<1>a. HistoryLimit \in Nat \ {0} /\ OfferLimit \in Nat \ {0}
  BY ReplayLimits
<1>0. Progress(F, t, t, p, m, {})
  BY <1>f DEF Progress, Untouched
\* The aliases.
<1>1. Progress(F, t, c1, p, m, {"uids", "uid"})
  <2> DEFINE own == IF p.uid # "" THEN <<p.uid>> ELSE <<>>
             new == IF d.uid # "" THEN <<d.uid>> ELSE <<>>
             list == Lists!Nonempty(Lists!UniqueStrings(p.uids \o own \o new \o d.uids))
             kept == Lists!With(t, "uids", list)
  <2>1. Product!Get(t, "uid", "") = p.uid /\ (p.uid # "" => t["uid"] = p.uid) /\ Product!Get(t, "uids", <<>>) = p.uids
    <3>1. Lists!Get(t, "uid", "") = p.uid /\ Lists!Get(t, "uids", <<>>) = p.uids
      BY <1>f, <1>k, GetsField
    <3>2. p.uid # "" => t["uid"] = p.uid
      BY <1>f, <1>k, Empties DEF Field
    <3> QED BY <1>s, <3>1, <3>2
  <2>2. Product!Get(e, "uid", "") = d.uid /\ (d.uid # "" => e["uid"] = d.uid) /\ Product!Get(e, "uids", <<>>) = d.uids
    <3>1. Lists!Get(e, "uid", "") = d.uid /\ Lists!Get(e, "uids", <<>>) = d.uids
      BY <1>e, <1>f, <1>k, GetsField DEF Carries
    <3>2. d.uid # "" => e["uid"] = d.uid
      <4>1. "uid" \in F /\ Empty["uid"] = ""
        BY <1>f, <1>k, Empties
      <4>2. Field(e, "uid") = d["uid"]
        BY <1>e, <4>1 DEF Carries
      <4> QED BY <4>1, <4>2 DEF Field
    <3> QED BY <1>s, <3>1, <3>2
  <2>3. /\ (IF Product!Get(t, "uid", "") # "" THEN <<t.uid>> ELSE <<>>) = own
        /\ (IF Product!Get(e, "uid", "") # "" THEN <<e.uid>> ELSE <<>>) = new
        /\ new = <<>> <=> d.uid = ""
    BY <2>1, <2>2
  <2>4. Product!Nonempty(Product!UniqueStrings(p.uids \o own \o new \o d.uids)) = list
    BY SharedLists
  <2>5. list = m.uids
    <3>1. PICK R : p.uids \in Seq(R) /\ d.uids \in Seq(R)
      BY <1>e, CommonItems
    <3> DEFINE S == R \cup {p.uid, d.uid}
    <3>2. R \subseteq S /\ p.uid \in S /\ d.uid \in S
      OBVIOUS
    <3> HIDE DEF S
    <3>3. p.uids \in Seq(S) /\ d.uids \in Seq(S)
      BY <3>1, <3>2, SeqMonotonic
    <3>4. PICK a, b \in Seq(S), u, v \in S : a = p.uids /\ b = d.uids /\ u = p.uid /\ v = d.uid
      BY <3>2, <3>3
    <3>5. a \in Seq(S) /\ b \in Seq(S) /\ u \in S /\ v \in S
      OBVIOUS
    <3>6. AliasLaw(a, b, u, v)
      BY ONLY <3>5, AliasesAgree
    <3>7. PICK x, y : x = own /\ y = new
      OBVIOUS
    <3>8. x = (IF u # "" THEN <<u>> ELSE <<>>) /\ y = (IF v # "" THEN <<v>> ELSE <<>>)
      BY <3>4, <3>7
    <3>9. list = Lists!Nonempty(Lists!UniqueStrings(a \o x \o y \o b))
      BY <3>4, <3>7
    <3>10. m.uids = Lists!UniqueStrings(Lists!Nonempty(a \o <<u, v>> \o b))
      BY <1>v, <3>4
    <3> QED BY <3>6, <3>8, <3>9, <3>10 DEF AliasLaw
  <2>6. c1 = IF d.uid = "" THEN kept ELSE Lists!With(kept, "uid", d.uid)
    <3>1. Product!merge_uids(t, e) =
             IF new = <<>> THEN Product!With(t, "uids", list)
             ELSE Product!With(Product!With(t, "uids", list), "uid", e.uid)
      BY <2>1, <2>2, <2>3, <2>4 DEF Product!merge_uids
    <3> HIDE DEF own, new, list
    <3>2. Product!merge_uids(t, e) =
             IF new = <<>> THEN Lists!With(t, "uids", list) ELSE Lists!With(Lists!With(t, "uids", list), "uid", e.uid)
      BY <1>s, <3>1
    <3> QED BY <2>2, <2>3, <3>2
  <2>7. SetsField(t, kept, "uids", m.uids)
    BY <2>5, WithSets
  <2> HIDE DEF kept, list, own, new, c1
  <2>8. Progress(F, t, kept, p, m, {} \cup {"uids"})
    BY <1>0, <1>f, <2>7, Advance
  <2>9. SetsField(kept, c1, "uid", m.uid)
    <3>1. CASE d.uid = ""
      <4>1. c1 = kept /\ m.uid = p.uid
        BY <1>v, <2>6, <3>1 DEF Lists!Replaced
      <4>2. Field(kept, "uid") = p.uid
        BY <1>f, <2>8 DEF Progress
      <4> QED BY <4>1, <4>2, KeepsField
    <3>2. CASE d.uid # ""
      <4>1. c1 = Lists!With(kept, "uid", m.uid)
        BY <1>v, <2>6, <3>2 DEF Lists!Replaced
      <4> QED BY <4>1, WithSets
    <3> QED BY <3>1, <3>2
  <2>10. Progress(F, t, c1, p, m, ({} \cup {"uids"}) \cup {"uid"})
    BY <1>f, <2>8, <2>9, Advance
  <2>11. ({} \cup {"uids"}) \cup {"uid"} = {"uids", "uid"}
    OBVIOUS
  <2> QED BY <2>10, <2>11
<1> HIDE DEF c1
<1>2. Progress(F, t, c2, p, m, {"uids", "uid", "title"})
  <2>1. Field(c1, "title") = p.title
    BY <1>1, <1>f DEF Progress
  <2>2. c2 = Lists!replace_nonempty_string(c1, e, "title")
    BY SharedTables
  <2>3. SetsField(c1, Lists!replace_nonempty_string(c1, e, "title"), "title", Lists!Replaced(Field(c1, "title"), d["title"], ""))
    BY <1>e, <1>f, <1>k, ScalarHelpers
  <2>7. SetsField(c1, c2, "title", m.title)
    BY <1>v, <2>1, <2>2, <2>3
  <2> HIDE DEF c2
  <2>8. Progress(F, t, c2, p, m, {"uids", "uid"} \cup {"title"})
    BY <1>1, <1>f, <2>7, Advance
  <2>9. {"uids", "uid"} \cup {"title"} = {"uids", "uid", "title"}
    OBVIOUS
  <2> QED BY <2>8, <2>9
<1> HIDE DEF c2
<1>3. Progress(F, t, c3, p, m, {"uids", "uid", "title", "prices"})
  <2>1. Field(c2, "prices") = p.prices
    BY <1>2, <1>f DEF Progress
  <2>2. c3 = Lists!replace_nonempty_array(c2, e, "prices")
    BY SharedTables
  <2>3. SetsField(c2, Lists!replace_nonempty_array(c2, e, "prices"), "prices", Lists!Replaced(Field(c2, "prices"), d["prices"], <<>>))
    BY <1>e, <1>f, <1>k, ListHelpers
  <2>7. SetsField(c2, c3, "prices", m.prices)
    BY <1>v, <2>1, <2>2, <2>3
  <2> HIDE DEF c3
  <2>8. Progress(F, t, c3, p, m, {"uids", "uid", "title"} \cup {"prices"})
    BY <1>2, <1>f, <2>7, Advance
  <2>9. {"uids", "uid", "title"} \cup {"prices"} = {"uids", "uid", "title", "prices"}
    OBVIOUS
  <2> QED BY <2>8, <2>9
<1> HIDE DEF c3
<1>4. Progress(F, t, c4, p, m, {"uids", "uid", "title", "prices", "solds"})
  <2>1. Field(c3, "solds") = p.solds
    BY <1>3, <1>f DEF Progress
  <2> DEFINE x == Lists!deduplicate(c3, e, "solds", Lists!OwnKey)
             r == Lists!Extended(p.solds, d.solds, Lists!OwnKey)
  <2>2. SetsField(c3, x, "solds", r)
    <3>1. SetsField(c3, Lists!deduplicate(c3, e, "solds", Lists!OwnKey), "solds", Lists!Extended(Field(c3, "solds"), d["solds"], Lists!OwnKey))
      BY <1>e, <1>f, <1>k, ListHelpers
    <3> QED BY <2>1, <3>1
  <2>3. PICK S : p.solds \in Seq(S) /\ d.solds \in Seq(S)
    BY <1>e, CommonItems
  <2>4. r \in Seq(S)
    BY <1>a, <2>3, ListTypes
  <2>5. c4 = Lists!keep_tail(x, "solds", HistoryLimit) /\ Lists!KeepTail(r, HistoryLimit) = m.solds
    <3>1. c4 = Lists!keep_tail(x, "solds", HistoryLimit)
      BY <1>s, SharedLists, SharedTables DEF Product!history
    <3>2. Lists!KeepTail(r, HistoryLimit) = m.solds
      BY <1>v, SharedLists DEF Product!history
    <3> QED BY <3>1, <3>2
  <2> HIDE DEF x, r, c4
  <2>6. SetsField(x, c4, "solds", Lists!KeepTail(r, HistoryLimit))
    <3>1. Field(x, "solds") = r
      BY <2>2 DEF SetsField
    <3> QED BY <1>a, <1>k, <2>4, <2>5, <3>1, TailSets
  <2>7. SetsField(c3, c4, "solds", m.solds)
    BY <2>2, <2>5, <2>6, SetsTwice
  <2> HIDE DEF c4
  <2>8. Progress(F, t, c4, p, m, {"uids", "uid", "title", "prices"} \cup {"solds"})
    BY <1>3, <1>f, <2>7, Advance
  <2>9. {"uids", "uid", "title", "prices"} \cup {"solds"} = {"uids", "uid", "title", "prices", "solds"}
    OBVIOUS
  <2> QED BY <2>8, <2>9
<1> HIDE DEF c4
<1>5. Progress(F, t, c5, p, m, {"uids", "uid", "title", "prices", "solds", "stocks"})
  <2>1. Field(c4, "stocks") = p.stocks
    BY <1>4, <1>f DEF Progress
  <2> DEFINE x == Product!deduplicate(c4, e, "stocks", Product!stock_key)
             r == Product!Extended(p.stocks, d.stocks, Product!stock_key)
  <2>2. SetsField(c4, x, "stocks", r)
    <3>1. Lists!HasItems(e, "stocks") <=> d.stocks # <<>>
      BY <1>e, <1>f, <1>k, ListHelpers
    <3>2. CASE d.stocks = <<>>
      <4>1. x = c4 /\ r = p.stocks
        BY <1>s, <3>1, <3>2 DEF Product!deduplicate, Product!Extended
      <4> HIDE DEF x, r
      <4> QED BY <2>1, <4>1, KeepsField
    <3>3. CASE d.stocks # <<>>
      <4>1. e.stocks = d.stocks
        BY <1>e, <1>f, <3>1, <3>3 DEF Lists!HasItems, Lists!Has, Carries, Field
      <4>2. Product!Get(c4, "stocks", <<>>) = p.stocks
        BY <1>k, <1>s, <2>1, Empties DEF Field, Lists!Get, Lists!Has
      <4>3. x = Product!With(c4, "stocks", r)
        BY <1>s, <3>1, <3>3, <4>1, <4>2 DEF Product!deduplicate, Product!Extended
      <4> HIDE DEF x, r
      <4> QED BY <1>s, <4>3, WithSets
    <3> QED BY <3>2, <3>3
  <2>3. PICK S : p.stocks \in Seq(S) /\ d.stocks \in Seq(S)
    BY <1>e, CommonItems
  <2>4. r \in Seq(S)
    BY <2>3, TextsTyped
  <2>5. c5 = Lists!keep_tail(x, "stocks", HistoryLimit) /\ Lists!KeepTail(r, HistoryLimit) = m.stocks
    <3>1. c5 = Lists!keep_tail(x, "stocks", HistoryLimit)
      BY <1>s DEF Product!history
    <3>2. Lists!KeepTail(r, HistoryLimit) = m.stocks
      BY <1>v DEF TextStocks
    <3> QED BY <3>1, <3>2
  <2> HIDE DEF x, r, c5
  <2>6. SetsField(x, c5, "stocks", Lists!KeepTail(r, HistoryLimit))
    <3>1. Field(x, "stocks") = r
      BY <2>2 DEF SetsField
    <3> QED BY <1>a, <1>k, <2>4, <2>5, <3>1, TailSets
  <2>7. SetsField(c4, c5, "stocks", m.stocks)
    BY <2>2, <2>5, <2>6, SetsTwice
  <2> HIDE DEF c5
  <2>8. Progress(F, t, c5, p, m, {"uids", "uid", "title", "prices", "solds"} \cup {"stocks"})
    BY <1>4, <1>f, <2>7, Advance
  <2>9. {"uids", "uid", "title", "prices", "solds"} \cup {"stocks"} = {"uids", "uid", "title", "prices", "solds", "stocks"}
    OBVIOUS
  <2> QED BY <2>8, <2>9
<1> HIDE DEF c5
<1>6. Progress(F, t, c6, p, m, {"uids", "uid", "title", "prices", "solds", "stocks", "comment_count"})
  <2>1. Field(c5, "comment_count") = p.comment_count
    BY <1>5, <1>f DEF Progress
  <2>2. c6 = Lists!replace_nonzero(c5, e, "comment_count")
    BY SharedTables
  <2>3. SetsField(c5, Lists!replace_nonzero(c5, e, "comment_count"), "comment_count", Lists!Replaced(Field(c5, "comment_count"), d["comment_count"], 0))
    BY <1>e, <1>f, <1>k, ScalarHelpers
  <2>7. SetsField(c5, c6, "comment_count", m.comment_count)
    BY <1>v, <2>1, <2>2, <2>3
  <2> HIDE DEF c6
  <2>8. Progress(F, t, c6, p, m, {"uids", "uid", "title", "prices", "solds", "stocks"} \cup {"comment_count"})
    BY <1>5, <1>f, <2>7, Advance
  <2>9. {"uids", "uid", "title", "prices", "solds", "stocks"} \cup {"comment_count"} = {"uids", "uid", "title", "prices", "solds", "stocks", "comment_count"}
    OBVIOUS
  <2> QED BY <2>8, <2>9
<1> HIDE DEF c6
<1>7. Progress(F, t, c7, p, m, {"uids", "uid", "title", "prices", "solds", "stocks", "comment_count", "offers"})
  <2>1. Field(c6, "offers") = p.offers
    BY <1>6, <1>f DEF Progress
  <2> DEFINE x == IF ~Lists!HasItems(e, "offers") THEN c6
                  ELSE Lists!With(c6, "offers", Lists!UniqueItems(e.offers \o Lists!Get(c6, "offers", <<>>), Lists!OwnKey))
             r == IF d.offers = <<>> THEN p.offers ELSE Lists!UniqueItems(d.offers \o p.offers, Lists!OwnKey)
  <2>2. SetsField(c6, x, "offers", r)
    <3>1. Lists!HasItems(e, "offers") <=> d.offers # <<>>
      BY <1>e, <1>f, <1>k, ListHelpers
    <3>2. CASE d.offers = <<>>
      BY <2>1, <3>1, <3>2, KeepsField
    <3>3. CASE d.offers # <<>>
      <4>1. e.offers = d.offers
        BY <1>e, <1>f, <3>1, <3>3 DEF Lists!HasItems, Lists!Has, Carries, Field
      <4>2. Lists!Get(c6, "offers", <<>>) = p.offers
        BY <1>k, <2>1, Empties DEF Field, Lists!Get, Lists!Has
      <4>3. x = Lists!With(c6, "offers", r)
        BY <3>1, <3>3, <4>1, <4>2
      <4> HIDE DEF x, r
      <4> QED BY <4>3, WithSets
    <3> QED BY <3>2, <3>3
  <2>3. PICK S : p.offers \in Seq(S) /\ d.offers \in Seq(S)
    BY <1>e, CommonItems
  <2>4. r \in Seq(S)
    BY <1>a, <2>3, ListTypes
  <2>5. c7 = Lists!keep_tail(x, "offers", OfferLimit) /\ Lists!KeepTail(r, OfferLimit) = m.offers
    <3>1. c7 = Lists!keep_tail(x, "offers", OfferLimit)
      BY <1>s, SharedLists, SharedTables DEF Product!merge_offers, Product!MergedOffers
    <3>2. Lists!KeepTail(r, OfferLimit) = m.offers
      BY <1>v, SharedLists DEF Product!merge_offers, Product!MergedOffers
    <3> QED BY <3>1, <3>2
  <2> HIDE DEF x, r, c7
  <2>6. SetsField(x, c7, "offers", Lists!KeepTail(r, OfferLimit))
    <3>1. Field(x, "offers") = r
      BY <2>2 DEF SetsField
    <3> QED BY <1>a, <1>k, <2>4, <2>5, <3>1, TailSets
  <2>7. SetsField(c6, c7, "offers", m.offers)
    BY <2>2, <2>5, <2>6, SetsTwice
  <2> HIDE DEF c7
  <2>8. Progress(F, t, c7, p, m, {"uids", "uid", "title", "prices", "solds", "stocks", "comment_count"} \cup {"offers"})
    BY <1>6, <1>f, <2>7, Advance
  <2>9. {"uids", "uid", "title", "prices", "solds", "stocks", "comment_count"} \cup {"offers"} = {"uids", "uid", "title", "prices", "solds", "stocks", "comment_count", "offers"}
    OBVIOUS
  <2> QED BY <2>8, <2>9
<1> HIDE DEF c7
<1>8. Progress(F, t, c8, p, m, {"uids", "uid", "title", "prices", "solds", "stocks", "comment_count", "offers", "countries"})
  <2>1. Field(c7, "countries") = p.countries
    BY <1>7, <1>f DEF Progress
  <2>2. c8 = Lists!union_strings(c7, e, "countries")
    BY SharedTables
  <2>3. SetsField(c7, Lists!union_strings(c7, e, "countries"), "countries", Lists!ExtendedStrings(Field(c7, "countries"), d["countries"]))
    BY <1>e, <1>f, <1>k, ListHelpers
  <2>7. SetsField(c7, c8, "countries", m.countries)
    BY <1>v, <2>1, <2>2, <2>3
  <2> HIDE DEF c8
  <2>8. Progress(F, t, c8, p, m, {"uids", "uid", "title", "prices", "solds", "stocks", "comment_count", "offers"} \cup {"countries"})
    BY <1>7, <1>f, <2>7, Advance
  <2>9. {"uids", "uid", "title", "prices", "solds", "stocks", "comment_count", "offers"} \cup {"countries"} = {"uids", "uid", "title", "prices", "solds", "stocks", "comment_count", "offers", "countries"}
    OBVIOUS
  <2> QED BY <2>8, <2>9
<1> HIDE DEF c8
\* The times.
<1>9. /\ Progress(F, t, c9, p, m, {"uids", "uid", "title", "prices", "solds", "stocks", "comment_count", "offers", "countries"} \cup {"last_found_at", "first_found_at", "evicted_at"})
      /\ Seen(c9)
  <2>1. c9 = Lists!merge_times(c8, e, at)
    BY SharedTables
  <2>2. \A f \in {"first_found_at", "evicted_at"} : Carries(e, d, f) /\ (f \in DOMAIN e => d[f] # 0)
    <3>1. \A f \in {"first_found_at", "evicted_at"} : f \in F /\ f \notin Texts /\ Empty[f] = 0
      BY <1>f, <1>k, Empties DEF Texts
    <3> QED BY <1>e, <3>1
  <2>3. {"first_found_at", "last_found_at", "evicted_at"} \subseteq F \ {"uids", "uid", "title", "prices", "solds", "stocks", "comment_count", "offers", "countries"}
    BY <1>f
  <2>4. Seen(t)
    BY DEF StandsForProduct
  <2>5. F \in SUBSET Fields /\ MergedTimes(p, d, m, at)
    BY <1>f, <1>v
  <2> HIDE DEF c9
  <2> QED BY <1>8, <2>1, <2>2, <2>3, <2>4, <2>5, TimesAdvance
<1> HIDE DEF c9
<1>10. SetsField(c9, c10, "available", m.available)
  <2>1. Lists!Get(e, "available", FALSE) = d.available
    <3>1. "available" \in F /\ "available" \in Flags
      BY <1>f, <1>k
    <3>2. Field(e, "available") = d["available"]
      BY <1>e, <3>1 DEF Carries
    <3> QED BY <3>1, <3>2, GetsField
  <2>2. c10 = Lists!With(c9, "available", m.available)
    BY <1>v, <1>s, <2>1
  <2> HIDE DEF c10
  <2> QED BY <2>2, WithSets
<1> HIDE DEF c10
<1>11. StandsForProduct(c10, m)
  <2>1. Field(c10, "available") = m.available
    BY <1>10 DEF SetsField
  <2>2. \A f \in F \ {"available"} : Field(c10, f) = m[f]
    BY <1>9, <1>10, <1>f DEF Progress, SetsField, Untouched, Field
  <2>3. Seen(c10)
    BY <1>9, <1>10, <1>f DEF Seen, SetsField, Untouched
  <2> QED BY <2>1, <2>2, <2>3 DEF StandsForProduct, F
<1> QED BY <1>m, <1>11 DEF e, m

\* Nothing is a product, and the empty table stands for it.
LEMMA NothingIsProduct ==
    Product!IsDocument(Product!Nothing) /\ StandsForProduct(<<>>, Product!Nothing)
<1>1. Product!IsDocument(Product!Nothing)
  <2>1. Product!Nothing = [f \in DOMAIN Product!Nothing |-> Product!Nothing[f]]
    BY DEF Product!Nothing
  <2>2. {"uids", "prices", "solds", "stocks", "offers", "countries"} \subseteq ProductFields \cap ItemLists
    BY DEF ProductFields, ItemLists
  <2>3. \A f \in {"uids", "prices", "solds", "stocks", "offers", "countries"} : Product!Nothing[f] = <<>>
    BY <2>2, Empties
  <2>4. <<>> \in Seq({})
    OBVIOUS
  <2>5. Product!IsList(<<>>)
    BY <2>4, ItemsAreList, SharedLists
  <2> QED BY <2>1, <2>3, <2>5 DEF Product!IsDocument
<1>2. StandsForProduct(<<>>, Product!Nothing)
  <2>1. DOMAIN <<>> = {}
    OBVIOUS
  <2> QED BY <2>1, Empties DEF StandsForProduct, Seen, Field
<1> QED BY <1>1, <1>2

\* What the program makes of a product and one that comes in is what the
\* reference model would make of them if the texts told its stocks apart.
LEMMA ProductAgrees ==
    ASSUME NEW c, c = <<>> \/ Product!IsDocument(c), NEW d, Product!IsDocument(d), NEW at, at # 0
    PROVE  /\ Product!Program(c, d, at) = TextMerge(c, d, at)
           /\ Product!IsDocument(TextMerge(c, d, at))
<1> DEFINE base == IF c = <<>> THEN Product!Nothing ELSE TextMergeAt(Product!Nothing, c, at)
           r == IF c = <<>> THEN <<>> ELSE Product!merge_one(<<>>, Product!Encoded(c), at)
           m == TextMergeAt(base, d, at)
           t == Product!merge_one(r, Product!Encoded(d), at)
           w == Product!Without(t, "evicted_at")
<1>1. Product!IsDocument(base) /\ StandsForProduct(r, base)
  <2>1. CASE c = <<>>
    BY <2>1, NothingIsProduct
  <2>2. CASE c # <<>>
    <3>1. Product!IsDocument(c)
      BY <2>2
    <3> QED BY <2>2, <3>1, NothingIsProduct, TextTypes, ProductStep
  <2> QED BY <2>1, <2>2
<1> HIDE DEF base, r
<1>2. Product!IsDocument(m) /\ StandsForProduct(t, m)
  BY <1>1, TextTypes, ProductStep
<1>3. /\ Product!Program(c, d, at) = Product!Decode(w, Product!Nothing)
      /\ TextMerge(c, d, at) = [m EXCEPT !.evicted_at = 0]
  BY DEF Product!Program, TextMerge, Product!Missing, base, r
<1> HIDE DEF m, t
<1>4. w = [f \in DOMAIN t \ {"evicted_at"} |-> t[f]]
  BY DEF Product!Without
<1> HIDE DEF w
<1>5. \A f \in ProductFields : Product!Get(w, f, Product!Nothing[f]) = IF f = "evicted_at" THEN 0 ELSE m[f]
  <2>1. DOMAIN w = DOMAIN t \ {"evicted_at"} /\ \A f \in DOMAIN w : w[f] = t[f]
    BY <1>4
  <2>2. \A f \in ProductFields : Product!Get(w, f, Product!Nothing[f]) = IF f \in DOMAIN w THEN w[f] ELSE Empty[f]
    BY Empties DEF Product!Get, Product!Has
  <2>3. Empty["evicted_at"] = 0
    BY Empties DEF Amounts
  <2> QED BY <1>2, <2>1, <2>2, <2>3 DEF StandsForProduct, Field
<1>6. Product!Decode(w, Product!Nothing) = [f \in ProductFields |-> IF f = "evicted_at" THEN 0 ELSE m[f]]
  BY <1>5, Empties DEF Product!Decode
<1>7. m = [f \in ProductFields |-> m[f]]
  BY <1>2, Empties DEF Product!IsDocument
<1>8. [m EXCEPT !.evicted_at = 0] = [f \in ProductFields |-> IF f = "evicted_at" THEN 0 ELSE m[f]]
  BY <1>7
<1>9. Product!IsDocument([m EXCEPT !.evicted_at = 0])
  <2> DEFINE q == [m EXCEPT !.evicted_at = 0]
  <2>1. q = [f \in DOMAIN Product!Nothing |-> q[f]]
    BY <1>8, Empties
  <2>2. \A f \in {"uids", "prices", "solds", "stocks", "offers", "countries"} : q[f] = m[f]
    BY <1>8 DEF ProductFields
  <2> HIDE DEF q
  <2>3. Product!IsDocument(q)
    BY <1>2, <2>1, <2>2 DEF Product!IsDocument
  <2> QED BY <2>3 DEF q
<1> QED BY <1>3, <1>6, <1>8, <1>9

\* What the reference model makes of products is a product.
LEMMA ProductMergeTypes ==
    ASSUME NEW c, c = <<>> \/ Product!IsDocument(c), NEW d, Product!IsDocument(d), NEW at
    PROVE  Product!IsDocument(Product!MergeProduct(c, d, at))
<1> DEFINE base == IF c = <<>> THEN Product!Nothing ELSE Product!MergeAt(Product!Nothing, c, at)
           m == Product!MergeAt(base, d, at)
           q == Product!MergeProduct(c, d, at)
<1>1. Product!IsDocument(m)
  BY NothingIsProduct, ProductTypes
<1>2. q = [m EXCEPT !.evicted_at = 0]
  BY DEF Product!MergeProduct, Product!Missing, Product!NoTime
<1> HIDE DEF m, q
<1>3. m = [f \in ProductFields |-> m[f]]
  BY <1>1, Empties DEF Product!IsDocument
<1>4. q = [f \in ProductFields |-> q[f]] /\ \A f \in ProductFields \ {"evicted_at"} : q[f] = m[f]
  BY <1>2, <1>3
<1>5. {"uids", "prices", "solds", "stocks", "offers", "countries"} \subseteq ProductFields \ {"evicted_at"}
  BY DEF ProductFields
<1>6. Product!IsDocument(q)
  BY <1>1, <1>4, <1>5, Empties DEF Product!IsDocument
<1> QED BY <1>6 DEF q

\* Two products are the same but for their stocks.
ButStocks == ProductFields \ {"stocks"}
SameButStocks(p, q) == \A f \in ButStocks : p[f] = q[f]

\* What the merge makes of the other fields does not depend on the stocks.
LEMMA StocksAside ==
    ASSUME NEW p, NEW q, SameButStocks(p, q), NEW d, NEW at
    PROVE  SameButStocks(TextMergeAt(p, d, at), Product!MergeAt(q, d, at))
<1> DEFINE m == Product!MergeAt(p, d, at)
           n == Product!MergeAt(q, d, at)
           w == TextMergeAt(p, d, at)
<1>1. ButStocks = {"uid", "uids", "title", "prices", "solds", "comment_count", "offers", "countries",
                   "first_found_at", "last_found_at", "evicted_at", "available"}
  BY DEF ButStocks, ProductFields
<1>2. \A f \in ButStocks : m[f] = n[f]
  <2>1. /\ p.uid = q.uid /\ p.uids = q.uids /\ p.title = q.title /\ p.prices = q.prices /\ p.solds = q.solds
        /\ p.comment_count = q.comment_count /\ p.offers = q.offers /\ p.countries = q.countries
        /\ p.first_found_at = q.first_found_at /\ p.evicted_at = q.evicted_at
    BY <1>1 DEF SameButStocks
  <2>2. /\ m.uid = n.uid /\ m.uids = n.uids /\ m.title = n.title /\ m.prices = n.prices /\ m.solds = n.solds
        /\ m.comment_count = n.comment_count /\ m.offers = n.offers /\ m.countries = n.countries
        /\ m.first_found_at = n.first_found_at /\ m.last_found_at = n.last_found_at
        /\ m.evicted_at = n.evicted_at /\ m.available = n.available
    BY <2>1 DEF Product!MergeAt
  <2> HIDE DEF m, n
  <2> QED BY <1>1, <2>2
<1>3. w = [m EXCEPT !.stocks = TextStocks(p.stocks, d.stocks)]
  BY DEF TextMergeAt
<1>4. DOMAIN m = ProductFields
  BY DEF Product!MergeAt, ProductFields
<1> HIDE DEF m, n, w
<1>5. \A f \in ButStocks : w[f] = m[f]
  BY <1>3, <1>4 DEF ButStocks
<1> QED BY <1>2, <1>5 DEF SameButStocks, n, w

\* So the whole merge does not either.
LEMMA MergedButStocks ==
    ASSUME NEW c, NEW x, (c = <<>> /\ x = <<>>) \/ (c # <<>> /\ x # <<>> /\ SameButStocks(x, c)),
           NEW d, Product!IsDocument(d), NEW at,
           c = <<>> \/ Product!IsDocument(c), x = <<>> \/ Product!IsDocument(x)
    PROVE  SameButStocks(TextMerge(x, d, at), Product!MergeProduct(c, d, at))
<1> DEFINE z == Product!Nothing
           b == IF c = <<>> THEN z ELSE Product!MergeAt(z, c, at)
           a == IF x = <<>> THEN z ELSE TextMergeAt(z, x, at)
           m == TextMergeAt(a, d, at)
           n == Product!MergeAt(b, d, at)
<1>1. SameButStocks(a, b)
  <2>1. SameButStocks(z, z)
    BY DEF SameButStocks
  <2>2. ASSUME SameButStocks(x, c) PROVE SameButStocks(TextMergeAt(z, x, at), Product!MergeAt(z, c, at))
    <3>1. SameButStocks(TextMergeAt(z, x, at), Product!MergeAt(z, x, at))
      BY <2>1, StocksAside
    <3>2. SameButStocks(Product!MergeAt(z, x, at), Product!MergeAt(z, c, at))
      <4>1. /\ x.uid = c.uid /\ x.uids = c.uids /\ x.title = c.title /\ x.prices = c.prices /\ x.solds = c.solds
            /\ x.comment_count = c.comment_count /\ x.offers = c.offers /\ x.countries = c.countries
            /\ x.first_found_at = c.first_found_at /\ x.evicted_at = c.evicted_at /\ x.available = c.available
        BY <2>2 DEF SameButStocks, ButStocks, ProductFields
      <4> DEFINE u == Product!MergeAt(z, x, at)
                 v == Product!MergeAt(z, c, at)
      <4>2. /\ u.uid = v.uid /\ u.uids = v.uids /\ u.title = v.title /\ u.prices = v.prices /\ u.solds = v.solds
            /\ u.comment_count = v.comment_count /\ u.offers = v.offers /\ u.countries = v.countries
            /\ u.first_found_at = v.first_found_at /\ u.last_found_at = v.last_found_at
            /\ u.evicted_at = v.evicted_at /\ u.available = v.available
        <5> HIDE DEF z
        <5> QED BY <4>1 DEF Product!MergeAt
      <4> HIDE DEF u, v
      <4>3. SameButStocks(u, v)
        BY <4>2 DEF SameButStocks, ButStocks, ProductFields
      <4> QED BY <4>3 DEF u, v
    <3> HIDE DEF z
    <3> QED BY <3>1, <3>2 DEF SameButStocks
  <2> HIDE DEF z
  <2> QED BY <2>1, <2>2
<1> HIDE DEF a, b
<1>2. SameButStocks(m, n)
  BY <1>1, StocksAside
<1>3. TextMerge(x, d, at) = [m EXCEPT !.evicted_at = 0] /\ Product!MergeProduct(c, d, at) = [n EXCEPT !.evicted_at = 0]
  BY DEF TextMerge, Product!MergeProduct, Product!Missing, Product!NoTime, a, b
<1>4. DOMAIN m = ProductFields /\ DOMAIN n = ProductFields
  BY DEF TextMergeAt, Product!MergeAt, ProductFields
<1> HIDE DEF m, n
<1>5. "evicted_at" \in ProductFields /\ ButStocks \subseteq ProductFields
  BY DEF ProductFields, ButStocks
<1> QED BY <1>2, <1>3, <1>4, <1>5 DEF SameButStocks

\* The keys and the texts tell the same stocks apart.
Discerning(S) ==
    \A x, y \in S : Product!productStockKey(x) = Product!productStockKey(y) <=> Product!stock_key(x) = Product!stock_key(y)

\* Stocks with the same key have the same text.
LEMMA KeysMakeTexts ==
    ASSUME NEW x, NEW y, Product!productStockKey(x) = Product!productStockKey(y)
    PROVE  Product!stock_key(x) = Product!stock_key(y)
<1>1. \A a, b, c, d : /\ <<a>> # <<b, c>>
                      /\ <<a>> = <<b>> => a = b
                      /\ <<a, b>> = <<c, d>> => a = c /\ b = d
  OBVIOUS
<1>2. \A v, w : Product!jsonDigest(v) = Product!jsonDigest(w) => v = w
  BY DEF Product!jsonDigest
<1>3. x.stock = y.stock /\ x.variables = y.variables
  <2>1. CASE x.variables = <<>>
    <3>1. Product!productStockKey(x) = <<x.stock>>
      BY <2>1 DEF Product!productStockKey
    <3>2. CASE y.variables = <<>>
      BY <1>1, <2>1, <3>1, <3>2 DEF Product!productStockKey
    <3>3. CASE y.variables # <<>>
      <4>1. Product!productStockKey(y) = <<y.stock, Product!jsonDigest(y.variables)>>
        BY <3>3 DEF Product!productStockKey
      <4>2. <<x.stock>> # <<y.stock, Product!jsonDigest(y.variables)>>
        OBVIOUS
      <4> QED BY <3>1, <4>1, <4>2
    <3> QED BY <3>2, <3>3
  <2>2. CASE x.variables # <<>>
    <3>1. Product!productStockKey(x) = <<x.stock, Product!jsonDigest(x.variables)>>
      BY <2>2 DEF Product!productStockKey
    <3>2. CASE y.variables = <<>>
      <4>1. Product!productStockKey(y) = <<y.stock>>
        BY <3>2 DEF Product!productStockKey
      <4>2. <<x.stock, Product!jsonDigest(x.variables)>> # <<y.stock>>
        OBVIOUS
      <4> QED BY <3>1, <4>1, <4>2
    <3>3. CASE y.variables # <<>>
      <4>1. Product!productStockKey(y) = <<y.stock, Product!jsonDigest(y.variables)>>
        BY <3>3 DEF Product!productStockKey
      <4>2. <<x.stock, Product!jsonDigest(x.variables)>> = <<y.stock, Product!jsonDigest(y.variables)>>
        BY <3>1, <4>1
      <4>3. x.stock = y.stock /\ Product!jsonDigest(x.variables) = Product!jsonDigest(y.variables)
        BY <1>1, <4>2, Zenon
      <4> QED BY <1>2, <4>3
    <3> QED BY <3>2, <3>3
  <2> QED BY <2>1, <2>2
<1> QED BY <1>3 DEF Product!stock_key

\* Then the merge by texts is the merge by keys, and makes no stocks of its own.
LEMMA SameTexts ==
    ASSUME NEW S, Discerning(S), NEW p, p.stocks \in Seq(S), NEW d, d.stocks \in Seq(S), NEW at
    PROVE  /\ TextMergeAt(p, d, at) = Product!MergeAt(p, d, at)
           /\ Product!MergeAt(p, d, at).stocks \in Seq(S)
<1> DEFINE m == Product!MergeAt(p, d, at)
<1>1. PICK a \in Seq(S), b \in Seq(S) : a = p.stocks /\ b = d.stocks
  OBVIOUS
<1>2. PICK r \in Seq(S) : r = a \o b
  <2>1. a \o b \in Seq(S)
    OBVIOUS
  <2> QED BY <2>1
<1>3. \A x, y \in S : KeysOn(S)[x] = KeysOn(S)[y] <=> TextsOn(S)[x] = TextsOn(S)[y]
  BY DEF Discerning, KeysOn, TextsOn
<1>4. UniqueBy(r, KeysOn(S)) = UniqueBy(r, TextsOn(S))
  BY <1>3, SameDistinctions
<1>5. Product!UniqueItems(r, Product!productStockKey) = Product!UniqueItems(r, Product!stock_key)
  BY <1>4, StockLists
<1>6. Product!Extended(a, b, Product!productStockKey) = Product!Extended(a, b, Product!stock_key)
  BY <1>2, <1>5 DEF Product!Extended
<1>7. m.stocks = TextStocks(a, b)
  <2>1. Product!MergedStocks(a, b) = TextStocks(a, b)
    BY <1>6, SharedLists DEF Product!MergedStocks, TextStocks
  <2> QED BY <1>1, <2>1 DEF Product!MergeAt
<1>8. m.stocks \in Seq(S)
  BY <1>7, TextsTyped
<1>9. TextMergeAt(p, d, at) = [m EXCEPT !.stocks = TextStocks(a, b)]
  BY <1>1 DEF TextMergeAt
<1>10. m = [f \in DOMAIN m |-> m[f]]
  BY DEF Product!MergeAt
<1> HIDE DEF m
<1>11. TextMergeAt(p, d, at) = m
  BY <1>7, <1>9, <1>10
<1> QED BY <1>8, <1>11 DEF m

LEMMA SameMerge ==
    ASSUME NEW S, Discerning(S), NEW c, c = <<>> \/ c.stocks \in Seq(S), NEW d, d.stocks \in Seq(S), NEW at
    PROVE  /\ TextMerge(c, d, at) = Product!MergeProduct(c, d, at)
           /\ Product!MergeProduct(c, d, at).stocks \in Seq(S)
<1> DEFINE z == Product!Nothing
           b == IF c = <<>> THEN z ELSE Product!MergeAt(z, c, at)
           m == Product!MergeAt(b, d, at)
<1>1. z.stocks \in Seq(S)
  <2>1. z.stocks = <<>>
    BY DEF Product!Nothing
  <2>2. <<>> \in Seq(S)
    OBVIOUS
  <2> HIDE DEF z
  <2> QED BY <2>1, <2>2
<1> HIDE DEF z
<1>2. b.stocks \in Seq(S) /\ (c # <<>> => TextMergeAt(z, c, at) = Product!MergeAt(z, c, at))
  BY <1>1, SameTexts
<1> HIDE DEF b
<1>3. TextMergeAt(b, d, at) = m /\ m.stocks \in Seq(S)
  BY <1>2, SameTexts
<1> HIDE DEF m
<1>4. TextMerge(c, d, at) = [m EXCEPT !.evicted_at = 0]
  BY <1>2, <1>3 DEF TextMerge, b, z
<1>5. Product!MergeProduct(c, d, at) = [m EXCEPT !.evicted_at = 0]
  BY DEF Product!MergeProduct, Product!Missing, Product!NoTime, m, b, z
<1>6. [m EXCEPT !.evicted_at = 0].stocks = m.stocks
  <2>1. "stocks" \in DOMAIN m
    BY DEF m, Product!MergeAt
  <2> QED BY <2>1
<1> QED BY <1>3, <1>4, <1>5, <1>6

-----------------------------------------------------------------------------
(* Sellers, in Go and in Lua. *)

PlainFields == OfferFields \ {"tracking_ids"}
OfferLists == {"uids", "addresses", "contacts", "hostnames"}

\* A table holds the tracking identifiers of a seller.
Tracks(t, o) ==
    /\ "tracking_ids" \in DOMAIN t <=> o.tracking_ids # <<>>
    /\ o.tracking_ids # <<>> =>
          \A f \in TrackingFields : Field(t["tracking_ids"], f) = Head(o.tracking_ids)[f]

\* A table stands for a seller.
StandsForOffer(t, o) == Seen(t) /\ Tracks(t, o) /\ \A f \in PlainFields : Field(t, f) = o[f]

\* What can be decoded.
LEMMA OfferDecoded ==
    ASSUME NEW o, Offer!IsDocument(o)
    PROVE  /\ o = [f \in OfferFields |-> o[f]]
           /\ \A f \in OfferLists : Lists!IsList(o[f])
           /\ o.tracking_ids # <<>> =>
                 /\ o.tracking_ids = <<Head(o.tracking_ids)>>
                 /\ Head(o.tracking_ids) = [f \in TrackingFields |-> Head(o.tracking_ids)[f]]
                 /\ \A f \in TrackingFields : Lists!IsList(Head(o.tracking_ids)[f])
<1>1. o = [f \in OfferFields |-> o[f]]
  BY Empties DEF Offer!IsDocument
<1>2. \A f \in OfferLists : Lists!IsList(o[f])
  BY SharedLists DEF Offer!IsDocument, OfferLists
<1>3. ASSUME o.tracking_ids # <<>>
      PROVE  /\ o.tracking_ids = <<Head(o.tracking_ids)>>
             /\ Head(o.tracking_ids) = [f \in TrackingFields |-> Head(o.tracking_ids)[f]]
             /\ \A f \in TrackingFields : Lists!IsList(Head(o.tracking_ids)[f])
  <2>1. o.tracking_ids = <<Head(o.tracking_ids)>> /\ Offer!IsTracking(Head(o.tracking_ids))
    BY <1>3 DEF Offer!IsDocument
  <2>2. /\ Head(o.tracking_ids) = [f \in TrackingFields |-> Head(o.tracking_ids)[f]]
        /\ \A f \in TrackingFields : Offer!IsList(Head(o.tracking_ids)[f])
    BY <2>1, Empties DEF Offer!IsTracking
  <2>3. \A f \in TrackingFields : Lists!IsList(Head(o.tracking_ids)[f])
    BY <2>2, SharedLists
  <2> QED BY <2>1, <2>2, <2>3
<1> QED BY <1>1, <1>2, <1>3

\* What is encoded of a seller.
LEMMA EncodedOffer ==
    ASSUME NEW d, Offer!IsDocument(d)
    PROVE  /\ \A f \in PlainFields : /\ Carries(Offer!Encoded(d), d, f)
                                     /\ f \notin Texts /\ f \in DOMAIN Offer!Encoded(d) => d[f] # Empty[f]
           /\ Tracks(Offer!Encoded(d), d)
<1> DEFINE table == Offer!Encode(d, Offer!Nothing, {"uid", "name"})
           ids == Offer!Encode(Head(table.tracking_ids), Offer!NoTracking, {})
           e == Offer!Encoded(d)
<1>1. table = [f \in {"uid", "name"} \cup {g \in OfferFields : d[g] # Offer!Nothing[g]} |-> d[f]]
  BY Empties DEF Offer!Encode
<1>2. e = IF ~Offer!Has(table, "tracking_ids") THEN table ELSE Offer!With(table, "tracking_ids", ids)
  BY DEF Offer!Encoded
<1>i. ids = [f \in {g \in TrackingFields : Head(table.tracking_ids)[g] # Offer!NoTracking[g]} |-> Head(table.tracking_ids)[f]]
  BY Empties DEF Offer!Encode
<1> HIDE DEF table, ids, e
<1>3. DOMAIN table = {"uid", "name"} \cup {g \in OfferFields : d[g] # Offer!Nothing[g]} /\ \A f \in DOMAIN table : table[f] = d[f]
  BY <1>1
<1>4. "tracking_ids" \in OfferFields /\ Offer!Nothing["tracking_ids"] = <<>> /\ Texts \subseteq Fields /\ OfferFields \subseteq Fields
      /\ {"uid", "name"} \subseteq Texts
  BY Empties DEF OfferFields, ItemLists, Fields, Texts
<1>5. "tracking_ids" \in DOMAIN table <=> d.tracking_ids # <<>>
  BY <1>3, <1>4
<1>6. \A f \in DOMAIN table \ {"tracking_ids"} : f \in DOMAIN e /\ e[f] = table[f]
  BY <1>2 DEF Offer!With
<1>7. DOMAIN e = DOMAIN table
  BY <1>2 DEF Offer!With, Offer!Has
<1>8. \A f \in PlainFields : /\ Carries(e, d, f)
                             /\ f \notin Texts /\ f \in DOMAIN e => d[f] # Empty[f]
  BY <1>3, <1>4, <1>6, <1>7, Empties DEF PlainFields, Carries, Field
<1>9. Tracks(e, d)
  <2>1. ASSUME d.tracking_ids # <<>>, NEW f \in TrackingFields
        PROVE  Field(e["tracking_ids"], f) = Head(d.tracking_ids)[f]
    <3>1. table.tracking_ids = d.tracking_ids
      BY <1>3, <1>5, <2>1
    <3>2. e["tracking_ids"] = ids
      BY <1>2, <1>5, <2>1 DEF Offer!With, Offer!Has
    <3>3. /\ DOMAIN ids = {g \in TrackingFields : Head(d.tracking_ids)[g] # Offer!NoTracking[g]}
          /\ \A g \in DOMAIN ids : ids[g] = Head(d.tracking_ids)[g]
      BY <1>i, <3>1
    <3> QED BY <3>2, <3>3, Empties DEF Field
  <2> QED BY <1>5, <1>7, <2>1 DEF Tracks
<1> QED BY <1>8, <1>9 DEF e

\* The tracking identifiers that both merges make.
LEMMA TrackingStep ==
    ASSUME NEW p, Offer!IsDocument(p), NEW d, Offer!IsDocument(d), NEW m, NEW u, NEW e,
           m.tracking_ids = Offer!mergeTrackingIDs(p.tracking_ids, d.tracking_ids),
           Tracks(u, p), Tracks(e, d)
    PROVE  /\ Tracks(Offer!merge_tracking(u, e), m)
           /\ \E v : SetsField(u, Offer!merge_tracking(u, e), "tracking_ids", v)
<1>1. CASE d.tracking_ids = <<>>
  <2>1. Offer!merge_tracking(u, e) = u
    BY <1>1 DEF Offer!merge_tracking, Offer!Has, Tracks
  <2>2. m.tracking_ids = p.tracking_ids
    BY <1>1 DEF Offer!mergeTrackingIDs
  <2> QED BY <2>1, <2>2, KeepsField DEF Tracks
<1>2. CASE d.tracking_ids # <<>>
  <2> DEFINE ids == e["tracking_ids"]
             had == IF p.tracking_ids = <<>> THEN Offer!NoTracking ELSE Head(p.tracking_ids)
             base == Offer!Get(u, "tracking_ids", <<>>)
             first == Offer!union_strings(base, ids, "gtm")
             both == Offer!union_strings(first, ids, "script_urls")
             in == Head(d.tracking_ids)
             sum == [f \in TrackingFields |-> Offer!ExtendedStrings(had[f], in[f])]
  <2>1. "tracking_ids" \in DOMAIN e /\ \A f \in TrackingFields : Carries(ids, in, f) /\ Lists!IsList(in[f])
    BY <1>2, OfferDecoded DEF Tracks, Carries
  <2>2. Offer!merge_tracking(u, e) = Offer!With(u, "tracking_ids", both)
    BY <2>1 DEF Offer!merge_tracking, Offer!Has
  <2>3. m.tracking_ids = <<sum>>
    BY <1>2, Empties DEF Offer!mergeTrackingIDs
  <2>4. \A f \in TrackingFields : Field(base, f) = had[f]
    <3>1. CASE p.tracking_ids = <<>>
      <4>1. base = <<>> /\ had = Offer!NoTracking
        BY <3>1 DEF Tracks, Offer!Get, Offer!Has
      <4>2. DOMAIN base = {}
        BY <4>1
      <4> QED BY <4>1, <4>2, Empties DEF Field
    <3>2. CASE p.tracking_ids # <<>>
      BY <3>2 DEF Tracks, Offer!Get, Offer!Has
    <3> QED BY <3>1, <3>2
  <2>5. /\ TrackingFields = {"gtm", "script_urls"} /\ TrackingFields \subseteq ItemLists \cap Fields
        /\ "tracking_ids" \in Fields
    BY Empties DEF TrackingFields, ItemLists, Fields
  <2>6. first = Lists!union_strings(base, ids, "gtm") /\ both = Lists!union_strings(first, ids, "script_urls")
    BY SharedTables
  <2>x. \A f \in TrackingFields : sum[f] = Lists!ExtendedStrings(had[f], in[f])
    BY SharedLists
  <2> HIDE DEF ids, had, base, first, both, in, sum
  <2>7. SetsField(base, first, "gtm", Lists!ExtendedStrings(Field(base, "gtm"), in["gtm"]))
    BY <2>1, <2>5, <2>6, ListHelpers
  <2>8. SetsField(first, both, "script_urls", Lists!ExtendedStrings(Field(first, "script_urls"), in["script_urls"]))
    BY <2>1, <2>5, <2>6, ListHelpers
  <2>9. \A f \in TrackingFields : Field(both, f) = sum[f]
    <3>1. Field(first, "script_urls") = Field(base, "script_urls") /\ Field(both, "gtm") = Field(first, "gtm")
      BY <2>5, <2>7, <2>8 DEF SetsField, Untouched, Field
    <3>2. Field(both, "gtm") = Lists!ExtendedStrings(had["gtm"], in["gtm"])
      BY <2>4, <2>5, <2>7, <3>1 DEF SetsField
    <3>3. Field(both, "script_urls") = Lists!ExtendedStrings(had["script_urls"], in["script_urls"])
      BY <2>4, <2>5, <2>8, <3>1 DEF SetsField
    <3> QED BY <2>5, <2>x, <3>2, <3>3
  <2> DEFINE w == Offer!merge_tracking(u, e)
  <2>10. w = Lists!With(u, "tracking_ids", both)
    BY <2>2, SharedTables
  <2> HIDE DEF w
  <2>11. SetsField(u, w, "tracking_ids", both) /\ "tracking_ids" \in DOMAIN w
    BY <2>10, WithSets
  <2>12. w["tracking_ids"] = both
    BY <2>11 DEF SetsField, Field
  <2>13. Tracks(w, m)
    <3>1. Head(m.tracking_ids) = sum /\ m.tracking_ids # <<>>
      BY <2>3
    <3> QED BY <2>9, <2>11, <2>12, <3>1 DEF Tracks
  <2> QED BY <2>11, <2>13 DEF w
<1> QED BY <1>1, <1>2

\* The types of what the reference merge computes.
LEMMA OfferTypes ==
    ASSUME NEW p, Offer!IsDocument(p), NEW d, Offer!IsDocument(d), NEW at
    PROVE  Offer!IsDocument(Offer!MergeAt(p, d, at))
<1> DEFINE m == Offer!MergeAt(p, d, at)
<1>1. m = [f \in DOMAIN Offer!Nothing |-> m[f]]
  BY DEF Offer!MergeAt, Offer!Nothing
<1>2. \A f \in OfferLists : Lists!IsList(p[f]) /\ Lists!IsList(d[f])
  BY OfferDecoded
<1>l. AddressLimit \in Nat \ {0}
  BY ReplayLimits
<1>3. /\ m.uids = Lists!ExtendedStrings(p.uids, d.uids)
      /\ m.addresses = Lists!KeepTail(Lists!Extended(p.addresses, d.addresses, Lists!OwnKey), AddressLimit)
      /\ m.contacts = Lists!Extended(p.contacts, d.contacts, Lists!OwnKey)
      /\ m.hostnames = Lists!Replaced(p.hostnames, d.hostnames, <<>>)
      /\ m.tracking_ids = Offer!mergeTrackingIDs(p.tracking_ids, d.tracking_ids)
  BY SharedLists DEF Offer!MergeAt
<1> HIDE DEF m
<1>4. Lists!IsList(m.uids)
  <2>1. PICK S : p.uids \in Seq(S) /\ d.uids \in Seq(S)
    BY <1>2, CommonItems DEF OfferLists
  <2>2. Lists!ExtendedStrings(p.uids, d.uids) \in Seq(S)
    BY <1>l, <2>1, ListTypes
  <2> QED BY <1>3, <2>2, ItemsAreList
<1>5. Lists!IsList(m.addresses)
  <2>1. PICK S : p.addresses \in Seq(S) /\ d.addresses \in Seq(S)
    BY <1>2, CommonItems DEF OfferLists
  <2>2. Lists!KeepTail(Lists!Extended(p.addresses, d.addresses, Lists!OwnKey), AddressLimit) \in Seq(S)
    BY <1>l, <2>1, ListTypes
  <2> QED BY <1>3, <2>2, ItemsAreList
<1>6. Lists!IsList(m.contacts)
  <2>1. PICK S : p.contacts \in Seq(S) /\ d.contacts \in Seq(S)
    BY <1>2, CommonItems DEF OfferLists
  <2>2. Lists!Extended(p.contacts, d.contacts, Lists!OwnKey) \in Seq(S)
    BY <1>l, <2>1, ListTypes
  <2> QED BY <1>3, <2>2, ItemsAreList
<1>7. Lists!IsList(m.hostnames)
  BY <1>2, <1>3 DEF Lists!Replaced, OfferLists
<1>8. m.tracking_ids = <<>> \/ (m.tracking_ids = <<Head(m.tracking_ids)>> /\ Offer!IsTracking(Head(m.tracking_ids)))
  <2>1. CASE d.tracking_ids = <<>>
    <3>1. m.tracking_ids = p.tracking_ids
      BY <1>3, <2>1 DEF Offer!mergeTrackingIDs
    <3>2. p.tracking_ids = <<>> \/ (p.tracking_ids = <<Head(p.tracking_ids)>> /\ Offer!IsTracking(Head(p.tracking_ids)))
      BY DEF Offer!IsDocument
    <3> QED BY ONLY <3>1, <3>2
  <2>2. CASE d.tracking_ids # <<>>
    <3> DEFINE had == IF p.tracking_ids = <<>> THEN Offer!NoTracking ELSE Head(p.tracking_ids)
               in == Head(d.tracking_ids)
               sum == [f \in TrackingFields |-> Offer!ExtendedStrings(had[f], in[f])]
    <3>1. m.tracking_ids = <<sum>>
      BY <1>3, <2>2, Empties DEF Offer!mergeTrackingIDs
    <3>2. \A f \in TrackingFields : Lists!IsList(had[f]) /\ Lists!IsList(in[f])
      <4>1. \A f \in TrackingFields : Lists!IsList(in[f])
        BY <2>2, OfferDecoded
      <4>2. CASE p.tracking_ids = <<>>
        <5>1. TrackingFields \subseteq ItemLists
          BY DEF TrackingFields, ItemLists
        <5>2. <<>> \in Seq({})
          OBVIOUS
        <5>3. Lists!IsList(<<>>)
          BY <5>2, ItemsAreList
        <5> QED BY <4>1, <4>2, <5>1, <5>3, Empties
      <4>3. CASE p.tracking_ids # <<>>
        BY <4>1, <4>3, OfferDecoded
      <4> QED BY <4>2, <4>3
    <3> HIDE DEF had, in
    <3>3. \A f \in TrackingFields : Offer!IsList(sum[f])
      <4>1. ASSUME NEW f \in TrackingFields PROVE Offer!IsList(sum[f])
        <5>1. PICK S : had[f] \in Seq(S) /\ in[f] \in Seq(S)
          BY <3>2, CommonItems
        <5>2. Lists!ExtendedStrings(had[f], in[f]) \in Seq(S)
          BY <1>l, <5>1, ListTypes
        <5>3. sum[f] = Lists!ExtendedStrings(had[f], in[f])
          BY SharedLists
        <5> HIDE DEF sum
        <5> QED BY <5>2, <5>3, ItemsAreList, SharedLists
      <4> QED BY <4>1
    <3>4. sum = [f \in DOMAIN Offer!NoTracking |-> sum[f]] /\ DOMAIN Offer!NoTracking = TrackingFields
      BY Empties
    <3> HIDE DEF sum
    <3>5. Offer!IsTracking(sum) /\ Head(m.tracking_ids) = sum
      BY <3>1, <3>3, <3>4 DEF Offer!IsTracking
    <3> QED BY <3>1, <3>5
  <2> QED BY <2>1, <2>2
<1>9. Offer!IsDocument(m)
  BY <1>1, <1>4, <1>5, <1>6, <1>7, <1>8, SharedLists DEF Offer!IsDocument
<1> QED BY <1>9 DEF m

\* One merge of the program is one of the reference model.
LEMMA OfferStep ==
    ASSUME NEW p, Offer!IsDocument(p), NEW d, Offer!IsDocument(d), NEW at, at # 0, NEW t, StandsForOffer(t, p)
    PROVE  StandsForOffer(Offer!merge_one(t, Offer!Encoded(d), at), Offer!MergeAt(p, d, at))
<1> DEFINE e == Offer!Encoded(d)
           m == Offer!MergeAt(p, d, at)
           F == PlainFields
<1>e. /\ \A f \in F : Carries(e, d, f) /\ (f \notin Texts /\ f \in DOMAIN e => d[f] # Empty[f])
      /\ \A f \in {"uids", "addresses", "contacts", "hostnames"} : Lists!IsList(d[f]) /\ Lists!IsList(p[f])
      /\ Tracks(e, d)
  BY EncodedOffer, OfferDecoded DEF OfferLists
<1>f. /\ F = {"uid", "uids", "name", "addresses", "contacts", "member_since", "sold", "comment_count",
              "first_found_at", "last_found_at", "evicted_at", "hostnames", "has_paypal"}
      /\ F \subseteq Fields
      /\ \A f \in F : Field(t, f) = p[f]
  BY DEF PlainFields, OfferFields, StandsForOffer, Fields
<1>k. /\ {"uid", "name"} \subseteq Texts
      /\ {"uids", "addresses", "contacts", "hostnames"} \subseteq ItemLists
      /\ {"sold", "member_since", "first_found_at", "last_found_at", "evicted_at"} \subseteq Amounts
      /\ "has_paypal" \in Flags
      /\ \A f \in Amounts : f \notin Texts
  BY DEF Texts, ItemLists, Amounts, Flags
<1>s. \A x, f, v :
         /\ Offer!Get(x, f, v) = Lists!Get(x, f, v)
         /\ Offer!With(x, f, v) = Lists!With(x, f, v)
         /\ Offer!keep_tail(x, f, v) = Lists!keep_tail(x, f, v)
  BY SharedTables
<1> HIDE DEF e
<1> DEFINE c1 == Offer!replace_nonempty_string(t, e, "uid")
           c2 == Offer!replace_nonempty_string(c1, e, "name")
           c3 == Offer!union_strings(c2, e, "uids")
           c4 == Offer!keep_tail(Offer!deduplicate(c3, e, "addresses", Offer!OwnKey), "addresses", AddressLimit)
           c5 == Offer!deduplicate(c4, e, "contacts", Offer!OwnKey)
           c6 == Offer!replace_present(c5, e, "member_since")
           c7 == Offer!replace_nonzero(c6, e, "sold")
           c8 == Offer!merge_times(c7, e, at)
           c9 == Offer!replace_nonempty_array(c8, e, "hostnames")
           c10 == Offer!merge_tracking(c9, e)
           c11 == Offer!With(c10, "has_paypal", Offer!Get(e, "has_paypal", FALSE))
<1>m. Offer!merge_one(t, e, at) = c11
  BY DEF Offer!merge_one
<1>v. /\ m.uid = Lists!Replaced(p.uid, d.uid, "")
      /\ m.name = Lists!Replaced(p.name, d.name, "")
      /\ m.uids = Lists!ExtendedStrings(p.uids, d.uids)
      /\ m.addresses = Lists!KeepTail(Lists!Extended(p.addresses, d.addresses, Lists!OwnKey), AddressLimit)
      /\ m.contacts = Lists!Extended(p.contacts, d.contacts, Lists!OwnKey)
      /\ m.member_since = Lists!Replaced(p.member_since, d.member_since, 0)
      /\ m.sold = Lists!Replaced(p.sold, d.sold, 0)
      /\ m.comment_count = p.comment_count
      /\ MergedTimes(p, d, m, at)
      /\ m.hostnames = Lists!Replaced(p.hostnames, d.hostnames, <<>>)
      /\ m.tracking_ids = Offer!mergeTrackingIDs(p.tracking_ids, d.tracking_ids)
      /\ m.has_paypal = d.has_paypal
  BY SharedLists DEF Offer!MergeAt, Offer!NoTime, MergedTimes
<1> HIDE DEF m, F
<1>a. AddressLimit \in Nat \ {0}
  BY ReplayLimits
<1>0. Progress(F, t, t, p, m, {})
  BY <1>f DEF Progress, Untouched
<1>1. Progress(F, t, c1, p, m, {"uid"})
  <2>1. Field(t, "uid") = p.uid
    BY <1>0, <1>f DEF Progress
  <2>2. c1 = Lists!replace_nonempty_string(t, e, "uid")
    BY SharedTables
  <2>3. SetsField(t, Lists!replace_nonempty_string(t, e, "uid"), "uid", Lists!Replaced(Field(t, "uid"), d["uid"], ""))
    BY <1>e, <1>f, <1>k, ScalarHelpers
  <2>7. SetsField(t, c1, "uid", m.uid)
    BY <1>v, <2>1, <2>2, <2>3
  <2> HIDE DEF c1
  <2>8. Progress(F, t, c1, p, m, {} \cup {"uid"})
    BY <1>0, <1>f, <2>7, Advance
  <2>9. {} \cup {"uid"} = {"uid"}
    OBVIOUS
  <2> QED BY <2>8, <2>9
<1> HIDE DEF c1
<1>2. Progress(F, t, c2, p, m, {"uid", "name"})
  <2>1. Field(c1, "name") = p.name
    BY <1>1, <1>f DEF Progress
  <2>2. c2 = Lists!replace_nonempty_string(c1, e, "name")
    BY SharedTables
  <2>3. SetsField(c1, Lists!replace_nonempty_string(c1, e, "name"), "name", Lists!Replaced(Field(c1, "name"), d["name"], ""))
    BY <1>e, <1>f, <1>k, ScalarHelpers
  <2>7. SetsField(c1, c2, "name", m.name)
    BY <1>v, <2>1, <2>2, <2>3
  <2> HIDE DEF c2
  <2>8. Progress(F, t, c2, p, m, {"uid"} \cup {"name"})
    BY <1>1, <1>f, <2>7, Advance
  <2>9. {"uid"} \cup {"name"} = {"uid", "name"}
    OBVIOUS
  <2> QED BY <2>8, <2>9
<1> HIDE DEF c2
<1>3. Progress(F, t, c3, p, m, {"uid", "name", "uids"})
  <2>1. Field(c2, "uids") = p.uids
    BY <1>2, <1>f DEF Progress
  <2>2. c3 = Lists!union_strings(c2, e, "uids")
    BY SharedTables
  <2>3. SetsField(c2, Lists!union_strings(c2, e, "uids"), "uids", Lists!ExtendedStrings(Field(c2, "uids"), d["uids"]))
    BY <1>e, <1>f, <1>k, ListHelpers
  <2>7. SetsField(c2, c3, "uids", m.uids)
    BY <1>v, <2>1, <2>2, <2>3
  <2> HIDE DEF c3
  <2>8. Progress(F, t, c3, p, m, {"uid", "name"} \cup {"uids"})
    BY <1>2, <1>f, <2>7, Advance
  <2>9. {"uid", "name"} \cup {"uids"} = {"uid", "name", "uids"}
    OBVIOUS
  <2> QED BY <2>8, <2>9
<1> HIDE DEF c3
<1>4. Progress(F, t, c4, p, m, {"uid", "name", "uids", "addresses"})
  <2>1. Field(c3, "addresses") = p.addresses
    BY <1>3, <1>f DEF Progress
  <2> DEFINE x == Lists!deduplicate(c3, e, "addresses", Lists!OwnKey)
             r == Lists!Extended(p.addresses, d.addresses, Lists!OwnKey)
  <2>2. SetsField(c3, x, "addresses", r)
    <3>1. SetsField(c3, Lists!deduplicate(c3, e, "addresses", Lists!OwnKey), "addresses", Lists!Extended(Field(c3, "addresses"), d["addresses"], Lists!OwnKey))
      BY <1>e, <1>f, <1>k, ListHelpers
    <3> QED BY <2>1, <3>1
  <2>3. PICK S : p.addresses \in Seq(S) /\ d.addresses \in Seq(S)
    BY <1>e, CommonItems
  <2>4. r \in Seq(S)
    BY <1>a, <2>3, ListTypes
  <2>5. c4 = Lists!keep_tail(x, "addresses", AddressLimit) /\ Lists!KeepTail(r, AddressLimit) = m.addresses
    <3>1. c4 = Lists!keep_tail(x, "addresses", AddressLimit)
      BY <1>s, SharedLists, SharedTables
    <3>2. Lists!KeepTail(r, AddressLimit) = m.addresses
      BY <1>v, SharedLists
    <3> QED BY <3>1, <3>2
  <2> HIDE DEF x, r, c4
  <2>6. SetsField(x, c4, "addresses", Lists!KeepTail(r, AddressLimit))
    <3>1. Field(x, "addresses") = r
      BY <2>2 DEF SetsField
    <3> QED BY <1>a, <1>k, <2>4, <2>5, <3>1, TailSets
  <2>7. SetsField(c3, c4, "addresses", m.addresses)
    BY <2>2, <2>5, <2>6, SetsTwice
  <2> HIDE DEF c4
  <2>8. Progress(F, t, c4, p, m, {"uid", "name", "uids"} \cup {"addresses"})
    BY <1>3, <1>f, <2>7, Advance
  <2>9. {"uid", "name", "uids"} \cup {"addresses"} = {"uid", "name", "uids", "addresses"}
    OBVIOUS
  <2> QED BY <2>8, <2>9
<1> HIDE DEF c4
<1>5. Progress(F, t, c5, p, m, {"uid", "name", "uids", "addresses", "contacts"})
  <2>1. Field(c4, "contacts") = p.contacts
    BY <1>4, <1>f DEF Progress
  <2>2. c5 = Lists!deduplicate(c4, e, "contacts", Lists!OwnKey)
    BY SharedTables
  <2>3. SetsField(c4, Lists!deduplicate(c4, e, "contacts", Lists!OwnKey), "contacts", Lists!Extended(Field(c4, "contacts"), d["contacts"], Lists!OwnKey))
    BY <1>e, <1>f, <1>k, ListHelpers
  <2>7. SetsField(c4, c5, "contacts", m.contacts)
    BY <1>v, <2>1, <2>2, <2>3
  <2> HIDE DEF c5
  <2>8. Progress(F, t, c5, p, m, {"uid", "name", "uids", "addresses"} \cup {"contacts"})
    BY <1>4, <1>f, <2>7, Advance
  <2>9. {"uid", "name", "uids", "addresses"} \cup {"contacts"} = {"uid", "name", "uids", "addresses", "contacts"}
    OBVIOUS
  <2> QED BY <2>8, <2>9
<1> HIDE DEF c5
<1>6. Progress(F, t, c6, p, m, {"uid", "name", "uids", "addresses", "contacts", "member_since"})
  <2>1. Field(c5, "member_since") = p.member_since
    BY <1>5, <1>f DEF Progress
  <2>2. c6 = Lists!replace_present(c5, e, "member_since")
    BY SharedTables
  <2>3. SetsField(c5, Lists!replace_present(c5, e, "member_since"), "member_since", Lists!Replaced(Field(c5, "member_since"), d["member_since"], 0))
    <3>1. "member_since" \in F /\ "member_since" \in Amounts /\ "member_since" \notin Texts
      BY <1>f, <1>k
    <3>2. Carries(e, d, "member_since") /\ ("member_since" \in DOMAIN e => d["member_since"] # 0)
      BY <1>e, <3>1, Empties
    <3> QED BY <3>1, <3>2, ScalarHelpers
  <2>7. SetsField(c5, c6, "member_since", m.member_since)
    BY <1>v, <2>1, <2>2, <2>3
  <2> HIDE DEF c6
  <2>8. Progress(F, t, c6, p, m, {"uid", "name", "uids", "addresses", "contacts"} \cup {"member_since"})
    BY <1>5, <1>f, <2>7, Advance
  <2>9. {"uid", "name", "uids", "addresses", "contacts"} \cup {"member_since"} = {"uid", "name", "uids", "addresses", "contacts", "member_since"}
    OBVIOUS
  <2> QED BY <2>8, <2>9
<1> HIDE DEF c6
<1>7. Progress(F, t, c7, p, m, {"uid", "name", "uids", "addresses", "contacts", "member_since", "sold"})
  <2>1. Field(c6, "sold") = p.sold
    BY <1>6, <1>f DEF Progress
  <2>2. c7 = Lists!replace_nonzero(c6, e, "sold")
    BY SharedTables
  <2>3. SetsField(c6, Lists!replace_nonzero(c6, e, "sold"), "sold", Lists!Replaced(Field(c6, "sold"), d["sold"], 0))
    BY <1>e, <1>f, <1>k, ScalarHelpers
  <2>7. SetsField(c6, c7, "sold", m.sold)
    BY <1>v, <2>1, <2>2, <2>3
  <2> HIDE DEF c7
  <2>8. Progress(F, t, c7, p, m, {"uid", "name", "uids", "addresses", "contacts", "member_since"} \cup {"sold"})
    BY <1>6, <1>f, <2>7, Advance
  <2>9. {"uid", "name", "uids", "addresses", "contacts", "member_since"} \cup {"sold"} = {"uid", "name", "uids", "addresses", "contacts", "member_since", "sold"}
    OBVIOUS
  <2> QED BY <2>8, <2>9
<1> HIDE DEF c7
\* The times.
<1>8. Progress(F, t, c8, p, m, {"uid", "name", "uids", "addresses", "contacts", "member_since", "sold", "last_found_at", "first_found_at", "evicted_at"}) /\ Seen(c8)
  <2>1. c8 = Lists!merge_times(c7, e, at)
    BY SharedTables
  <2>2. \A f \in {"first_found_at", "evicted_at"} : Carries(e, d, f) /\ (f \in DOMAIN e => d[f] # 0)
    <3>1. \A f \in {"first_found_at", "evicted_at"} : f \in F /\ f \notin Texts /\ Empty[f] = 0
      BY <1>f, <1>k, Empties
    <3> QED BY <1>e, <3>1
  <2> DEFINE done == {"uid", "name", "uids", "addresses", "contacts", "member_since", "sold"}
  <2>3. {"first_found_at", "last_found_at", "evicted_at"} \subseteq F \ done
    BY <1>f
  <2>p. Progress(F, t, c7, p, m, done)
    BY <1>7
  <2>4. Seen(t)
    BY DEF StandsForOffer
  <2>5. F \in SUBSET Fields /\ MergedTimes(p, d, m, at)
    BY <1>f, <1>v
  <2> HIDE DEF c8, done
  <2>6. /\ Progress(F, t, c8, p, m, done \cup {"last_found_at", "first_found_at", "evicted_at"})
        /\ Seen(c8)
    BY <2>p, <2>1, <2>2, <2>3, <2>4, <2>5, TimesAdvance
  <2>7. done \cup {"last_found_at", "first_found_at", "evicted_at"} = {"uid", "name", "uids", "addresses", "contacts", "member_since", "sold", "last_found_at", "first_found_at", "evicted_at"}
    BY DEF done
  <2> QED BY <2>6, <2>7
<1> HIDE DEF c8
<1>h. SetsField(c8, c9, "hostnames", m.hostnames)
  <2>1. Field(c8, "hostnames") = p.hostnames
    BY <1>8, <1>f DEF Progress
  <2>2. c9 = Lists!replace_nonempty_array(c8, e, "hostnames")
    BY SharedTables
  <2>3. SetsField(c8, Lists!replace_nonempty_array(c8, e, "hostnames"), "hostnames", Lists!Replaced(Field(c8, "hostnames"), d["hostnames"], <<>>))
    BY <1>e, <1>f, <1>k, ListHelpers
  <2> QED BY <1>v, <2>1, <2>2, <2>3
<1> HIDE DEF c9
<1>9. Progress(F, t, c9, p, m, {"uid", "name", "uids", "addresses", "contacts", "member_since", "sold", "last_found_at", "first_found_at", "evicted_at", "hostnames"})
  <2>8. Progress(F, t, c9, p, m, {"uid", "name", "uids", "addresses", "contacts", "member_since", "sold", "last_found_at", "first_found_at", "evicted_at"} \cup {"hostnames"})
    BY <1>8, <1>f, <1>h, Advance
  <2>9. {"uid", "name", "uids", "addresses", "contacts", "member_since", "sold", "last_found_at", "first_found_at", "evicted_at"} \cup {"hostnames"} = {"uid", "name", "uids", "addresses", "contacts", "member_since", "sold", "last_found_at", "first_found_at", "evicted_at", "hostnames"}
    OBVIOUS
  <2> QED BY <2>8, <2>9
\* The tracking identifiers.
<1>10. Tracks(c10, m) /\ \E v : SetsField(c9, c10, "tracking_ids", v)
  <2>1. "tracking_ids" \in Fields
    BY DEF Fields, OfferFields
  <2>2. Untouched(t, c9, "tracking_ids")
    <3>1. "tracking_ids" \notin {"uid", "name", "uids", "addresses", "contacts", "member_since", "sold", "last_found_at", "first_found_at", "evicted_at", "hostnames"}
      OBVIOUS
    <3> QED BY <1>9, <2>1, <3>1 DEF Progress
  <2>3. Tracks(c9, p)
    BY <2>2 DEF Untouched, Tracks, StandsForOffer
  <2> HIDE DEF c10
  <2> QED BY <1>e, <1>v, <2>3, TrackingStep DEF c10
<1> HIDE DEF c10
<1>11. SetsField(c10, c11, "has_paypal", m.has_paypal)
  <2>1. Lists!Get(e, "has_paypal", FALSE) = d.has_paypal
    <3>1. Carries(e, d, "has_paypal") /\ "has_paypal" \in Flags
      BY <1>e, <1>f, <1>k
    <3>2. Lists!Get(e, "has_paypal", FALSE) = Field(e, "has_paypal")
      BY <3>1, GetsField
    <3> QED BY <3>1, <3>2 DEF Carries
  <2>2. c11 = Lists!With(c10, "has_paypal", m.has_paypal)
    BY <1>v, <1>s, <2>1
  <2> HIDE DEF c11
  <2> QED BY <2>2, WithSets
<1> HIDE DEF c11
<1>12. StandsForOffer(c11, m)
  <2>1. "tracking_ids" \in Fields /\ "tracking_ids" \notin F /\ "first_found_at" \in F
    BY <1>f DEF Fields, OfferFields
  <2>2. Untouched(c10, c11, "tracking_ids")
    BY <1>11, <2>1 DEF SetsField
  <2>3. Tracks(c11, m)
    BY <1>10, <2>2 DEF Tracks, Untouched
  <2>4. Field(c11, "has_paypal") = m.has_paypal
    BY <1>11 DEF SetsField
  <2>5. \A f \in F \ {"has_paypal"} : Field(c9, f) = m[f]
    BY <1>9, <1>f, <1>v DEF Progress
  <2>6. \A f \in F \ {"has_paypal"} : Field(c11, f) = m[f]
    BY <1>10, <1>11, <1>f, <2>1, <2>5 DEF SetsField, Untouched, Field
  <2>7. Seen(c9)
    <3>1. SetsField(c8, c9, "hostnames", m.hostnames)
      BY <1>h
    <3> QED BY <1>8, <1>f, <3>1 DEF Seen, SetsField, Untouched
  <2>8. Seen(c11)
    BY <1>10, <1>11, <1>f, <2>1, <2>7 DEF Seen, SetsField, Untouched
  <2> QED BY <2>3, <2>4, <2>6, <2>8 DEF StandsForOffer, F
<1> QED BY <1>m, <1>12 DEF e, m

\* Nothing is a seller, and the empty table stands for it.
LEMMA NothingIsOffer ==
    Offer!IsDocument(Offer!Nothing) /\ StandsForOffer(<<>>, Offer!Nothing)
<1>0. Offer!Nothing.tracking_ids = <<>>
  BY DEF Offer!Nothing
<1>1. Offer!IsDocument(Offer!Nothing)
  <2>1. Offer!Nothing = [f \in DOMAIN Offer!Nothing |-> Offer!Nothing[f]]
    BY DEF Offer!Nothing
  <2>2. {"uids", "addresses", "contacts", "hostnames"} \subseteq OfferFields \cap ItemLists
    BY DEF OfferFields, ItemLists
  <2>3. \A f \in {"uids", "addresses", "contacts", "hostnames"} : Offer!Nothing[f] = <<>>
    BY <2>2, Empties
  <2>4. <<>> \in Seq({})
    OBVIOUS
  <2>5. Offer!IsList(<<>>)
    BY <2>4, ItemsAreList, SharedLists
  <2> QED BY <1>0, <2>1, <2>3, <2>5 DEF Offer!IsDocument
<1>2. StandsForOffer(<<>>, Offer!Nothing)
  <2>1. DOMAIN <<>> = {}
    OBVIOUS
  <2>2. Tracks(<<>>, Offer!Nothing) /\ Seen(<<>>)
    BY <1>0, <2>1 DEF Tracks, Seen
  <2>3. \A f \in PlainFields : Field(<<>>, f) = Offer!Nothing[f]
    BY <2>1, Empties DEF Field, PlainFields
  <2> QED BY <2>2, <2>3 DEF StandsForOffer
<1> QED BY <1>1, <1>2

\* What the program makes of a seller and one that comes in is what the
\* reference model makes of them.
LEMMA OfferAgrees ==
    ASSUME NEW c, c = <<>> \/ Offer!IsDocument(c), NEW d, Offer!IsDocument(d), NEW at, at # 0
    PROVE  /\ Offer!Program(c, d, at) = Offer!MergeOffer(c, d, at)
           /\ Offer!IsDocument(Offer!MergeOffer(c, d, at))
<1> DEFINE base == IF c = <<>> THEN Offer!Nothing ELSE Offer!MergeAt(Offer!Nothing, c, at)
           r == IF c = <<>> THEN <<>> ELSE Offer!merge_one(<<>>, Offer!Encoded(c), at)
           m == Offer!MergeAt(base, d, at)
           t == Offer!merge_one(r, Offer!Encoded(d), at)
           w == Offer!Without(t, "evicted_at")
           o == Offer!Decode(w, Offer!Nothing)
           q == [f \in OfferFields |-> IF f = "evicted_at" THEN 0 ELSE m[f]]
<1>1. Offer!IsDocument(base) /\ StandsForOffer(r, base)
  <2>1. CASE c = <<>>
    BY <2>1, NothingIsOffer
  <2>2. CASE c # <<>>
    <3>1. Offer!IsDocument(c)
      BY <2>2
    <3> QED BY <2>2, <3>1, NothingIsOffer, OfferTypes, OfferStep
  <2> QED BY <2>1, <2>2
<1> HIDE DEF base, r
<1>2. Offer!IsDocument(m) /\ StandsForOffer(t, m)
  BY <1>1, OfferTypes, OfferStep
<1>3. /\ Offer!Program(c, d, at) = Offer!Decoded(w)
      /\ Offer!MergeOffer(c, d, at) = [m EXCEPT !.evicted_at = 0]
  BY DEF Offer!Program, Offer!MergeOffer, Offer!Missing, Offer!NoTime, base, r
<1> HIDE DEF m, t
<1>4. w = [f \in DOMAIN t \ {"evicted_at"} |-> t[f]]
  BY DEF Offer!Without
<1>d. Offer!Decoded(w) = IF ~Offer!Has(w, "tracking_ids") THEN o
                         ELSE [o EXCEPT !.tracking_ids = <<Offer!Decode(o.tracking_ids, Offer!NoTracking)>>]
  BY DEF Offer!Decoded
<1> HIDE DEF w
<1>5. \A f \in PlainFields : Offer!Get(w, f, Offer!Nothing[f]) = IF f = "evicted_at" THEN 0 ELSE m[f]
  <2>1. DOMAIN w = DOMAIN t \ {"evicted_at"} /\ \A f \in DOMAIN w : w[f] = t[f]
    BY <1>4
  <2>2. \A f \in PlainFields : Offer!Get(w, f, Offer!Nothing[f]) = IF f \in DOMAIN w THEN w[f] ELSE Empty[f]
    BY Empties DEF Offer!Get, Offer!Has, PlainFields
  <2>3. Empty["evicted_at"] = 0
    BY Empties DEF Amounts
  <2> QED BY <1>2, <2>1, <2>2, <2>3 DEF StandsForOffer, Field
<1>6. o = [f \in OfferFields |-> IF f \in PlainFields THEN q[f] ELSE Offer!Get(w, "tracking_ids", <<>>)]
  <2>1. o = [f \in OfferFields |-> Offer!Get(w, f, Offer!Nothing[f])]
    BY Empties DEF Offer!Decode
  <2>2. Offer!Nothing["tracking_ids"] = <<>> /\ OfferFields = PlainFields \cup {"tracking_ids"} /\ "tracking_ids" \notin PlainFields
    BY DEF Offer!Nothing, PlainFields, OfferFields
  <2>3. \A f \in PlainFields : Offer!Get(w, f, Offer!Nothing[f]) = q[f]
    BY <1>5, <2>2
  <2> HIDE DEF q, o
  <2> QED BY <2>1, <2>2, <2>3
<1> HIDE DEF o
<1>7. m = [f \in OfferFields |-> m[f]]
  BY <1>2, OfferDecoded
<1>8. [m EXCEPT !.evicted_at = 0] = q
  BY <1>7
<1>9. "tracking_ids" \in OfferFields /\ "tracking_ids" \notin PlainFields /\ OfferFields = PlainFields \cup {"tracking_ids"}
      /\ "evicted_at" \in PlainFields
  BY DEF PlainFields, OfferFields
<1>10. q.tracking_ids = m.tracking_ids
  BY <1>9
<1>w. ("tracking_ids" \in DOMAIN w <=> "tracking_ids" \in DOMAIN t) /\ ("tracking_ids" \in DOMAIN w => w["tracking_ids"] = t["tracking_ids"])
  BY <1>4
<1>q. q = [f \in OfferFields |-> q[f]]
  OBVIOUS
<1> HIDE DEF q
<1>11. Offer!Decoded(w) = q
  <2>1. CASE "tracking_ids" \notin DOMAIN t
    <3>1. m.tracking_ids = <<>> /\ Offer!Get(w, "tracking_ids", <<>>) = <<>> /\ ~Offer!Has(w, "tracking_ids")
      BY <1>2, <1>w, <2>1 DEF StandsForOffer, Tracks, Offer!Get, Offer!Has
    <3> QED BY <1>d, <1>6, <1>9, <1>10, <1>q, <3>1
  <2>2. CASE "tracking_ids" \in DOMAIN t
    <3>1. Offer!Has(w, "tracking_ids") /\ Offer!Get(w, "tracking_ids", <<>>) = t["tracking_ids"]
      BY <1>w, <2>2 DEF Offer!Get, Offer!Has
    <3>2. o.tracking_ids = t["tracking_ids"]
      BY <1>6, <1>9, <3>1
    <3>3. /\ m.tracking_ids = <<Head(m.tracking_ids)>>
          /\ Head(m.tracking_ids) = [f \in TrackingFields |-> Head(m.tracking_ids)[f]]
          /\ \A f \in TrackingFields : Field(t["tracking_ids"], f) = Head(m.tracking_ids)[f]
      BY <1>2, <2>2, OfferDecoded DEF StandsForOffer, Tracks
    <3>4. Offer!Decode(t["tracking_ids"], Offer!NoTracking) = [f \in TrackingFields |-> Field(t["tracking_ids"], f)]
      BY Empties DEF Offer!Decode, Offer!Get, Offer!Has, Field
    <3>5. <<Offer!Decode(o.tracking_ids, Offer!NoTracking)>> = m.tracking_ids
      BY <3>2, <3>3, <3>4
    <3>6. Offer!Decoded(w) = [o EXCEPT !.tracking_ids = m.tracking_ids]
      BY <1>d, <3>1, <3>5
    <3> QED BY <1>6, <1>9, <1>10, <1>q, <3>6
  <2> QED BY <2>1, <2>2
<1>12. Offer!IsDocument(q)
  <2>1. q = [f \in DOMAIN Offer!Nothing |-> q[f]]
    BY <1>q, Empties
  <2>2. /\ \A f \in {"uids", "addresses", "contacts", "hostnames"} : q[f] = m[f]
        /\ q.tracking_ids = m.tracking_ids
    BY <1>10 DEF OfferFields, q
  <2> QED BY <1>2, <2>1, <2>2 DEF Offer!IsDocument
<1> QED BY <1>3, <1>8, <1>11, <1>12

-----------------------------------------------------------------------------
(* The replay of a log. *)

IsDocument(x) ==
    IF feed.kind = "product" THEN Product!IsDocument(x) ELSE Offer!IsDocument(x)

ReplayTypes ==
    /\ feed \in Feeds
    /\ log \in Seq(feed.documents)
    /\ position \in 0..Len(log)
    /\ now \in Nat \ {0}
    /\ expected = Missing \/ IsDocument(expected)
    /\ restarts \in Nat

\* Both documents are products that agree but for their stocks, and in these too
\* when the texts tell all stocks apart that come in.
SidesAgree ==
    /\ ReplayTypes
    /\ feed.kind = "product" =>
          /\ actual = Missing <=> expected = Missing
          /\ actual # Missing => Product!IsDocument(actual) /\ SameButStocks(actual, expected)
          /\ ~Confused => expected = Missing \/ expected.stocks \in Seq(Stocks)
    /\ ~Confused => actual = expected

\* The documents of a feed can be decoded.
LEMMA FeedDocuments ==
    ASSUME ReplayTypes
    PROVE  /\ \A d \in feed.documents : IsDocument(d)
           /\ \A i \in 1..Len(log) : log[i] \in feed.documents
<1>1. \A d \in feed.documents : IsDocument(d)
  <2>1. \/ feed.kind = "product" /\ \A d \in feed.documents : Product!IsDocument(d)
        \/ feed.kind = "offer" /\ \A d \in feed.documents : Offer!IsDocument(d)
    BY ReplayFeeds DEF ReplayTypes
  <2> QED BY <2>1 DEF IsDocument
<1>2. \A i \in 1..Len(log) : log[i] \in feed.documents
  BY DEF ReplayTypes
<1> QED BY <1>1, <1>2

\* What the reference model makes of documents is a document.
LEMMA ReferenceTyped ==
    ASSUME NEW c, c = Missing \/ IsDocument(c), NEW d, IsDocument(d), NEW at, at # 0
    PROVE  IsDocument(Reference(c, d, at))
<1>1. CASE feed.kind = "product"
  <2>1. Product!IsDocument(Product!MergeProduct(c, d, at))
    BY <1>1, ProductMergeTypes DEF Missing, IsDocument
  <2> QED BY <1>1, <2>1 DEF Reference, IsDocument
<1>2. CASE feed.kind # "product"
  <2>1. Offer!IsDocument(Offer!MergeOffer(c, d, at))
    BY <1>2, OfferAgrees DEF Missing, IsDocument
  <2> QED BY <1>2, <2>1 DEF Reference, IsDocument
<1> QED BY <1>1, <1>2

\* The types of a replay.
LEMMA ReplayTyped ==
    /\ ReplayInit => ReplayTypes
    /\ ReplayTypes /\ [ReplayNext]_replayVars => ReplayTypes'
<1>1. ReplayInit => ReplayTypes
  <2> SUFFICES ASSUME ReplayInit PROVE ReplayTypes
    OBVIOUS
  <2>1. log \in Seq(feed.documents) /\ Len(log) = 0
    BY DEF ReplayInit
  <2>2. expected = Missing \/ IsDocument(expected)
    <3>1. \/ feed.kind = "product" /\ \A d \in feed.documents : Product!IsDocument(d)
          \/ feed.kind = "offer" /\ \A d \in feed.documents : Offer!IsDocument(d)
      BY ReplayFeeds DEF ReplayInit
    <3> QED BY <3>1 DEF ReplayInit, IsDocument
  <2>3. position \in 0..Len(log) /\ now \in Nat \ {0} /\ restarts \in Nat
    <3>1. position = 0 /\ now = 1 /\ restarts = 0
      BY DEF ReplayInit
    <3> QED BY <2>1, <3>1
  <2>4. feed \in Feeds
    BY DEF ReplayInit
  <2> QED BY <2>1, <2>2, <2>3, <2>4 DEF ReplayTypes
<1>2. ReplayTypes /\ [ReplayNext]_replayVars => ReplayTypes'
  <2> SUFFICES ASSUME ReplayTypes, [ReplayNext]_replayVars PROVE ReplayTypes'
    OBVIOUS
  <2>u. ASSUME feed' = feed, expected' = expected PROVE (expected = Missing \/ IsDocument(expected))'
    BY <2>u DEF ReplayTypes, IsDocument, Missing
  <2>1. CASE Publish
    <3>1. PICK d \in feed.documents : log' = Append(log, d)
      BY <2>1 DEF Publish
    <3>2. log' \in Seq(feed.documents) /\ Len(log') = Len(log) + 1
      BY <3>1 DEF ReplayTypes
    <3> QED BY <2>1, <2>u, <3>2 DEF Publish, ReplayTypes
  <2>2. CASE Consume
    <3>1. position + 1 \in 1..Len(log)
      BY <2>2 DEF Consume, ReplayTypes
    <3>2. IsDocument(log[position + 1])
      BY <3>1, FeedDocuments
    <3>3. now # 0 /\ (expected = Missing \/ IsDocument(expected))
      BY DEF ReplayTypes
    <3>4. IsDocument(expected')
      BY <2>2, <3>2, <3>3, ReferenceTyped DEF Consume
    <3>5. (IsDocument(expected))'
      BY <2>2, <3>4 DEF Consume, IsDocument
    <3>6. position' \in 0..Len(log') /\ now' \in Nat \ {0}
      BY <2>2, <3>1 DEF Consume, ReplayTypes
    <3> QED BY <2>2, <3>5, <3>6 DEF Consume, ReplayTypes
  <2>3. CASE Restart
    <3>1. PICK committed \in 0..(position - 1) : position' = committed
      BY <2>3 DEF Restart
    <3>2. Len(log) \in Nat /\ position \in 0..Len(log) /\ restarts \in Nat
      BY DEF ReplayTypes
    <3>3. log' = log /\ restarts' = restarts + 1
      BY <2>3 DEF Restart
    <3>4. position' \in 0..Len(log') /\ restarts' \in Nat
      BY <3>1, <3>2, <3>3
    <3> QED BY <2>3, <2>u, <3>4 DEF Restart, ReplayTypes
  <2>4. CASE UNCHANGED replayVars
    BY <2>4, <2>u DEF replayVars, ReplayTypes
  <2> QED BY <2>1, <2>2, <2>3, <2>4 DEF ReplayNext
<1> QED BY <1>1, <1>2

\* The stocks that come in are known.
LEMMA StocksKnown ==
    ASSUME ReplayTypes, feed.kind = "product", NEW d \in feed.documents
    PROVE  d.stocks \in Seq(Stocks)
<1>1. Product!IsDocument(d)
  BY FeedDocuments DEF IsDocument
<1>2. Product!ToSet(d.stocks) \subseteq Stocks
  BY DEF Stocks
<1>3. d.stocks \in Seq(Product!ToSet(d.stocks))
  BY <1>1 DEF Product!IsDocument, Product!IsList
<1>4. Seq(Product!ToSet(d.stocks)) \subseteq Seq(Stocks)
  BY <1>2, SeqMonotonic
<1> QED BY <1>3, <1>4

\* Unless some are confused, the texts tell them apart.
LEMMA Discerned ==
    ASSUME feed.kind = "product", ~Confused
    PROVE  Discerning(Stocks)
BY KeysMakeTexts DEF Confused, Product!Confusable, Discerning

\* product_merge.lua and offer_merge.lua: what the program makes of a document
\* is what the reference merge (MergeAt of product.go and offer.go) makes of
\* it, field by field, after any documents and repeats, however long the log
\* and whatever the limits.  Stocks are left aside where some that come in are
\* one to the program and two to the reference model.
THEOREM SidesAlwaysAgree == ReplaySpec => []Agree
<1>1. ReplayInit => SidesAgree
  <2> SUFFICES ASSUME ReplayInit PROVE SidesAgree
    OBVIOUS
  <2>1. ReplayTypes /\ actual = expected
    BY ReplayTyped DEF ReplayInit
  <2>2. ASSUME feed.kind = "product", expected # Missing
        PROVE  Product!IsDocument(expected) /\ expected.stocks \in Seq(Stocks)
    <3>1. expected \in feed.documents
      BY <2>2 DEF ReplayInit
    <3> QED BY <2>1, <2>2, <3>1, StocksKnown DEF ReplayTypes, IsDocument
  <2> QED BY <2>1, <2>2 DEF SidesAgree, SameButStocks
<1>2. SidesAgree /\ [ReplayNext]_replayVars => SidesAgree'
  <2> SUFFICES ASSUME SidesAgree, [ReplayNext]_replayVars PROVE SidesAgree'
    OBVIOUS
  <2>1. ReplayTypes'
    BY ReplayTyped DEF SidesAgree
  <2>0. feed' = feed /\ Stocks' = Stocks /\ (Confused' <=> Confused)
    <3>1. feed' = feed
      BY DEF ReplayNext, Publish, Consume, Restart, replayVars
    <3> QED BY <3>1 DEF Stocks, Confused
  <2>2. CASE Consume
    <3> DEFINE d == log[position + 1]
    <3>1. ReplayTypes /\ expected' = Reference(expected, d, now) /\ actual' = Program(actual, d, now)
      BY <2>2 DEF SidesAgree, Consume
    <3>2. position + 1 \in 1..Len(log) /\ now # 0 /\ (expected = Missing \/ IsDocument(expected))
      BY <2>2, <3>1 DEF Consume, ReplayTypes
    <3>3. d \in feed.documents /\ IsDocument(d)
      BY <3>1, <3>2, FeedDocuments
    <3> HIDE DEF d
    <3>4. CASE feed.kind = "product"
      <4> DEFINE e == Product!MergeProduct(expected, d, now)
                 a == Product!Program(actual, d, now)
      <4>1. expected' = e /\ actual' = a
        BY <3>1, <3>4 DEF Reference, Program
      <4>2. /\ actual = Missing <=> expected = Missing
            /\ actual = Missing \/ (Product!IsDocument(actual) /\ SameButStocks(actual, expected))
            /\ expected = Missing \/ Product!IsDocument(expected)
            /\ Product!IsDocument(d)
        BY <3>2, <3>3, <3>4 DEF SidesAgree, IsDocument
      <4>3. a = TextMerge(actual, d, now) /\ Product!IsDocument(a)
        BY <3>2, <4>2, ProductAgrees DEF Missing
      <4>4. Product!IsDocument(e)
        BY <4>2, ProductMergeTypes DEF Missing
      <4>5. SameButStocks(TextMerge(actual, d, now), e)
        BY <4>2, MergedButStocks DEF Missing
      <4>6. ASSUME ~Confused PROVE a = e /\ e.stocks \in Seq(Stocks)
        <5>1. actual = expected /\ (expected = <<>> \/ expected.stocks \in Seq(Stocks))
          BY <3>4, <4>6 DEF SidesAgree, Missing
        <5>2. d.stocks \in Seq(Stocks) /\ Discerning(Stocks)
          BY <3>1, <3>3, <3>4, <4>6, StocksKnown, Discerned
        <5> HIDE DEF a, e
        <5>3. TextMerge(expected, d, now) = e /\ e.stocks \in Seq(Stocks)
          BY <5>1, <5>2, SameMerge DEF e
        <5> QED BY <4>3, <5>1, <5>3
      <4> HIDE DEF a, e
      <4>7. a # Missing /\ e # Missing
        <5>1. DOMAIN a = ProductFields /\ DOMAIN e = ProductFields
          BY <4>3, <4>4, Empties DEF Product!IsDocument
        <5> QED BY <5>1 DEF Missing, ProductFields
      <4> QED BY <2>0, <2>1, <4>1, <4>3, <4>5, <4>6, <4>7 DEF SidesAgree
    <3>5. CASE feed.kind # "product"
      <4>1. ~Confused
        BY <3>5 DEF Confused
      <4>2. actual = expected
        BY <4>1 DEF SidesAgree
      <4>3. Offer!Program(expected, d, now) = Offer!MergeOffer(expected, d, now)
        BY <3>2, <3>3, <3>5, OfferAgrees DEF Missing, IsDocument
      <4>4. actual' = expected'
        BY <3>1, <3>5, <4>2, <4>3 DEF Reference, Program
      <4> QED BY <2>0, <2>1, <3>5, <4>4 DEF SidesAgree
    <3> QED BY <3>4, <3>5
  <2>3. CASE ~Consume
    <3>1. actual' = actual /\ expected' = expected
      BY <2>3 DEF ReplayNext, Publish, Restart, replayVars
    <3>2. Missing' = Missing
      BY DEF Missing
    <3> QED BY <2>0, <2>1, <3>1, <3>2 DEF SidesAgree
  <2> QED BY <2>2, <2>3
<1>3. SidesAgree => Agree
  <2> SUFFICES ASSUME SidesAgree PROVE Agree
    OBVIOUS
  <2>1. CASE ~Confused
    BY <2>1 DEF SidesAgree, Agree
  <2>2. CASE Confused
    <3>1. feed.kind = "product"
      BY <2>2 DEF Confused
    <3>2. CASE actual = Missing
      BY <2>2, <3>1, <3>2 DEF SidesAgree, Agree
    <3>3. CASE actual # Missing
      <4>1. SameButStocks(actual, expected) /\ Product!IsDocument(actual) /\ Product!IsDocument(expected)
        BY <3>1, <3>3 DEF SidesAgree, ReplayTypes, IsDocument
      <4>2. DOMAIN actual = ProductFields /\ DOMAIN expected = ProductFields
        BY <4>1, Empties DEF Product!IsDocument
      <4>3. Product!Without(actual, "stocks") = Product!Without(expected, "stocks")
        BY <4>1, <4>2 DEF Product!Without, SameButStocks, ButStocks
      <4> QED BY <2>2, <4>3 DEF Agree
    <3> QED BY <3>2, <3>3
  <2> QED BY <2>1, <2>2
<1> QED BY <1>1, <1>2, <1>3, PTL DEF ReplaySpec

-----------------------------------------------------------------------------
(* What repeats do to lists; f says what their items are told apart by. *)

Keyed == {"solds", "offers", "addresses", "contacts"}
NameOf(f, x) ==
    IF f = "stocks" THEN Product!productStockKey(x) ELSE IF f \in Keyed THEN x.key ELSE x
NamesIn(f, q) == {NameOf(f, q[i]) : i \in 1..Len(q)}
Once(f, q) == \A i, j \in 1..Len(q) : NameOf(f, q[i]) = NameOf(f, q[j]) => i = j
NamesOn(f, S) == [x \in S |-> NameOf(f, x)]
UniqueOf(f, q) ==
    IF f = "stocks" THEN Product!UniqueItems(q, Product!productStockKey)
    ELSE IF f \in Keyed THEN Lists!UniqueItems(q, Lists!OwnKey) ELSE Lists!UniqueStrings(q)
ExtendedBy(f, a, b) == IF b = <<>> THEN a ELSE UniqueOf(f, a \o b)

\* The same, by the keys of a set of items.
LEMMA NamesAreKeys ==
    ASSUME NEW S, NEW s \in Seq(S), NEW f
    PROVE  /\ UniqueOf(f, s) = UniqueBy(s, NamesOn(f, S))
           /\ NamesIn(f, s) = KeySet(s, NamesOn(f, S))
           /\ Once(f, s) <=> Distinct(s, NamesOn(f, S))
<1>1. \A i \in 1..Len(s) : s[i] \in S /\ NamesOn(f, S)[s[i]] = NameOf(f, s[i])
  BY DEF NamesOn
<1>2. NamesIn(f, s) = KeySet(s, NamesOn(f, S)) /\ (Once(f, s) <=> Distinct(s, NamesOn(f, S)))
  BY <1>1 DEF NamesIn, KeySet, Once, Distinct
<1>s. "stocks" \notin Keyed
  BY DEF Keyed
<1>5. CASE f = "stocks"
  <2>1. NamesOn(f, S) = KeysOn(S)
    BY <1>5 DEF NamesOn, NameOf, KeysOn
  <2> QED BY <1>2, <1>5, <2>1, StockLists DEF UniqueOf
<1>3. CASE f \in Keyed
  <2>1. NamesOn(f, S) = KeyOf(S)
    BY <1>3, <1>s DEF NamesOn, NameOf, KeyOf
  <2> QED BY <1>2, <1>3, <1>s, <2>1, UniqueLists DEF UniqueOf
<1>4. CASE f \notin Keyed /\ f # "stocks"
  <2>1. NamesOn(f, S) = Itself(S)
    BY <1>4 DEF NamesOn, NameOf, Itself
  <2> QED BY <1>2, <1>4, <2>1, UniqueLists DEF UniqueOf
<1> QED BY <1>3, <1>4, <1>5

\* The first items of every name.
LEMMA UniqueOfFacts ==
    ASSUME NEW S, NEW s \in Seq(S), NEW f
    PROVE  /\ UniqueOf(f, s) \in Seq(S)
           /\ NamesIn(f, UniqueOf(f, s)) = NamesIn(f, s)
           /\ Once(f, UniqueOf(f, s))
           /\ Once(f, s) => UniqueOf(f, s) = s
<1> DEFINE k == NamesOn(f, S)
           u == UniqueBy(s, k)
<1>1. UniqueOf(f, s) = u
  BY NamesAreKeys
<1>2. u \in Seq(S) /\ KeySet(u, k) = KeySet(s, k) /\ Distinct(u, k)
  BY UniqueFacts
<1>3. Once(f, s) => u = s
  BY NamesAreKeys, UniqueStays
<1> HIDE DEF k, u
<1>4. NamesIn(f, u) = NamesIn(f, s) /\ Once(f, u)
  BY <1>2, NamesAreKeys DEF k
<1> QED BY <1>1, <1>2, <1>3, <1>4

\* What a list becomes when another extends it.
LEMMA ExtendedFacts ==
    ASSUME NEW S, NEW a \in Seq(S), NEW b \in Seq(S), NEW f
    PROVE  /\ ExtendedBy(f, a, b) \in Seq(S)
           /\ NamesIn(f, ExtendedBy(f, a, b)) = NamesIn(f, a) \cup NamesIn(f, b)
           /\ Once(f, a) \/ b # <<>> => Once(f, ExtendedBy(f, a, b))
           /\ Once(f, a) /\ NamesIn(f, b) \subseteq NamesIn(f, a) => ExtendedBy(f, a, b) = a
<1>1. a \o b \in Seq(S) /\ a \o <<>> = a
  OBVIOUS
<1>2. NamesIn(f, a \o b) = NamesIn(f, a) \cup NamesIn(f, b)
  <2> DEFINE k == NamesOn(f, S)
  <2>1. \A q \in Seq(S) : NamesIn(f, q) = KeySet(q, k)
    BY NamesAreKeys
  <2> HIDE DEF k
  <2>2. KeySet(a \o b, k) = KeySet(a, k) \cup KeySet(b, k)
    BY KeySets
  <2> QED BY <1>1, <2>1, <2>2
<1>3. NamesIn(f, <<>>) = {}
  BY DEF NamesIn
<1>4. CASE b = <<>>
  BY <1>3, <1>4 DEF ExtendedBy
<1>5. CASE b # <<>>
  <2>1. ExtendedBy(f, a, b) = UniqueOf(f, a \o b)
    BY <1>5 DEF ExtendedBy
  <2>2. ASSUME Once(f, a), NamesIn(f, b) \subseteq NamesIn(f, a)
        PROVE  UniqueOf(f, a \o b) = a
    <3> DEFINE k == NamesOn(f, S)
    <3>1. KeySet(b, k) \subseteq KeySet(a, k) /\ Distinct(a, k)
      BY <2>2, NamesAreKeys
    <3>2. UniqueOf(f, a \o b) = UniqueBy(a \o b, k)
      BY <1>1, NamesAreKeys
    <3> HIDE DEF k
    <3>3. UniqueBy(a \o b, k) = UniqueBy(a, k) /\ UniqueBy(a, k) = a
      BY <3>1, UniqueKnown, UniqueStays
    <3> QED BY <3>2, <3>3
  <2>3. PICK r \in Seq(S) : r = a \o b
    BY <1>1
  <2>4. UniqueOf(f, r) \in Seq(S) /\ NamesIn(f, UniqueOf(f, r)) = NamesIn(f, r) /\ Once(f, UniqueOf(f, r))
    BY UniqueOfFacts
  <2> QED BY <1>2, <2>1, <2>2, <2>3, <2>4
<1> QED BY <1>4, <1>5

\* From nothing.
LEMMA ExtendedFromNothing ==
    ASSUME NEW S, NEW a \in Seq(S), NEW f
    PROVE  /\ Once(f, ExtendedBy(f, <<>>, a))
           /\ NamesIn(f, ExtendedBy(f, <<>>, a)) = NamesIn(f, a)
           /\ Once(f, a) => ExtendedBy(f, <<>>, a) = a
           /\ ExtendedBy(f, <<>>, a) \in Seq(S)
<1>1. <<>> \in Seq(S) /\ <<>> \o a = a
  OBVIOUS
<1>2. NamesIn(f, <<>>) = {} /\ Once(f, <<>>)
  BY DEF NamesIn, Once
<1>3. Once(f, a) => ExtendedBy(f, <<>>, a) = a
  BY <1>1, UniqueOfFacts DEF ExtendedBy
<1>z. PICK z \in Seq(S) : z = <<>>
  BY <1>1
<1>4. /\ ExtendedBy(f, <<>>, a) \in Seq(S) /\ Once(f, ExtendedBy(f, <<>>, a))
      /\ NamesIn(f, ExtendedBy(f, <<>>, a)) = NamesIn(f, <<>>) \cup NamesIn(f, a)
  <2>1. Once(f, z)
    BY <1>2, <1>z
  <2>2. /\ ExtendedBy(f, z, a) \in Seq(S) /\ Once(f, ExtendedBy(f, z, a))
        /\ NamesIn(f, ExtendedBy(f, z, a)) = NamesIn(f, z) \cup NamesIn(f, a)
    <3>1. \A g : \A c \in Seq(S), b \in Seq(S) :
             /\ ExtendedBy(g, c, b) \in Seq(S)
             /\ NamesIn(g, ExtendedBy(g, c, b)) = NamesIn(g, c) \cup NamesIn(g, b)
             /\ Once(g, c) => Once(g, ExtendedBy(g, c, b))
      BY ExtendedFacts
    <3> QED BY ONLY <2>1, <3>1, z \in Seq(S), a \in Seq(S)
  <2> QED BY <2>2, <1>z
<1> QED BY <1>2, <1>3, <1>4

\* A list that has been cut is at its limit.
LEMMA CutIsFull ==
    ASSUME NEW S, NEW a \in Seq(S), NEW limit \in Nat \ {0}, Len(Lists!KeepTail(a, limit)) < limit
    PROVE  Lists!KeepTail(a, limit) = a
<1>1. CASE Len(a) <= limit
  BY <1>1 DEF Lists!KeepTail
<1>2. CASE Len(a) > limit
  <2>1. Lists!KeepTail(a, limit) = SubSeq(a, Len(a) - limit + 1, Len(a))
    BY <1>2 DEF Lists!KeepTail
  <2>a. Len(a) \in Nat /\ Len(a) - limit + 1 \in Nat
    <3>1. Len(a) \in Nat
      OBVIOUS
    <3> QED BY <1>2, <3>1
  <2>2. PICK m \in Nat, n \in Nat : m = Len(a) - limit + 1 /\ n = Len(a)
    BY <2>a
  <2>3. Len(SubSeq(a, m, n)) = n - m + 1
    BY <1>2, <2>2
  <2>4. n - m + 1 = limit
    BY <2>2
  <2> QED BY <2>1, <2>2, <2>3, <2>4
<1> QED
  <2>1. Len(a) \in Nat
    OBVIOUS
  <2> QED BY <1>1, <1>2, <2>1

\* The laws of lists that are extended, whatever their items.
RepeatLaw(f, a, b) ==
    /\ Lists!IsList(ExtendedBy(f, a, b))
    /\ NamesIn(f, ExtendedBy(f, a, b)) = NamesIn(f, a) \cup NamesIn(f, b)
    /\ Once(f, a) => Once(f, ExtendedBy(f, a, b))
    /\ Once(f, a) /\ NamesIn(f, b) \subseteq NamesIn(f, a) => ExtendedBy(f, a, b) = a
    /\ Once(f, ExtendedBy(f, <<>>, a)) /\ Lists!IsList(ExtendedBy(f, <<>>, a))
    /\ NamesIn(f, ExtendedBy(f, <<>>, a)) = NamesIn(f, a)
    /\ Once(f, a) => ExtendedBy(f, <<>>, a) = a

LEMMA RepeatLaws ==
    ASSUME NEW f, NEW a, NEW b, Lists!IsList(a), Lists!IsList(b)
    PROVE  RepeatLaw(f, a, b)
<1>1. PICK S : a \in Seq(S) /\ b \in Seq(S)
  BY CommonItems
<1>2. /\ ExtendedBy(f, a, b) \in Seq(S)
      /\ NamesIn(f, ExtendedBy(f, a, b)) = NamesIn(f, a) \cup NamesIn(f, b)
      /\ Once(f, a) => Once(f, ExtendedBy(f, a, b))
      /\ Once(f, a) /\ NamesIn(f, b) \subseteq NamesIn(f, a) => ExtendedBy(f, a, b) = a
  BY <1>1, ExtendedFacts
<1>3. /\ Once(f, ExtendedBy(f, <<>>, a)) /\ ExtendedBy(f, <<>>, a) \in Seq(S)
      /\ NamesIn(f, ExtendedBy(f, <<>>, a)) = NamesIn(f, a)
      /\ Once(f, a) => ExtendedBy(f, <<>>, a) = a
  BY <1>1, ExtendedFromNothing
<1>4. Lists!IsList(ExtendedBy(f, a, b)) /\ Lists!IsList(ExtendedBy(f, <<>>, a))
  BY <1>2, <1>3, ItemsAreList
<1> QED BY <1>2, <1>3, <1>4 DEF RepeatLaw

\* What cutting a list leaves.
LEMMA CutLists ==
    ASSUME NEW f, NEW a, Lists!IsList(a), NEW limit \in Nat \ {0}
    PROVE  /\ Lists!IsList(Lists!KeepTail(a, limit))
           /\ Once(f, a) => Once(f, Lists!KeepTail(a, limit))
           /\ ~(Len(Lists!KeepTail(a, limit)) >= limit) => Lists!KeepTail(a, limit) = a
           /\ ~(Len(a) >= limit) => Lists!KeepTail(a, limit) = a
<1>1. PICK S : a \in Seq(S)
  BY DEF Lists!IsList
<1>2. Lists!IsList(Lists!KeepTail(a, limit))
  BY <1>1, ListTypes, ItemsAreList
<1>n. Len(a) \in Nat /\ Len(Lists!KeepTail(a, limit)) \in Nat
  <2>1. Lists!KeepTail(a, limit) \in Seq(S)
    BY <1>1, ListTypes
  <2> QED BY <1>1, <2>1
<1>3. ~(Len(Lists!KeepTail(a, limit)) >= limit) => Lists!KeepTail(a, limit) = a
  <2> SUFFICES ASSUME ~(Len(Lists!KeepTail(a, limit)) >= limit) PROVE Lists!KeepTail(a, limit) = a
    OBVIOUS
  <2>1. Len(Lists!KeepTail(a, limit)) < limit
    BY <1>n
  <2> QED BY <1>1, <2>1, CutIsFull
<1>4. ~(Len(a) >= limit) => Lists!KeepTail(a, limit) = a
  <2> SUFFICES ASSUME ~(Len(a) >= limit) PROVE Lists!KeepTail(a, limit) = a
    OBVIOUS
  <2>1. Len(a) <= limit
    BY <1>n
  <2> QED BY <2>1 DEF Lists!KeepTail
<1>5. ASSUME Once(f, a) PROVE Once(f, Lists!KeepTail(a, limit))
  <2>1. CASE Len(a) <= limit
    BY <1>5, <2>1 DEF Lists!KeepTail
  <2>2. CASE Len(a) > limit
    <3> DEFINE m == Len(a) - limit + 1
               q == SubSeq(a, m, Len(a))
    <3>1. Lists!KeepTail(a, limit) = q
      BY <2>2 DEF Lists!KeepTail
    <3>2. m \in 1..Len(a)
      BY <1>n, <2>2
    <3>3. Len(q) = Len(a) - m + 1 /\ \A i \in 1..Len(q) : q[i] = a[m + i - 1]
      BY <1>1, <1>n, <3>2
    <3>4. \A i \in 1..Len(q) : m + i - 1 \in 1..Len(a)
      BY <1>n, <3>2, <3>3
    <3> HIDE DEF q
    <3>5. \A i, j \in 1..Len(q) : NameOf(f, q[i]) = NameOf(f, q[j]) => m + i - 1 = m + j - 1
      BY <1>5, <3>3, <3>4 DEF Once
    <3> HIDE DEF m
    <3>6. \A i, j \in 1..Len(q) : m + i - 1 = m + j - 1 => i = j
      BY <3>2, <1>n
    <3>7. Once(f, q)
      BY <3>5, <3>6 DEF Once
    <3> QED BY <3>1, <3>7
  <2> QED BY <1>n, <2>1, <2>2
<1> QED BY <1>2, <1>3, <1>4, <1>5

\* What putting a list of items before another makes of it.
Before(a, b) == Lists!UniqueItems(a \o b, Lists!OwnKey)

LEMMA BeforeFacts ==
    ASSUME NEW a, NEW b, Lists!IsList(a), Lists!IsList(b)
    PROVE  /\ Lists!IsList(Before(a, b)) /\ Once("offers", Before(a, b)) /\ Lists!IsList(a \o b)
           /\ Once("offers", b) => Before(<<>>, b) = b /\ Before(b, <<>>) = b
           /\ Once("offers", b) => (IF a = <<>> THEN b ELSE Before(a, b)) = Before(a, b)
<1>1. PICK S : a \in Seq(S) /\ b \in Seq(S)
  BY CommonItems
<1>k. \A q : UniqueOf("offers", q) = Lists!UniqueItems(q, Lists!OwnKey)
  BY DEF UniqueOf, Keyed
<1>2. PICK r \in Seq(S) : r = a \o b
  <2>1. a \o b \in Seq(S)
    BY ONLY <1>1
  <2> QED BY <2>1
<1>3. UniqueOf("offers", r) \in Seq(S) /\ Once("offers", UniqueOf("offers", r))
  BY UniqueOfFacts
<1>4. Lists!IsList(Before(a, b)) /\ Once("offers", Before(a, b)) /\ Lists!IsList(a \o b)
  BY <1>2, <1>3, <1>k, ItemsAreList DEF Before
<1>5. Once("offers", b) => Lists!UniqueItems(b, Lists!OwnKey) = b
  BY <1>1, <1>k, UniqueOfFacts
<1>6. <<>> \o b = b /\ b \o <<>> = b
  BY <1>1
<1> QED BY <1>4, <1>5, <1>6 DEF Before

\* Putting lists before it one after the other, and twice.
LEMMA BeforeTwice ==
    ASSUME NEW d, NEW w, NEW y, Lists!IsList(d), Lists!IsList(w), Lists!IsList(y)
    PROVE  /\ Before(d, Before(w, y)) = Before(d \o w, y)
           /\ Before(w, Before(w, y)) = Before(w, y)
<1>1. PICK A : d \in Seq(A) /\ w \in Seq(A)
  BY CommonItems
<1>2. PICK B : w \in Seq(B) /\ y \in Seq(B)
  BY CommonItems
<1>3. PICK S : d \in Seq(S) /\ w \in Seq(S) /\ y \in Seq(S)
  <2> DEFINE S == A \cup B
  <2>1. A \subseteq S /\ B \subseteq S
    OBVIOUS
  <2> HIDE DEF S
  <2>2. Seq(A) \subseteq Seq(S) /\ Seq(B) \subseteq Seq(S)
    BY <2>1, SeqMonotonic
  <2> QED BY <1>1, <1>2, <2>2
<1> DEFINE k == KeyOf(S)
<1>4. \A q \in Seq(S) : Lists!UniqueItems(q, Lists!OwnKey) = UniqueBy(q, k) /\ UniqueBy(q, k) \in Seq(S)
  BY UniqueLists, UniqueFacts
<1> HIDE DEF k
<1>5. PICK v \in Seq(S) : v = w \o y
  <2>1. w \o y \in Seq(S)
    BY ONLY <1>3
  <2> QED BY <2>1
<1>6. UniqueBy(d \o UniqueBy(v, k), k) = UniqueBy(d \o v, k)
  BY <1>3, UniqueTwice
<1>7. UniqueBy(w \o UniqueBy(v, k), k) = UniqueBy(w \o v, k)
  BY <1>3, UniqueTwice
<1>8. UniqueBy(w \o (w \o y), k) = UniqueBy(w \o y, k)
  BY <1>3, UniqueRepeat
<1>9. d \o (w \o y) = (d \o w) \o y
  BY <1>3
<1>10. \A q \in Seq(S) : d \o q \in Seq(S) /\ w \o q \in Seq(S)
  BY <1>3
<1>11. Before(d, Before(w, y)) = UniqueBy(d \o v, k) /\ Before(d \o w, y) = UniqueBy(d \o v, k)
  BY <1>4, <1>5, <1>6, <1>9, <1>10 DEF Before
<1>12. Before(w, Before(w, y)) = UniqueBy(w \o v, k) /\ Before(w, y) = UniqueBy(w \o y, k)
  BY <1>4, <1>5, <1>7, <1>10 DEF Before
<1> QED BY <1>5, <1>8, <1>11, <1>12

-----------------------------------------------------------------------------
(* What merging a document again does.  Some fields are kept and extended,  *)
(* some replaced by the last document that sets them.                       *)

KeptFields(k) == IF k = "product" THEN {"solds", "stocks", "countries"} ELSE {"uids", "addresses", "contacts"}
ReplacedFields(k) ==
    IF k = "product" THEN {"uid", "title", "prices", "comment_count", "available"}
    ELSE {"uid", "name", "member_since", "sold", "hostnames", "has_paypal"}
Sets(f, value) == f \in Flags \/ value # Empty[f]

\* Tracking identifiers, which a pointer leads to.
TrackingOnce(t) == t # <<>> => \A g \in TrackingFields : Once(g, Head(t)[g])
TrackingAbsorbs(t, u) ==
    u # <<>> => t # <<>> /\ \A g \in TrackingFields : NamesIn(g, Head(u)[g]) \subseteq NamesIn(g, Head(t)[g])

\* A product's aliases: its own identifier is one of them.
ItemsOf(q) == {q[i] : i \in 1..Len(q)}
Aliases(x) == ItemsOf(x.uids)
Known(x) == Aliases(x) \cup {x.uid}

\* A document as merging leaves it.
Shaped(k, x) ==
    /\ \A f \in KeptFields(k) : Once(f, x[f])
    /\ x.first_found_at # 0 /\ x.evicted_at = 0
    /\ IF k = "product"
       THEN /\ Product!IsDocument(x) /\ ~Product!AtLimit(x)
            /\ Once("offers", x.offers)
            /\ "" \notin Aliases(x) /\ x.uid \in Aliases(x) \cup {""}
       ELSE /\ Offer!IsDocument(x) /\ ~Offer!AtLimit(x)
            /\ x.comment_count = 0 /\ TrackingOnce(x.tracking_ids)

\* It has all that another document adds.
Absorbs(k, x, d) ==
    /\ \A f \in KeptFields(k) : NamesIn(f, d[f]) \subseteq NamesIn(f, x[f])
    /\ IF k = "product" THEN Known(d) \subseteq Aliases(x) \cup {""}
       ELSE TrackingAbsorbs(x.tracking_ids, d.tracking_ids)

\* It has the same as another.
SameKept(k, x, y) ==
    /\ \A f \in KeptFields(k) : x[f] = y[f]
    /\ x.first_found_at = y.first_found_at
    /\ IF k = "product" THEN Aliases(x) = Aliases(y) ELSE x.tracking_ids = y.tracking_ids

\* What merging document d into c, which makes it x, does.
StepLaw(k, c, d, x) ==
    /\ Shaped(k, x) /\ Absorbs(k, x, d)
    /\ \A f \in ReplacedFields(k) : Sets(f, d[f]) => x[f] = d[f]
    /\ k = "product" => \E y : Lists!IsList(y) /\ x.offers = Before(d.offers, y)
    /\ Shaped(k, c) =>
          /\ \A e : Absorbs(k, c, e) => Absorbs(k, x, e)
          /\ Absorbs(k, c, d) => SameKept(k, x, c)
          /\ \A f \in ReplacedFields(k) : ~Sets(f, d[f]) => x[f] = c[f]
          /\ k = "product" => x.offers = Before(d.offers, c.offers)

\* Aliases put together.
Joined(a, u, v, b) == Lists!UniqueStrings(Lists!Nonempty(a \o <<u, v>> \o b))
JoinedLaw(a, u, v, b) == ItemsOf(Joined(a, u, v, b)) = (ItemsOf(a) \cup {u, v} \cup ItemsOf(b)) \ {""}

LEMMA AliasesJoined ==
    ASSUME NEW a, NEW b, NEW u, NEW v, Lists!IsList(a), Lists!IsList(b)
    PROVE  JoinedLaw(a, u, v, b)
<1> DEFINE q == Lists!UniqueStrings(Lists!Nonempty(a \o <<u, v>> \o b))
<1>1. PICK A : a \in Seq(A) /\ b \in Seq(A)
  BY CommonItems
<1>2. PICK S : S = A \cup {u, v}
  OBVIOUS
<1>3. a \in Seq(S) /\ b \in Seq(S) /\ <<u, v>> \in Seq(S)
  <2>1. Seq(A) \subseteq Seq(S)
    BY <1>2, SeqMonotonic
  <2> QED BY <1>1, <1>2, <2>1
<1> DEFINE k == Itself(S)
<1>4. ASSUME NEW s \in Seq(S) PROVE KeySet(s, k) = ItemsOf(s)
  <2>1. \A i \in 1..Len(s) : s[i] \in S
    OBVIOUS
  <2>2. \A i \in 1..Len(s) : k[s[i]] = s[i]
    BY <2>1 DEF Itself
  <2> HIDE DEF k
  <2> QED BY <2>2 DEF KeySet, ItemsOf
<1>5. PICK p \in Seq(S) : p = <<u, v>>
  BY <1>3
<1>6. PICK r \in Seq(S) : r = a \o p \o b
  <2>1. a \o p \o b \in Seq(S)
    BY <1>3
  <2> QED BY <2>1
<1>7. KeySet(r, k) = ItemsOf(a) \cup {u, v} \cup ItemsOf(b)
  <2> HIDE DEF k
  <2>1. PICK l \in Seq(S) : l = a \o p
    <3>1. a \o p \in Seq(S)
      BY ONLY <1>3, p \in Seq(S)
    <3> QED BY <3>1
  <2>2. KeySet(a \o p, k) = KeySet(a, k) \cup KeySet(p, k)
    BY <1>3, KeySets
  <2>3. KeySet(l \o b, k) = KeySet(l, k) \cup KeySet(b, k)
    BY <1>3, KeySets
  <2>4. ItemsOf(p) = {u, v}
    BY <1>5 DEF ItemsOf
  <2> QED BY <1>3, <1>4, <1>6, <2>1, <2>2, <2>3, <2>4
<1>8. Lists!Nonempty(r) \in Seq(S) /\ KeySet(Lists!Nonempty(r), k) = KeySet(r, k) \ {""}
  BY NonemptyUnique, ChosenType DEF Lists!Nonempty
<1>9. Lists!UniqueStrings(Lists!Nonempty(r)) = UniqueBy(Lists!Nonempty(r), k)
  BY <1>8, UniqueLists
<1>10. /\ UniqueBy(Lists!Nonempty(r), k) \in Seq(S)
       /\ KeySet(UniqueBy(Lists!Nonempty(r), k), k) = KeySet(Lists!Nonempty(r), k)
  BY <1>8, UniqueFacts
<1>11. q = UniqueBy(Lists!Nonempty(r), k)
  BY <1>5, <1>6, <1>9
<1> HIDE DEF q, k
<1>12. q \in Seq(S) /\ ItemsOf(q) = KeySet(r, k) \ {""}
  BY <1>4, <1>8, <1>10, <1>11
<1> QED BY <1>7, <1>12 DEF q, Joined, JoinedLaw

\* Every field of what a merge makes, by the helpers that make it.
ProductFieldLaw(b, d, at, m) ==
    /\ m.uid = Lists!Replaced(b.uid, d.uid, "")
    /\ m.uids = Lists!UniqueStrings(Lists!Nonempty(b.uids \o <<b.uid, d.uid>> \o d.uids))
    /\ m.title = Lists!Replaced(b.title, d.title, "")
    /\ m.prices = Lists!Replaced(b.prices, d.prices, <<>>)
    /\ m.solds = Lists!KeepTail(ExtendedBy("solds", b.solds, d.solds), HistoryLimit)
    /\ m.stocks = Lists!KeepTail(ExtendedBy("stocks", b.stocks, d.stocks), HistoryLimit)
    /\ m.comment_count = Lists!Replaced(b.comment_count, d.comment_count, 0)
    /\ m.offers = Lists!KeepTail(IF d.offers = <<>> THEN b.offers ELSE Before(d.offers, b.offers), OfferLimit)
    /\ m.countries = ExtendedBy("countries", b.countries, d.countries)
    /\ m.first_found_at = (IF b.first_found_at # 0 THEN b.first_found_at
                           ELSE Lists!Replaced(at, d.first_found_at, 0))
    /\ m.available = d.available

LEMMA ProductByField ==
    ASSUME NEW b, NEW d, NEW at
    PROVE  ProductFieldLaw(b, d, at, Product!MergeAt(b, d, at))
<1>1. /\ ExtendedBy("solds", b.solds, d.solds) = Lists!Extended(b.solds, d.solds, Lists!OwnKey)
      /\ ExtendedBy("countries", b.countries, d.countries) = Lists!ExtendedStrings(b.countries, d.countries)
  BY DEF ExtendedBy, UniqueOf, Keyed, Lists!Extended, Lists!ExtendedStrings
<1>2. ExtendedBy("stocks", b.stocks, d.stocks) = Product!Extended(b.stocks, d.stocks, Product!productStockKey)
  BY DEF ExtendedBy, UniqueOf, Product!Extended
<1> QED BY <1>1, <1>2, SharedLists DEF Product!MergeAt, Product!MergedSolds, Product!MergedStocks, Product!MergedOffers, Product!NoTime, Before, ProductFieldLaw

\* What a merge of products makes of every field.
ProductLaw(b, d, m) ==
    /\ Product!IsDocument(m)
    /\ Aliases(m) = (Known(b) \cup Known(d)) \ {""}
    /\ \A f \in ReplacedFields("product") : m[f] = IF Sets(f, d[f]) THEN d[f] ELSE b[f]
    /\ \A f \in KeptFields("product") : Once(f, b[f]) => Once(f, m[f])
    /\ Once("offers", b.offers) => Once("offers", m.offers)
    /\ m.first_found_at # 0 /\ (b.first_found_at # 0 => m.first_found_at = b.first_found_at)
    /\ ~Product!AtLimit(m) =>
          /\ \A f \in KeptFields("product") : m[f] = ExtendedBy(f, b[f], d[f])
          /\ Once("offers", b.offers) => m.offers = Before(d.offers, b.offers)

LEMMA ProductMerged ==
    ASSUME NEW b, Product!IsDocument(b), NEW d, Product!IsDocument(d), NEW at, at # 0
    PROVE  ProductLaw(b, d, Product!MergeAt(b, d, at))
<1> DEFINE m == Product!MergeAt(b, d, at)
<1>l. HistoryLimit \in Nat \ {0} /\ OfferLimit \in Nat \ {0}
  BY ReplayLimits
<1>d. \A f \in {"uids", "prices", "solds", "stocks", "offers", "countries"} : Lists!IsList(b[f]) /\ Lists!IsList(d[f])
  BY SharedLists DEF Product!IsDocument
<1>f. ProductFieldLaw(b, d, at, m)
  BY ProductByField
<1>1. Product!IsDocument(m)
  BY ProductTypes
<1> HIDE DEF m
<1>2. Aliases(m) = (Known(b) \cup Known(d)) \ {""}
  <2> DEFINE q == Joined(b.uids, b.uid, d.uid, d.uids)
  <2>0. Lists!IsList(b.uids) /\ Lists!IsList(d.uids)
    BY <1>d
  <2>1. ItemsOf(q) = (ItemsOf(b.uids) \cup {b.uid, d.uid} \cup ItemsOf(d.uids)) \ {""}
    <3>1. JoinedLaw(b.uids, b.uid, d.uid, d.uids)
      BY <2>0, AliasesJoined
    <3> QED BY <3>1 DEF JoinedLaw
  <2>2. m.uids = q
    BY <1>f DEF Joined, ProductFieldLaw
  <2> HIDE DEF q
  <2> QED BY <2>1, <2>2 DEF Aliases, Known
<1>3. ASSUME NEW f \in ReplacedFields("product") PROVE m[f] = IF Sets(f, d[f]) THEN d[f] ELSE b[f]
  <2>1. {"uid", "title"} \subseteq Texts /\ "prices" \in ItemLists /\ "comment_count" \in Amounts /\ "available" \in Flags
    BY DEF Texts, ItemLists, Amounts, Flags
  <2>2. /\ Empty["uid"] = "" /\ Empty["title"] = "" /\ Empty["prices"] = <<>> /\ Empty["comment_count"] = 0
    BY <2>1, Empties
  <2>3. f \in {"uid", "title", "prices", "comment_count", "available"}
    BY DEF ReplacedFields
  <2>4. "uid" \notin Flags /\ "title" \notin Flags /\ "prices" \notin Flags /\ "comment_count" \notin Flags /\ "available" \in Flags
    BY DEF Flags
  <2>5. CASE f = "uid"
    BY <1>f, <2>2, <2>4, <2>5 DEF Sets, Lists!Replaced, ProductFieldLaw
  <2>6. CASE f = "title"
    BY <1>f, <2>2, <2>4, <2>6 DEF Sets, Lists!Replaced, ProductFieldLaw
  <2>7. CASE f = "prices"
    BY <1>f, <2>2, <2>4, <2>7 DEF Sets, Lists!Replaced, ProductFieldLaw
  <2>8. CASE f = "comment_count"
    BY <1>f, <2>2, <2>4, <2>8 DEF Sets, Lists!Replaced, ProductFieldLaw
  <2>9. CASE f = "available"
    BY <1>f, <2>4, <2>9 DEF Sets, ProductFieldLaw
  <2> QED BY <2>3, <2>5, <2>6, <2>7, <2>8, <2>9
<1>s. /\ RepeatLaw("solds", b.solds, d.solds) /\ RepeatLaw("stocks", b.stocks, d.stocks)
      /\ RepeatLaw("countries", b.countries, d.countries)
  BY <1>d, RepeatLaws
<1>4. /\ Once("solds", b.solds) => Once("solds", m.solds)
      /\ Once("stocks", b.stocks) => Once("stocks", m.stocks)
      /\ Once("countries", b.countries) => Once("countries", m.countries)
  <2>1. Once("solds", b.solds) => Once("solds", ExtendedBy("solds", b.solds, d.solds))
    BY <1>s DEF RepeatLaw
  <2>2. Once("countries", b.countries) => Once("countries", ExtendedBy("countries", b.countries, d.countries))
    BY <1>s DEF RepeatLaw
  <2>3. Lists!IsList(ExtendedBy("solds", b.solds, d.solds)) /\ Lists!IsList(ExtendedBy("stocks", b.stocks, d.stocks))
    BY <1>s DEF RepeatLaw
  <2>4. Once("stocks", b.stocks) => Once("stocks", ExtendedBy("stocks", b.stocks, d.stocks))
    BY <1>s DEF RepeatLaw
  <2>5. Once("solds", b.solds) => Once("solds", m.solds)
    BY <1>f, <1>l, <2>1, <2>3, CutLists DEF ProductFieldLaw
  <2>6. Once("stocks", b.stocks) => Once("stocks", m.stocks)
    BY <1>f, <1>l, <2>3, <2>4, CutLists DEF ProductFieldLaw
  <2>7. Once("countries", b.countries) => Once("countries", m.countries)
    BY <1>f, <2>2 DEF ProductFieldLaw
  <2> QED BY <2>5, <2>6, <2>7
<1> DEFINE o == IF d.offers = <<>> THEN b.offers ELSE Before(d.offers, b.offers)
<1>o. /\ Lists!IsList(o)
      /\ Once("offers", b.offers) => Once("offers", o) /\ o = Before(d.offers, b.offers)
  BY <1>d, BeforeFacts
<1>p. m.offers = Lists!KeepTail(o, OfferLimit)
  BY <1>f DEF ProductFieldLaw
<1> HIDE DEF o
<1>5. Once("offers", b.offers) => Once("offers", m.offers)
  BY <1>l, <1>o, <1>p, CutLists
<1>6. m.first_found_at # 0 /\ (b.first_found_at # 0 => m.first_found_at = b.first_found_at)
  BY <1>f DEF Lists!Replaced, ProductFieldLaw
<1>7. ASSUME ~Product!AtLimit(m)
      PROVE  /\ m.solds = ExtendedBy("solds", b.solds, d.solds)
             /\ m.stocks = ExtendedBy("stocks", b.stocks, d.stocks)
             /\ m.countries = ExtendedBy("countries", b.countries, d.countries)
             /\ Once("offers", b.offers) => m.offers = Before(d.offers, b.offers)
  <2>1. ~(Len(m.solds) >= HistoryLimit) /\ ~(Len(m.stocks) >= HistoryLimit) /\ ~(Len(m.offers) >= OfferLimit)
    BY <1>7 DEF Product!AtLimit
  <2>2. Lists!IsList(ExtendedBy("solds", b.solds, d.solds)) /\ Lists!IsList(ExtendedBy("stocks", b.stocks, d.stocks))
    BY <1>s DEF RepeatLaw
  <2>3. m.solds = ExtendedBy("solds", b.solds, d.solds)
    BY <1>f, <1>l, <2>1, <2>2, CutLists DEF ProductFieldLaw
  <2>4. m.offers = o
    BY <1>l, <1>o, <1>p, <2>1, CutLists
  <2>5. m.stocks = ExtendedBy("stocks", b.stocks, d.stocks)
    BY <1>f, <1>l, <2>1, <2>2, CutLists DEF ProductFieldLaw
  <2> QED BY <1>f, <1>o, <2>3, <2>4, <2>5 DEF ProductFieldLaw
<1>8. KeptFields("product") = {"solds", "stocks", "countries"}
  BY DEF KeptFields
<1>9. ProductLaw(b, d, m)
  BY <1>1, <1>2, <1>3, <1>4, <1>5, <1>6, <1>7, <1>8 DEF ProductLaw
<1> QED BY <1>9 DEF m

\* What the first merge makes of a product that merges have made.
LEMMA ProductShapedAgain ==
    ASSUME NEW c, Shaped("product", c), NEW at, at # 0
    PROVE  LET b == Product!MergeAt(Product!Nothing, c, at)
           IN  /\ Aliases(b) = Aliases(c)
               /\ \A f \in ReplacedFields("product") \cup KeptFields("product") : b[f] = c[f]
               /\ b.offers = c.offers /\ b.first_found_at = c.first_found_at
<1> DEFINE z == Product!Nothing
           b == Product!MergeAt(z, c, at)
<1>c. /\ Product!IsDocument(c) /\ ~Product!AtLimit(c) /\ Once("offers", c.offers)
      /\ Once("solds", c.solds) /\ Once("stocks", c.stocks) /\ Once("countries", c.countries)
      /\ "" \notin Aliases(c) /\ c.uid \in Aliases(c) \cup {""} /\ c.first_found_at # 0
  BY DEF Shaped, KeptFields
<1>l. HistoryLimit \in Nat \ {0} /\ OfferLimit \in Nat \ {0}
  BY ReplayLimits
<1>d. \A f \in {"uids", "prices", "solds", "stocks", "offers", "countries"} : Lists!IsList(c[f])
  BY <1>c, SharedLists DEF Product!IsDocument
<1>z. Product!IsDocument(z) /\ \A f \in ProductFields : z[f] = Empty[f]
  BY NothingIsProduct, Empties
<1>1. ProductLaw(z, c, b)
  BY <1>c, <1>z, ProductMerged
<1>e. /\ z.uid = "" /\ z.uids = <<>> /\ z.solds = <<>> /\ z.stocks = <<>> /\ z.countries = <<>> /\ z.offers = <<>>
      /\ z.first_found_at = 0
  BY DEF Product!Nothing, Product!NoTime
<1>f. /\ b.solds = Lists!KeepTail(ExtendedBy("solds", <<>>, c.solds), HistoryLimit)
      /\ b.stocks = Lists!KeepTail(ExtendedBy("stocks", <<>>, c.stocks), HistoryLimit)
      /\ b.offers = Lists!KeepTail(IF c.offers = <<>> THEN <<>> ELSE Before(c.offers, <<>>), OfferLimit)
      /\ b.countries = ExtendedBy("countries", <<>>, c.countries)
      /\ b.first_found_at = Lists!Replaced(at, c.first_found_at, 0)
  <2>1. ProductFieldLaw(z, c, at, b)
    BY ProductByField
  <2> HIDE DEF z, b
  <2> QED BY <1>e, <2>1 DEF ProductFieldLaw
<1> HIDE DEF z, b
<1>2. Aliases(b) = Aliases(c)
  <2>1. Aliases(b) = (Known(z) \cup Known(c)) \ {""}
    BY <1>1 DEF ProductLaw
  <2>2. Known(z) = {""}
    <3>1. ItemsOf(<<>>) = {}
      BY DEF ItemsOf
    <3> QED BY <1>e, <3>1 DEF Known, Aliases
  <2> QED BY <1>c, <2>1, <2>2 DEF Known
<1>3. ASSUME NEW f \in ReplacedFields("product") PROVE b[f] = c[f]
  <2>1. b[f] = IF Sets(f, c[f]) THEN c[f] ELSE z[f]
    BY <1>1 DEF ProductLaw
  <2>2. f \in ProductFields
    BY DEF ReplacedFields, ProductFields
  <2> QED BY <1>z, <2>1, <2>2 DEF Sets
<1>4. b.solds = c.solds /\ b.stocks = c.stocks /\ b.countries = c.countries
  <2>1. /\ RepeatLaw("solds", c.solds, c.solds) /\ RepeatLaw("stocks", c.stocks, c.stocks)
        /\ RepeatLaw("countries", c.countries, c.countries)
    BY <1>d, RepeatLaws
  <2>2. /\ ExtendedBy("solds", <<>>, c.solds) = c.solds /\ ExtendedBy("stocks", <<>>, c.stocks) = c.stocks
        /\ ExtendedBy("countries", <<>>, c.countries) = c.countries
    BY <1>c, <2>1 DEF RepeatLaw
  <2>3. ~(Len(c.solds) >= HistoryLimit) /\ ~(Len(c.stocks) >= HistoryLimit)
    BY <1>c DEF Product!AtLimit
  <2> QED BY <1>d, <1>f, <1>l, <2>2, <2>3, CutLists
<1>5. b.offers = c.offers
  <2>1. (IF c.offers = <<>> THEN <<>> ELSE Before(c.offers, <<>>)) = c.offers
    BY <1>c, <1>d, BeforeFacts
  <2>2. ~(Len(c.offers) >= OfferLimit)
    BY <1>c DEF Product!AtLimit
  <2> QED BY <1>d, <1>f, <1>l, <2>1, <2>2, CutLists
<1>6. b.first_found_at = c.first_found_at
  BY <1>c, <1>f DEF Lists!Replaced
<1>7. KeptFields("product") = {"solds", "stocks", "countries"}
  BY DEF KeptFields
<1> QED BY <1>2, <1>3, <1>4, <1>5, <1>6, <1>7 DEF b, z

\* A merge of products keeps, extends and replaces.
LEMMA ProductRepeats ==
    ASSUME NEW c, c = Missing \/ Product!IsDocument(c), NEW d, Product!IsDocument(d), NEW at, at # 0,
           ~Product!AtLimit(Product!MergeProduct(c, d, at))
    PROVE  StepLaw("product", c, d, Product!MergeProduct(c, d, at))
<1> DEFINE b == IF c = Missing THEN Product!Nothing ELSE Product!MergeAt(Product!Nothing, c, at)
           m == Product!MergeAt(b, d, at)
           x == Product!MergeProduct(c, d, at)
<1>x. x = [m EXCEPT !.evicted_at = 0]
  BY DEF Product!MergeProduct, Product!Missing, Missing, Product!NoTime
<1>b. /\ Product!IsDocument(b)
      /\ Once("solds", b.solds) /\ Once("stocks", b.stocks)
      /\ Once("countries", b.countries) /\ Once("offers", b.offers)
  <2>1. /\ Product!IsDocument(Product!Nothing)
        /\ Once("solds", Product!Nothing.solds) /\ Once("stocks", Product!Nothing.stocks)
        /\ Once("countries", Product!Nothing.countries)
        /\ Once("offers", Product!Nothing.offers)
    <3>1. /\ Product!Nothing.solds = <<>> /\ Product!Nothing.stocks = <<>> /\ Product!Nothing.countries = <<>>
          /\ Product!Nothing.offers = <<>>
      BY DEF Product!Nothing
    <3>2. \A f : Once(f, <<>>)
      BY DEF Once
    <3> QED BY <3>1, <3>2, NothingIsProduct
  <2>2. ASSUME c # Missing PROVE ProductLaw(Product!Nothing, c, Product!MergeAt(Product!Nothing, c, at))
    BY <2>1, <2>2, ProductMerged
  <2> QED BY <2>1, <2>2 DEF ProductLaw, KeptFields
<1>s. ASSUME Shaped("product", c)
      PROVE  /\ Aliases(b) = Aliases(c)
             /\ \A f \in ReplacedFields("product") \cup KeptFields("product") : b[f] = c[f]
             /\ b.offers = c.offers /\ b.first_found_at = c.first_found_at
  <2>1. c # Missing
    <3>1. Product!IsDocument(c)
      BY <1>s DEF Shaped
    <3>2. DOMAIN c = ProductFields
      BY <3>1, Empties DEF Product!IsDocument
    <3> QED BY <3>2 DEF Missing, ProductFields
  <2> QED BY <1>s, <2>1, ProductShapedAgain
<1> HIDE DEF b
<1>1. ProductLaw(b, d, m)
  BY <1>b, ProductMerged
<1>2. Product!IsDocument(m)
  BY <1>1 DEF ProductLaw
<1> HIDE DEF m, x
<1>3. /\ Product!IsDocument(x) /\ x.evicted_at = 0
      /\ \A f \in ProductFields \ {"evicted_at"} : x[f] = m[f]
  <2>1. DOMAIN m = ProductFields /\ m = [f \in ProductFields |-> m[f]]
    BY <1>2, Empties DEF Product!IsDocument
  <2>2. "evicted_at" \in ProductFields
    BY DEF ProductFields
  <2>3. /\ DOMAIN x = ProductFields /\ x = [f \in ProductFields |-> x[f]]
        /\ x.evicted_at = 0 /\ \A f \in ProductFields \ {"evicted_at"} : x[f] = m[f]
    BY <1>x, <2>1, <2>2
  <2>4. {"uids", "prices", "solds", "stocks", "offers", "countries"} \subseteq ProductFields \ {"evicted_at"}
    BY DEF ProductFields
  <2>5. Product!IsDocument(x)
    BY <1>2, <2>3, <2>4, Empties DEF Product!IsDocument
  <2> QED BY <2>3, <2>5
<1>4. /\ x.solds = m.solds /\ x.stocks = m.stocks /\ x.countries = m.countries /\ x.offers = m.offers /\ x.uids = m.uids
      /\ x.first_found_at = m.first_found_at /\ x.uid = m.uid
      /\ \A f \in ReplacedFields("product") : x[f] = m[f]
  BY <1>3 DEF ProductFields, ReplacedFields
<1>5. ~Product!AtLimit(x) /\ ~Product!AtLimit(m)
  BY <1>4 DEF Product!AtLimit, x
<1>6. /\ x.solds = ExtendedBy("solds", b.solds, d.solds)
      /\ x.stocks = ExtendedBy("stocks", b.stocks, d.stocks)
      /\ x.countries = ExtendedBy("countries", b.countries, d.countries)
      /\ x.offers = Before(d.offers, b.offers)
      /\ Once("solds", x.solds) /\ Once("stocks", x.stocks) /\ Once("countries", x.countries) /\ Once("offers", x.offers)
  BY <1>1, <1>4, <1>5, <1>b DEF ProductLaw, KeptFields
<1>7. /\ Aliases(x) = (Known(b) \cup Known(d)) \ {""}
      /\ x.first_found_at # 0 /\ (b.first_found_at # 0 => x.first_found_at = b.first_found_at)
      /\ \A f \in ReplacedFields("product") : x[f] = IF Sets(f, d[f]) THEN d[f] ELSE b[f]
  BY <1>1, <1>4 DEF ProductLaw, Aliases
<1>8. x.uid \in Aliases(x) \cup {""}
  <2>1. x.uid \in {d.uid, b.uid}
    BY <1>7 DEF ReplacedFields
  <2> QED BY <1>7, <2>1 DEF Known
<1>9. Shaped("product", x)
  BY <1>3, <1>5, <1>6, <1>7, <1>8 DEF Shaped, KeptFields
<1>r. /\ RepeatLaw("solds", b.solds, d.solds) /\ RepeatLaw("stocks", b.stocks, d.stocks)
      /\ RepeatLaw("countries", b.countries, d.countries)
  BY <1>b, RepeatLaws, SharedLists DEF Product!IsDocument
<1>10. /\ NamesIn("solds", x.solds) = NamesIn("solds", b.solds) \cup NamesIn("solds", d.solds)
       /\ NamesIn("stocks", x.stocks) = NamesIn("stocks", b.stocks) \cup NamesIn("stocks", d.stocks)
       /\ NamesIn("countries", x.countries) = NamesIn("countries", b.countries) \cup NamesIn("countries", d.countries)
  BY <1>6, <1>r DEF RepeatLaw
<1>11. Absorbs("product", x, d)
  BY <1>7, <1>10 DEF Absorbs, KeptFields
<1>12. \E y : Lists!IsList(y) /\ x.offers = Before(d.offers, y)
  BY <1>b, <1>6, SharedLists DEF Product!IsDocument
<1>13. ASSUME Shaped("product", c)
       PROVE  /\ \A e : Absorbs("product", c, e) => Absorbs("product", x, e)
              /\ Absorbs("product", c, d) => SameKept("product", x, c)
              /\ \A f \in ReplacedFields("product") : ~Sets(f, d[f]) => x[f] = c[f]
              /\ x.offers = Before(d.offers, c.offers)
  <2>1. /\ Aliases(b) = Aliases(c) /\ b.uid = c.uid /\ b.solds = c.solds /\ b.stocks = c.stocks
        /\ b.countries = c.countries /\ b.offers = c.offers /\ b.first_found_at = c.first_found_at
        /\ \A f \in ReplacedFields("product") : b[f] = c[f]
    BY <1>s, <1>13 DEF ReplacedFields, KeptFields
  <2>2. "" \notin Aliases(c) /\ c.uid \in Aliases(c) \cup {""} /\ c.first_found_at # 0
    BY <1>13 DEF Shaped
  <2>3. Aliases(x) = (Aliases(c) \cup Known(d)) \ {""}
    BY <1>7, <2>1, <2>2 DEF Known
  <2>4. \A e : Absorbs("product", c, e) => Absorbs("product", x, e)
    BY <1>10, <2>1, <2>2, <2>3 DEF Absorbs, KeptFields
  <2>5. ASSUME Absorbs("product", c, d) PROVE SameKept("product", x, c)
    <3>1. x.solds = c.solds /\ x.stocks = c.stocks /\ x.countries = c.countries
      BY <1>6, <1>b, <1>r, <2>1, <2>5 DEF RepeatLaw, Absorbs, KeptFields
    <3>2. Aliases(x) = Aliases(c)
      BY <2>2, <2>3, <2>5 DEF Absorbs
    <3> QED BY <1>7, <2>1, <2>2, <3>1, <3>2 DEF SameKept, KeptFields
  <2> QED BY <1>6, <1>7, <2>1, <2>4, <2>5
<1>14. StepLaw("product", c, d, x)
  BY <1>7, <1>9, <1>11, <1>12, <1>13 DEF StepLaw
<1> QED BY <1>14 DEF x

\* Tracking identifiers that can be decoded.
IsPointer(t) == t = <<>> \/ (t = <<Head(t)>> /\ Offer!IsTracking(Head(t)))

\* What a merge makes of tracking identifiers.
TrackingLaw(t, u, m) ==
    /\ TrackingOnce(t) => TrackingOnce(m)
    /\ TrackingAbsorbs(m, u)
    /\ \A e : TrackingAbsorbs(t, e) => TrackingAbsorbs(m, e)
    /\ TrackingOnce(t) /\ TrackingAbsorbs(t, u) => m = t
    /\ t = <<>> /\ TrackingOnce(u) => m = u

LEMMA TrackingMerged ==
    ASSUME NEW t, IsPointer(t), NEW u, IsPointer(u)
    PROVE  TrackingLaw(t, u, Offer!mergeTrackingIDs(t, u))
<1> DEFINE m == Offer!mergeTrackingIDs(t, u)
           F == TrackingFields
           had == IF t = <<>> THEN Offer!NoTracking ELSE Head(t)
           sum == [f \in F |-> Offer!ExtendedStrings(had[f], Head(u)[f])]
<1>e. DOMAIN Offer!NoTracking = F /\ \A f \in F : Offer!NoTracking[f] = <<>>
  <2>1. F \subseteq ItemLists
    BY DEF TrackingFields, ItemLists
  <2> QED BY <2>1, Empties
<1>0. Lists!IsList(<<>>)
  <2>1. <<>> \in Seq({})
    OBVIOUS
  <2> QED BY <2>1, ItemsAreList
<1>1. CASE u = <<>>
  <2>1. m = t
    BY <1>1 DEF Offer!mergeTrackingIDs
  <2> HIDE DEF m
  <2>2. TrackingAbsorbs(m, u)
    BY <1>1 DEF TrackingAbsorbs
  <2>3. TrackingLaw(t, u, m)
    BY <1>1, <2>1, <2>2 DEF TrackingLaw
  <2> QED BY <2>3 DEF m
<1>2. CASE u # <<>>
  <2>1. m = <<sum>>
    BY <1>2, <1>e DEF Offer!mergeTrackingIDs
  <2>2. m # <<>> /\ Head(m) = sum
    BY <2>1
  <2>3. \A f \in F : Lists!IsList(had[f]) /\ Lists!IsList(Head(u)[f])
    <3>1. \A f \in F : Lists!IsList(Head(u)[f])
      BY <1>2, <1>e, SharedLists DEF IsPointer, Offer!IsTracking
    <3>2. \A f \in F : t # <<>> => Lists!IsList(Head(t)[f])
      BY <1>e, SharedLists DEF IsPointer, Offer!IsTracking
    <3> QED BY <1>0, <1>e, <3>1, <3>2
  <2>4. ASSUME NEW f \in F
        PROVE  sum[f] = ExtendedBy(f, had[f], Head(u)[f]) /\ RepeatLaw(f, had[f], Head(u)[f])
    <3>1. f \notin Keyed /\ f # "stocks"
      BY DEF Keyed, TrackingFields
    <3>2. sum[f] = Lists!ExtendedStrings(had[f], Head(u)[f])
      BY SharedLists
    <3>3. ExtendedBy(f, had[f], Head(u)[f]) = Lists!ExtendedStrings(had[f], Head(u)[f])
      BY <3>1 DEF ExtendedBy, UniqueOf, Lists!ExtendedStrings
    <3>4. RepeatLaw(f, had[f], Head(u)[f])
      BY <2>3, RepeatLaws
    <3> QED BY <3>2, <3>3, <3>4
  <2>5. \A f \in F : /\ NamesIn(f, sum[f]) = NamesIn(f, had[f]) \cup NamesIn(f, Head(u)[f])
                     /\ Once(f, had[f]) => Once(f, sum[f])
                     /\ Once(f, had[f]) /\ NamesIn(f, Head(u)[f]) \subseteq NamesIn(f, had[f]) => sum[f] = had[f]
    BY <2>4 DEF RepeatLaw
  <2>6. \A f \in F : RepeatLaw(f, Head(u)[f], Head(u)[f])
    BY <2>3, RepeatLaws
  <2>7. \A f \in F : Once(f, <<>>) /\ NamesIn(f, <<>>) = {}
    BY DEF Once, NamesIn
  <2>d. /\ t = <<>> => \A f \in F : had[f] = <<>>
        /\ t # <<>> => had = Head(t)
    BY <1>e
  <2>s. sum = [f \in F |-> sum[f]]
    OBVIOUS
  <2> HIDE DEF m, sum, had, F
  <2>8. ASSUME TrackingOnce(t) PROVE TrackingOnce(m) /\ \A f \in F : Once(f, had[f])
    <3>1. \A f \in F : Once(f, had[f])
      BY <2>8, <2>7, <2>d DEF TrackingOnce, F
    <3> QED BY <2>2, <2>5, <3>1 DEF TrackingOnce, F
  <2>9. TrackingAbsorbs(m, u)
    BY <2>2, <2>5 DEF TrackingAbsorbs, F
  <2>10. ASSUME NEW e, TrackingAbsorbs(t, e) PROVE TrackingAbsorbs(m, e)
    BY <2>2, <2>5, <2>d, <2>10 DEF TrackingAbsorbs, F
  <2>11. ASSUME TrackingOnce(t), TrackingAbsorbs(t, u) PROVE m = t
    <3>1. t # <<>> /\ had = Head(t)
      BY <1>2, <2>11, <2>d DEF TrackingAbsorbs
    <3>2. \A f \in F : sum[f] = had[f]
      <4>1. \A f \in F : NamesIn(f, Head(u)[f]) \subseteq NamesIn(f, had[f])
        BY <1>2, <2>11, <3>1 DEF TrackingAbsorbs, F
      <4>2. \A f \in F : Once(f, had[f])
        BY <2>8, <2>11
      <4> QED BY <2>5, <4>1, <4>2
    <3>3. t = <<Head(t)>> /\ Head(t) = [f \in F |-> Head(t)[f]]
      BY <1>e, <3>1 DEF IsPointer, Offer!IsTracking
    <3>4. sum = Head(t)
      BY <2>s, <3>1, <3>2, <3>3
    <3> QED BY <2>1, <3>3, <3>4
  <2>12. ASSUME t = <<>>, TrackingOnce(u) PROVE m = u
    <3>1. \A f \in F : sum[f] = Head(u)[f]
      <4>1. ASSUME NEW f \in F PROVE sum[f] = Head(u)[f]
        <5>1. Once(f, Head(u)[f])
          BY <1>2, <2>12 DEF TrackingOnce, F
        <5>2. ExtendedBy(f, <<>>, Head(u)[f]) = Head(u)[f]
          BY <2>6, <5>1 DEF RepeatLaw
        <5> QED BY <2>4, <2>d, <2>12, <5>2
      <4> QED BY <4>1
    <3>2. u = <<Head(u)>> /\ Head(u) = [f \in F |-> Head(u)[f]]
      BY <1>2, <1>e DEF IsPointer, Offer!IsTracking
    <3>3. sum = Head(u)
      BY <2>s, <3>1, <3>2
    <3> QED BY <2>1, <3>2, <3>3
  <2>13. TrackingLaw(t, u, m)
    BY <2>8, <2>9, <2>10, <2>11, <2>12 DEF TrackingLaw
  <2> QED BY <2>13 DEF m
<1> QED BY <1>1, <1>2

\* Every field of what a merge of sellers makes, by the helpers that make it.
OfferFieldLaw(b, d, at, m) ==
    /\ m.uid = Lists!Replaced(b.uid, d.uid, "")
    /\ m.uids = ExtendedBy("uids", b.uids, d.uids)
    /\ m.name = Lists!Replaced(b.name, d.name, "")
    /\ m.addresses = Lists!KeepTail(ExtendedBy("addresses", b.addresses, d.addresses), AddressLimit)
    /\ m.contacts = ExtendedBy("contacts", b.contacts, d.contacts)
    /\ m.member_since = Lists!Replaced(b.member_since, d.member_since, 0)
    /\ m.sold = Lists!Replaced(b.sold, d.sold, 0)
    /\ m.comment_count = b.comment_count
    /\ m.first_found_at = (IF b.first_found_at # 0 THEN b.first_found_at
                           ELSE Lists!Replaced(at, d.first_found_at, 0))
    /\ m.hostnames = Lists!Replaced(b.hostnames, d.hostnames, <<>>)
    /\ m.tracking_ids = Offer!mergeTrackingIDs(b.tracking_ids, d.tracking_ids)
    /\ m.has_paypal = d.has_paypal

LEMMA OfferByField ==
    ASSUME NEW b, NEW d, NEW at
    PROVE  OfferFieldLaw(b, d, at, Offer!MergeAt(b, d, at))
<1>1. /\ ExtendedBy("uids", b.uids, d.uids) = Lists!ExtendedStrings(b.uids, d.uids)
      /\ ExtendedBy("addresses", b.addresses, d.addresses) = Lists!Extended(b.addresses, d.addresses, Lists!OwnKey)
      /\ ExtendedBy("contacts", b.contacts, d.contacts) = Lists!Extended(b.contacts, d.contacts, Lists!OwnKey)
  BY DEF ExtendedBy, UniqueOf, Keyed, Lists!Extended, Lists!ExtendedStrings
<1> QED BY <1>1, SharedLists DEF Offer!MergeAt, Offer!NoTime, OfferFieldLaw

\* What a merge of sellers makes of every field.
OfferLaw(b, d, m) ==
    /\ Offer!IsDocument(m)
    /\ \A f \in ReplacedFields("offer") : m[f] = IF Sets(f, d[f]) THEN d[f] ELSE b[f]
    /\ \A f \in KeptFields("offer") : Once(f, b[f]) => Once(f, m[f])
    /\ TrackingLaw(b.tracking_ids, d.tracking_ids, m.tracking_ids)
    /\ m.comment_count = b.comment_count
    /\ m.first_found_at # 0 /\ (b.first_found_at # 0 => m.first_found_at = b.first_found_at)
    /\ ~Offer!AtLimit(m) => \A f \in KeptFields("offer") : m[f] = ExtendedBy(f, b[f], d[f])

LEMMA OfferMerged ==
    ASSUME NEW b, Offer!IsDocument(b), NEW d, Offer!IsDocument(d), NEW at, at # 0
    PROVE  OfferLaw(b, d, Offer!MergeAt(b, d, at))
<1> DEFINE m == Offer!MergeAt(b, d, at)
<1>l. AddressLimit \in Nat \ {0}
  BY ReplayLimits
<1>d. \A f \in {"uids", "addresses", "contacts", "hostnames"} : Lists!IsList(b[f]) /\ Lists!IsList(d[f])
  BY SharedLists DEF Offer!IsDocument
<1>f. OfferFieldLaw(b, d, at, m)
  BY OfferByField
<1>1. Offer!IsDocument(m)
  BY OfferTypes
<1> HIDE DEF m
<1>3. ASSUME NEW f \in ReplacedFields("offer") PROVE m[f] = IF Sets(f, d[f]) THEN d[f] ELSE b[f]
  <2>1. /\ {"uid", "name"} \subseteq Texts /\ "hostnames" \in ItemLists /\ {"member_since", "sold"} \subseteq Amounts
        /\ "has_paypal" \in Flags
    BY DEF Texts, ItemLists, Amounts, Flags
  <2>2. /\ Empty["uid"] = "" /\ Empty["name"] = "" /\ Empty["hostnames"] = <<>>
        /\ Empty["member_since"] = 0 /\ Empty["sold"] = 0
    BY <2>1, Empties
  <2>3. f \in {"uid", "name", "member_since", "sold", "hostnames", "has_paypal"}
    BY DEF ReplacedFields
  <2>4. /\ "uid" \notin Flags /\ "name" \notin Flags /\ "member_since" \notin Flags /\ "sold" \notin Flags
        /\ "hostnames" \notin Flags /\ "has_paypal" \in Flags
    BY DEF Flags
  <2>f. /\ m.uid = Lists!Replaced(b.uid, d.uid, "") /\ m.name = Lists!Replaced(b.name, d.name, "")
        /\ m.member_since = Lists!Replaced(b.member_since, d.member_since, 0)
        /\ m.sold = Lists!Replaced(b.sold, d.sold, 0)
        /\ m.hostnames = Lists!Replaced(b.hostnames, d.hostnames, <<>>)
        /\ m.has_paypal = d.has_paypal
    BY <1>f DEF OfferFieldLaw
  <2>5. CASE f = "uid"
    BY <2>f, <2>2, <2>4, <2>5 DEF Sets, Lists!Replaced
  <2>6. CASE f = "name"
    BY <2>f, <2>2, <2>4, <2>6 DEF Sets, Lists!Replaced
  <2>7. CASE f = "hostnames"
    BY <2>f, <2>2, <2>4, <2>7 DEF Sets, Lists!Replaced
  <2>8. CASE f = "member_since"
    BY <2>f, <2>2, <2>4, <2>8 DEF Sets, Lists!Replaced
  <2>9. CASE f = "sold"
    BY <2>f, <2>2, <2>4, <2>9 DEF Sets, Lists!Replaced
  <2>10. CASE f = "has_paypal"
    BY <2>f, <2>4, <2>10 DEF Sets
  <2> QED BY <2>3, <2>5, <2>6, <2>7, <2>8, <2>9, <2>10
<1>k. KeptFields("offer") = {"uids", "addresses", "contacts"}
  BY DEF KeptFields
<1>s. \A f \in KeptFields("offer") : RepeatLaw(f, b[f], d[f])
  BY <1>d, <1>k, RepeatLaws
<1>t. \A f \in KeptFields("offer") :
         /\ Lists!IsList(ExtendedBy(f, b[f], d[f]))
         /\ Once(f, b[f]) => Once(f, ExtendedBy(f, b[f], d[f]))
  BY <1>s DEF RepeatLaw
<1>g. /\ m.uids = ExtendedBy("uids", b.uids, d.uids)
      /\ m.addresses = Lists!KeepTail(ExtendedBy("addresses", b.addresses, d.addresses), AddressLimit)
      /\ m.contacts = ExtendedBy("contacts", b.contacts, d.contacts)
  BY <1>f DEF OfferFieldLaw
<1>4. \A f \in KeptFields("offer") : Once(f, b[f]) => Once(f, m[f])
  <2>1. Once("addresses", b.addresses) => Once("addresses", m.addresses)
    BY <1>g, <1>k, <1>l, <1>t, CutLists
  <2> QED BY <1>g, <1>k, <1>t, <2>1
<1>5. TrackingLaw(b.tracking_ids, d.tracking_ids, m.tracking_ids)
  <2>1. IsPointer(b.tracking_ids) /\ IsPointer(d.tracking_ids)
    BY DEF Offer!IsDocument, IsPointer
  <2>2. m.tracking_ids = Offer!mergeTrackingIDs(b.tracking_ids, d.tracking_ids)
    BY <1>f DEF OfferFieldLaw
  <2> QED BY <2>1, <2>2, TrackingMerged
<1>6. /\ m.first_found_at # 0 /\ (b.first_found_at # 0 => m.first_found_at = b.first_found_at)
      /\ m.comment_count = b.comment_count
  BY <1>f DEF Lists!Replaced, OfferFieldLaw
<1>7. ASSUME ~Offer!AtLimit(m) PROVE \A f \in KeptFields("offer") : m[f] = ExtendedBy(f, b[f], d[f])
  <2>1. ~(Len(m.addresses) >= AddressLimit)
    BY <1>7 DEF Offer!AtLimit
  <2>2. m.addresses = ExtendedBy("addresses", b.addresses, d.addresses)
    BY <1>g, <1>k, <1>l, <1>t, <2>1, CutLists
  <2> QED BY <1>g, <1>k, <2>2
<1>9. OfferLaw(b, d, m)
  BY <1>1, <1>3, <1>4, <1>5, <1>6, <1>7 DEF OfferLaw
<1> QED BY <1>9 DEF m

\* What the first merge makes of a seller that merges have made.
LEMMA OfferShapedAgain ==
    ASSUME NEW c, Shaped("offer", c), NEW at, at # 0
    PROVE  LET b == Offer!MergeAt(Offer!Nothing, c, at)
           IN  /\ \A f \in ReplacedFields("offer") \cup KeptFields("offer") : b[f] = c[f]
               /\ b.tracking_ids = c.tracking_ids /\ b.first_found_at = c.first_found_at
<1> DEFINE z == Offer!Nothing
           b == Offer!MergeAt(z, c, at)
<1>c. /\ Offer!IsDocument(c) /\ ~Offer!AtLimit(c) /\ TrackingOnce(c.tracking_ids)
      /\ Once("uids", c.uids) /\ Once("addresses", c.addresses) /\ Once("contacts", c.contacts)
      /\ c.first_found_at # 0
  BY DEF Shaped, KeptFields
<1>l. AddressLimit \in Nat \ {0}
  BY ReplayLimits
<1>d. \A f \in {"uids", "addresses", "contacts", "hostnames"} : Lists!IsList(c[f])
  BY <1>c, SharedLists DEF Offer!IsDocument
<1>z. Offer!IsDocument(z) /\ \A f \in OfferFields : z[f] = Empty[f]
  BY NothingIsOffer, Empties
<1>1. OfferLaw(z, c, b)
  BY <1>c, <1>z, OfferMerged
<1>e. /\ z.uids = <<>> /\ z.addresses = <<>> /\ z.contacts = <<>> /\ z.tracking_ids = <<>>
      /\ z.first_found_at = 0
  BY DEF Offer!Nothing, Offer!NoTime
<1>f. /\ b.uids = ExtendedBy("uids", <<>>, c.uids)
      /\ b.addresses = Lists!KeepTail(ExtendedBy("addresses", <<>>, c.addresses), AddressLimit)
      /\ b.contacts = ExtendedBy("contacts", <<>>, c.contacts)
      /\ b.first_found_at = Lists!Replaced(at, c.first_found_at, 0)
  <2>1. OfferFieldLaw(z, c, at, b)
    BY OfferByField
  <2> HIDE DEF z, b
  <2> QED BY <1>e, <2>1 DEF OfferFieldLaw
<1> HIDE DEF z, b
<1>3. ASSUME NEW f \in ReplacedFields("offer") PROVE b[f] = c[f]
  <2>1. b[f] = IF Sets(f, c[f]) THEN c[f] ELSE z[f]
    BY <1>1 DEF OfferLaw
  <2>2. f \in OfferFields
    BY DEF ReplacedFields, OfferFields
  <2> QED BY <1>z, <2>1, <2>2 DEF Sets
<1>4. b.uids = c.uids /\ b.addresses = c.addresses /\ b.contacts = c.contacts
  <2>1. /\ RepeatLaw("uids", c.uids, c.uids) /\ RepeatLaw("addresses", c.addresses, c.addresses)
        /\ RepeatLaw("contacts", c.contacts, c.contacts)
    BY <1>d, RepeatLaws
  <2>2. /\ ExtendedBy("uids", <<>>, c.uids) = c.uids
        /\ ExtendedBy("addresses", <<>>, c.addresses) = c.addresses
        /\ ExtendedBy("contacts", <<>>, c.contacts) = c.contacts
    BY <1>c, <2>1 DEF RepeatLaw
  <2>3. ~(Len(c.addresses) >= AddressLimit)
    BY <1>c DEF Offer!AtLimit
  <2> QED BY <1>d, <1>f, <1>l, <2>2, <2>3, CutLists
<1>5. b.tracking_ids = c.tracking_ids
  <2>1. TrackingLaw(z.tracking_ids, c.tracking_ids, b.tracking_ids)
    BY <1>1 DEF OfferLaw
  <2> QED BY <1>c, <1>e, <2>1 DEF TrackingLaw
<1>6. b.first_found_at = c.first_found_at
  BY <1>c, <1>f DEF Lists!Replaced
<1>7. KeptFields("offer") = {"uids", "addresses", "contacts"}
  BY DEF KeptFields
<1> QED BY <1>3, <1>4, <1>5, <1>6, <1>7 DEF b, z

\* A merge of sellers keeps, extends and replaces.
LEMMA OfferRepeats ==
    ASSUME NEW c, c = Missing \/ Offer!IsDocument(c), NEW d, Offer!IsDocument(d), NEW at, at # 0,
           ~Offer!AtLimit(Offer!MergeOffer(c, d, at))
    PROVE  StepLaw("offer", c, d, Offer!MergeOffer(c, d, at))
<1> DEFINE b == IF c = Missing THEN Offer!Nothing ELSE Offer!MergeAt(Offer!Nothing, c, at)
           m == Offer!MergeAt(b, d, at)
           x == Offer!MergeOffer(c, d, at)
<1>x. x = [m EXCEPT !.evicted_at = 0]
  BY DEF Offer!MergeOffer, Offer!Missing, Missing, Offer!NoTime
<1>k. KeptFields("offer") = {"uids", "addresses", "contacts"}
  BY DEF KeptFields
<1>b. /\ Offer!IsDocument(b) /\ b.comment_count = 0 /\ TrackingOnce(b.tracking_ids)
      /\ \A f \in KeptFields("offer") : Once(f, b[f])
  <2>1. /\ Offer!IsDocument(Offer!Nothing) /\ Offer!Nothing.comment_count = 0
        /\ TrackingOnce(Offer!Nothing.tracking_ids)
        /\ \A f \in KeptFields("offer") : Once(f, Offer!Nothing[f])
    <3>1. /\ Offer!Nothing.uids = <<>> /\ Offer!Nothing.addresses = <<>>
          /\ Offer!Nothing.contacts = <<>> /\ Offer!Nothing.tracking_ids = <<>>
          /\ Offer!Nothing.comment_count = 0
      BY DEF Offer!Nothing
    <3>2. \A f : Once(f, <<>>)
      BY DEF Once
    <3> QED BY <1>k, <3>1, <3>2, NothingIsOffer DEF TrackingOnce
  <2>2. ASSUME c # Missing PROVE OfferLaw(Offer!Nothing, c, Offer!MergeAt(Offer!Nothing, c, at))
    BY <2>1, <2>2, OfferMerged
  <2> QED BY <2>1, <2>2 DEF OfferLaw, TrackingLaw
<1>s. ASSUME Shaped("offer", c)
      PROVE  /\ \A f \in ReplacedFields("offer") \cup KeptFields("offer") : b[f] = c[f]
             /\ b.tracking_ids = c.tracking_ids /\ b.first_found_at = c.first_found_at
  <2>1. c # Missing
    <3>1. Offer!IsDocument(c)
      BY <1>s DEF Shaped
    <3>2. DOMAIN c = OfferFields
      BY <3>1, Empties DEF Offer!IsDocument
    <3> QED BY <3>2 DEF Missing, OfferFields
  <2> QED BY <1>s, <2>1, OfferShapedAgain
<1> HIDE DEF b
<1>1. OfferLaw(b, d, m)
  BY <1>b, OfferMerged
<1>2. Offer!IsDocument(m)
  BY <1>1 DEF OfferLaw
<1> HIDE DEF m, x
<1>3. /\ Offer!IsDocument(x) /\ x.evicted_at = 0
      /\ \A f \in OfferFields \ {"evicted_at"} : x[f] = m[f]
  <2>1. DOMAIN m = OfferFields /\ m = [f \in OfferFields |-> m[f]]
    BY <1>2, Empties DEF Offer!IsDocument
  <2>2. "evicted_at" \in OfferFields
    BY DEF OfferFields
  <2>3. /\ DOMAIN x = OfferFields /\ x = [f \in OfferFields |-> x[f]]
        /\ x.evicted_at = 0 /\ \A f \in OfferFields \ {"evicted_at"} : x[f] = m[f]
    BY <1>x, <2>1, <2>2
  <2>4. {"uids", "addresses", "contacts", "hostnames", "tracking_ids"} \subseteq OfferFields \ {"evicted_at"}
    BY DEF OfferFields
  <2>5. Offer!IsDocument(x)
    <3>1. /\ \A f \in {"uids", "addresses", "contacts", "hostnames"} : Offer!IsList(x[f])
          /\ x.tracking_ids = m.tracking_ids
      BY <1>2, <2>3, <2>4 DEF Offer!IsDocument
    <3>2. m.tracking_ids = <<>> \/ (m.tracking_ids = <<Head(m.tracking_ids)>> /\ Offer!IsTracking(Head(m.tracking_ids)))
      BY <1>2 DEF Offer!IsDocument
    <3>3. x = [f \in DOMAIN Offer!Nothing |-> x[f]]
      BY <2>3, Empties
    <3> QED BY <3>1, <3>2, <3>3 DEF Offer!IsDocument
  <2> QED BY <2>3, <2>5
<1>4. /\ \A f \in KeptFields("offer") \cup ReplacedFields("offer") : x[f] = m[f]
      /\ x.tracking_ids = m.tracking_ids /\ x.comment_count = m.comment_count
      /\ x.first_found_at = m.first_found_at /\ x.addresses = m.addresses
  BY <1>3 DEF OfferFields, ReplacedFields, KeptFields
<1>5. ~Offer!AtLimit(x) /\ ~Offer!AtLimit(m)
  BY <1>4 DEF Offer!AtLimit, x
<1>6. /\ \A f \in KeptFields("offer") : x[f] = ExtendedBy(f, b[f], d[f]) /\ Once(f, x[f])
      /\ TrackingLaw(b.tracking_ids, d.tracking_ids, x.tracking_ids)
      /\ x.comment_count = 0
      /\ x.first_found_at # 0 /\ (b.first_found_at # 0 => x.first_found_at = b.first_found_at)
      /\ \A f \in ReplacedFields("offer") : x[f] = IF Sets(f, d[f]) THEN d[f] ELSE b[f]
  BY <1>1, <1>4, <1>5, <1>b DEF OfferLaw
<1>9. Shaped("offer", x)
  <2>1. TrackingOnce(x.tracking_ids)
    BY <1>6, <1>b DEF TrackingLaw
  <2> QED BY <1>3, <1>5, <1>6, <2>1 DEF Shaped
<1>r. \A f \in KeptFields("offer") : RepeatLaw(f, b[f], d[f])
  BY <1>b, <1>k, RepeatLaws, SharedLists DEF Offer!IsDocument
<1>10. \A f \in KeptFields("offer") :
          /\ NamesIn(f, x[f]) = NamesIn(f, b[f]) \cup NamesIn(f, d[f])
          /\ NamesIn(f, d[f]) \subseteq NamesIn(f, b[f]) => x[f] = b[f]
  BY <1>6, <1>b, <1>r DEF RepeatLaw
<1>t. /\ TrackingAbsorbs(x.tracking_ids, d.tracking_ids)
      /\ \A e : TrackingAbsorbs(b.tracking_ids, e) => TrackingAbsorbs(x.tracking_ids, e)
      /\ TrackingAbsorbs(b.tracking_ids, d.tracking_ids) => x.tracking_ids = b.tracking_ids
  BY <1>6, <1>b DEF TrackingLaw
<1>11. Absorbs("offer", x, d)
  BY <1>10, <1>t DEF Absorbs
<1>13. ASSUME Shaped("offer", c)
       PROVE  /\ \A e : Absorbs("offer", c, e) => Absorbs("offer", x, e)
              /\ Absorbs("offer", c, d) => SameKept("offer", x, c)
              /\ \A f \in ReplacedFields("offer") : ~Sets(f, d[f]) => x[f] = c[f]
  <2>1. /\ \A f \in KeptFields("offer") : b[f] = c[f]
        /\ \A f \in ReplacedFields("offer") : b[f] = c[f]
        /\ b.tracking_ids = c.tracking_ids /\ b.first_found_at = c.first_found_at
        /\ c.first_found_at # 0
    BY <1>s, <1>13 DEF Shaped
  <2>4. \A e : Absorbs("offer", c, e) => Absorbs("offer", x, e)
    BY <1>10, <1>t, <2>1 DEF Absorbs
  <2>5. Absorbs("offer", c, d) => SameKept("offer", x, c)
    BY <1>6, <1>10, <1>t, <2>1 DEF Absorbs, SameKept
  <2> QED BY <1>6, <2>1, <2>4, <2>5
<1>14. StepLaw("offer", c, d, x)
  BY <1>6, <1>9, <1>11, <1>13 DEF StepLaw
<1> QED BY <1>14 DEF x

-----------------------------------------------------------------------------
(* What a log makes of a document, in terms of the log: which document set  *)
(* a replaced field last, and which offers were put before the others.      *)

\* The offers of documents c + 1 to n of the log, the newest first.
Word(l, w, c, n) ==
    /\ Lists!IsList(w)
    /\ \E g : /\ g[c] = <<>> /\ w = g[n]
              /\ \A i \in (c + 1)..n : g[i] = l[i].offers \o g[i - 1]

\* The last of the first n documents that sets the field sets it to v.
LastSet(l, f, n, v) ==
    \E j \in 1..n : /\ l[j][f] = v /\ Sets(f, l[j][f])
                    /\ \A i \in (j + 1)..n : ~Sets(f, l[i][f])

\* The first n documents have been merged into x.
Merged(k, l, x, n) ==
    /\ \A i \in 1..n : Absorbs(k, x, l[i])
    /\ \A f \in ReplacedFields(k) : (\E i \in 1..n : Sets(f, l[i][f])) => LastSet(l, f, n, x[f])
    /\ k = "product" =>
          \A c \in 0..n : \E w, y : Word(l, w, c, n) /\ Lists!IsList(y) /\ x.offers = Before(w, y)

\* Document s has been merged again with some of the documents up to n, x is what it is now.
Replayed(k, l, s, x, n) ==
    /\ \A f \in ReplacedFields(k) : x[f] = s[f] \/ LastSet(l, f, n, x[f])
    /\ k = "product" =>
          \E c \in 0..n : \E w : Word(l, w, c, n) /\ x.offers = Before(w, s.offers)

\* The words of a log.
LEMMA WordStarts ==
    ASSUME NEW l, NEW n \in Nat
    PROVE  Word(l, <<>>, n, n)
<1> DEFINE g == [i \in {n} |-> <<>>]
<1>1. g[n] = <<>> /\ (n + 1)..n = {}
  OBVIOUS
<1>2. Lists!IsList(<<>>)
  <2>1. <<>> \in Seq({})
    OBVIOUS
  <2> QED BY <2>1, ItemsAreList
<1> HIDE DEF g
<1> QED BY <1>1, <1>2 DEF Word

LEMMA WordExtends ==
    ASSUME NEW l, NEW n \in Nat, NEW c \in 0..n, NEW w, Word(l, w, c, n), Lists!IsList(l[n + 1].offers)
    PROVE  Word(l, l[n + 1].offers \o w, c, n + 1)
<1>1. PICK g : /\ g[c] = <<>> /\ w = g[n]
               /\ \A i \in (c + 1)..n : g[i] = l[i].offers \o g[i - 1]
  BY DEF Word
<1> DEFINE v == l[n + 1].offers \o w
           h == [i \in 0..(n + 1) |-> IF i = n + 1 THEN v ELSE g[i]]
<1>2. Lists!IsList(v)
  BY BeforeFacts DEF Word
<1>3. h[n + 1] = v /\ \A i \in 0..n : h[i] = g[i]
  BY SMTT(30)
<1> HIDE DEF h, v
<1>4. h[c] = <<>> /\ h[n] = w
  BY <1>1, <1>3
<1>5. ASSUME NEW i \in (c + 1)..(n + 1) PROVE h[i] = l[i].offers \o h[i - 1]
  <2>1. CASE i = n + 1
    <3>1. i - 1 = n
      BY <2>1
    <3> QED BY <1>3, <1>4, <2>1, <3>1 DEF v
  <2>2. CASE i # n + 1
    <3>1. i \in (c + 1)..n /\ i \in 0..n /\ i - 1 \in 0..n
      BY <2>2
    <3> QED BY <1>1, <1>3, <3>1
  <2> QED BY <2>1, <2>2
<1>6. Word(l, v, c, n + 1)
  BY <1>2, <1>3, <1>4, <1>5 DEF Word
<1> QED BY <1>6 DEF v

\* There is one.
LEMMA WordUnique ==
    ASSUME NEW l, NEW n \in Nat, NEW c \in 0..n, NEW w, NEW v, Word(l, w, c, n), Word(l, v, c, n)
    PROVE  w = v
<1>1. PICK g : /\ g[c] = <<>> /\ w = g[n]
               /\ \A i \in (c + 1)..n : g[i] = l[i].offers \o g[i - 1]
  BY DEF Word
<1>2. PICK h : /\ h[c] = <<>> /\ v = h[n]
               /\ \A i \in (c + 1)..n : h[i] = l[i].offers \o h[i - 1]
  BY DEF Word
<1> DEFINE T == {m \in Nat : c + m <= n => g[c + m] = h[c + m]}
<1>3. 0 \in T
  BY <1>1, <1>2
<1>4. ASSUME NEW m \in Nat, m \in T PROVE m + 1 \in T
  <2> SUFFICES ASSUME c + (m + 1) <= n PROVE g[c + (m + 1)] = h[c + (m + 1)]
    OBVIOUS
  <2>1. g[c + m] = h[c + m]
    BY <1>4
  <2>2. PICK i \in (c + 1)..n : i = c + (m + 1) /\ i - 1 = c + m
    <3>1. c + (m + 1) \in (c + 1)..n /\ c + (m + 1) - 1 = c + m
      OBVIOUS
    <3> QED BY <3>1
  <2>3. g[i] = l[i].offers \o g[i - 1] /\ h[i] = l[i].offers \o h[i - 1]
    BY <1>1, <1>2
  <2> QED BY <2>1, <2>2, <2>3
<1> HIDE DEF T
<1>5. Nat \subseteq T
  BY <1>3, <1>4, NumberInduction
<1>6. n - c \in T
  BY <1>5
<1>7. c + (n - c) = n
  OBVIOUS
<1> QED BY <1>1, <1>2, <1>6, <1>7 DEF T

\* The last document that sets a field.
LEMMA LastFacts ==
    ASSUME NEW l, NEW f, NEW n \in Nat
    PROVE  /\ Sets(f, l[n + 1][f]) => LastSet(l, f, n + 1, l[n + 1][f])
           /\ \A v : ~Sets(f, l[n + 1][f]) /\ LastSet(l, f, n, v) => LastSet(l, f, n + 1, v)
           /\ \A v, w : LastSet(l, f, n, v) /\ LastSet(l, f, n, w) => v = w
           /\ \A v : LastSet(l, f, n, v) => \E i \in 1..n : Sets(f, l[i][f])
<1>1. Sets(f, l[n + 1][f]) => LastSet(l, f, n + 1, l[n + 1][f])
  BY DEF LastSet
<1>2. ASSUME NEW v, ~Sets(f, l[n + 1][f]), LastSet(l, f, n, v) PROVE LastSet(l, f, n + 1, v)
  <2>1. PICK j \in 1..n : /\ l[j][f] = v /\ Sets(f, l[j][f])
                          /\ \A i \in (j + 1)..n : ~Sets(f, l[i][f])
    BY <1>2 DEF LastSet
  <2>2. \A i \in (j + 1)..(n + 1) : i \in (j + 1)..n \/ i = n + 1
    OBVIOUS
  <2>3. \A i \in (j + 1)..(n + 1) : ~Sets(f, l[i][f])
    BY <1>2, <2>1, <2>2
  <2>4. j \in 1..(n + 1)
    OBVIOUS
  <2> QED BY <2>1, <2>3, <2>4 DEF LastSet
<1>3. ASSUME NEW v, NEW w, LastSet(l, f, n, v), LastSet(l, f, n, w) PROVE v = w
  <2>1. PICK i \in 1..n : /\ l[i][f] = v /\ Sets(f, l[i][f])
                          /\ \A h \in (i + 1)..n : ~Sets(f, l[h][f])
    BY <1>3 DEF LastSet
  <2>2. PICK j \in 1..n : /\ l[j][f] = w /\ Sets(f, l[j][f])
                          /\ \A h \in (j + 1)..n : ~Sets(f, l[h][f])
    BY <1>3 DEF LastSet
  <2>3. i < j => j \in (i + 1)..n
    OBVIOUS
  <2>4. j < i => i \in (j + 1)..n
    OBVIOUS
  <2>5. i = j
    BY <2>1, <2>2, <2>3, <2>4
  <2> QED BY <2>1, <2>2, <2>5
<1>4. \A v : LastSet(l, f, n, v) => \E i \in 1..n : Sets(f, l[i][f])
  BY DEF LastSet
<1> QED BY <1>1, <1>2, <1>3, <1>4

\* A longer log has the same words and settings.
LEMMA LongerLog ==
    ASSUME NEW k, NEW l, NEW m, NEW x, NEW n \in Nat, \A i \in 1..n : m[i] = l[i], Merged(k, l, x, n)
    PROVE  Merged(k, m, x, n)
<1>1. ASSUME NEW w, NEW c \in 0..n, Word(l, w, c, n) PROVE Word(m, w, c, n)
  <2>1. PICK g : /\ g[c] = <<>> /\ w = g[n]
                 /\ \A i \in (c + 1)..n : g[i] = l[i].offers \o g[i - 1]
    BY <1>1 DEF Word
  <2>2. \A i \in (c + 1)..n : i \in 1..n
    OBVIOUS
  <2>3. \A i \in (c + 1)..n : g[i] = m[i].offers \o g[i - 1]
    BY <2>1, <2>2
  <2> QED BY <1>1, <2>1, <2>3 DEF Word
<1>2. ASSUME NEW f, NEW v, LastSet(l, f, n, v) PROVE LastSet(m, f, n, v)
  <2>1. PICK j \in 1..n : /\ l[j][f] = v /\ Sets(f, l[j][f])
                          /\ \A i \in (j + 1)..n : ~Sets(f, l[i][f])
    BY <1>2 DEF LastSet
  <2>2. \A i \in (j + 1)..n : i \in 1..n
    OBVIOUS
  <2> QED BY <2>1, <2>2 DEF LastSet
<1>3. \A i \in 1..n : Absorbs(k, x, m[i])
  BY DEF Merged
<1>4. ASSUME NEW f \in ReplacedFields(k), \E i \in 1..n : Sets(f, m[i][f]) PROVE LastSet(m, f, n, x[f])
  <2>1. \E i \in 1..n : Sets(f, l[i][f])
    BY <1>4
  <2>2. LastSet(l, f, n, x[f])
    BY <2>1 DEF Merged
  <2> QED BY <1>2, <2>2
<1>5. ASSUME k = "product", NEW c \in 0..n
      PROVE  \E w, y : Word(m, w, c, n) /\ Lists!IsList(y) /\ x.offers = Before(w, y)
  <2>1. PICK w, y : Word(l, w, c, n) /\ Lists!IsList(y) /\ x.offers = Before(w, y)
    BY <1>5 DEF Merged
  <2> QED BY <1>1, <2>1
<1> QED BY <1>3, <1>4, <1>5 DEF Merged

\* Some lists of a document that merges have made.
LEMMA ShapedOffers ==
    ASSUME NEW x, Shaped("product", x)
    PROVE  Lists!IsList(x.offers) /\ Once("offers", x.offers)
<1>1. Product!IsDocument(x) /\ Once("offers", x.offers)
  BY DEF Shaped
<1> QED BY <1>1, SharedLists DEF Product!IsDocument

\* The first document of the log.
LEMMA MergedFirst ==
    ASSUME NEW k, NEW l, NEW c, NEW x, StepLaw(k, c, l[1], x),
           k = "product" => Lists!IsList(l[1].offers)
    PROVE  Merged(k, l, x, 1)
<1>1. \A i \in 1..1 : i = 1
  OBVIOUS
<1>2. \A i \in 1..1 : Absorbs(k, x, l[i])
  BY <1>1 DEF StepLaw
<1>3. ASSUME NEW f \in ReplacedFields(k), \E i \in 1..1 : Sets(f, l[i][f]) PROVE LastSet(l, f, 1, x[f])
  <2>1. Sets(f, l[1][f]) /\ x[f] = l[1][f]
    BY <1>1, <1>3 DEF StepLaw
  <2>2. 1 \in 1..1 /\ (1 + 1)..1 = {}
    OBVIOUS
  <2> QED BY <2>1, <2>2 DEF LastSet
<1>4. ASSUME k = "product", NEW b \in 0..1
      PROVE  \E w, y : Word(l, w, b, 1) /\ Lists!IsList(y) /\ x.offers = Before(w, y)
  <2>s. Lists!IsList(x.offers) /\ Once("offers", x.offers)
    BY <1>4, ShapedOffers DEF StepLaw
  <2>1. CASE b = 1
    <3>1. Word(l, <<>>, 1, 1)
      BY WordStarts
    <3>2. Before(<<>>, x.offers) = x.offers
      BY <2>s, BeforeFacts
    <3> QED BY <2>1, <2>s, <3>1, <3>2
  <2>2. CASE b = 0
    <3>1. Word(l, <<>>, 0, 0) /\ 0 + 1 = 1 /\ 0 \in 0..0
      BY WordStarts
    <3>2. Lists!IsList(l[0 + 1].offers)
      BY <1>4, <3>1
    <3>3. Word(l, l[0 + 1].offers \o <<>>, 0, 0 + 1)
      BY <3>1, <3>2, WordExtends
    <3>4. PICK y : Lists!IsList(y) /\ x.offers = Before(l[1].offers, y)
      BY <1>4 DEF StepLaw
    <3>5. l[1].offers \o <<>> = l[1].offers
      <4>1. PICK S : l[1].offers \in Seq(S)
        BY <1>4 DEF Lists!IsList
      <4> QED BY <4>1
    <3> QED BY <2>2, <3>1, <3>3, <3>4, <3>5
  <2> QED BY <2>1, <2>2
<1> QED BY <1>2, <1>3, <1>4 DEF Merged

\* The next one.
LEMMA MergedNext ==
    ASSUME NEW k, NEW l, NEW c, NEW x, NEW n \in Nat, Shaped(k, c), Merged(k, l, c, n),
           StepLaw(k, c, l[n + 1], x), k = "product" => Lists!IsList(l[n + 1].offers)
    PROVE  Merged(k, l, x, n + 1)
<1>0. \A i \in 1..(n + 1) : i \in 1..n \/ i = n + 1
  OBVIOUS
<1>1. \A i \in 1..(n + 1) : Absorbs(k, x, l[i])
  BY <1>0 DEF StepLaw, Merged
<1>2. ASSUME NEW f \in ReplacedFields(k), \E i \in 1..(n + 1) : Sets(f, l[i][f]) PROVE LastSet(l, f, n + 1, x[f])
  <2>1. CASE Sets(f, l[n + 1][f])
    <3>1. x[f] = l[n + 1][f]
      BY <2>1 DEF StepLaw
    <3> QED BY <2>1, <3>1, LastFacts
  <2>2. CASE ~Sets(f, l[n + 1][f])
    <3>1. x[f] = c[f]
      BY <2>2 DEF StepLaw
    <3>2. \E i \in 1..n : Sets(f, l[i][f])
      BY <1>0, <1>2, <2>2
    <3>3. LastSet(l, f, n, c[f])
      BY <3>2 DEF Merged
    <3> QED BY <2>2, <3>1, <3>3, LastFacts
  <2> QED BY <2>1, <2>2
<1>3. ASSUME k = "product", NEW b \in 0..(n + 1)
      PROVE  \E w, y : Word(l, w, b, n + 1) /\ Lists!IsList(y) /\ x.offers = Before(w, y)
  <2>s. Lists!IsList(x.offers) /\ Once("offers", x.offers)
    BY <1>3, ShapedOffers DEF StepLaw
  <2>1. CASE b = n + 1
    <3>1. Word(l, <<>>, n + 1, n + 1)
      BY WordStarts
    <3>2. Before(<<>>, x.offers) = x.offers
      BY <2>s, BeforeFacts
    <3> QED BY <2>1, <2>s, <3>1, <3>2
  <2>2. CASE b # n + 1
    <3>1. b \in 0..n
      BY <2>2
    <3>2. PICK w, y : Word(l, w, b, n) /\ Lists!IsList(y) /\ c.offers = Before(w, y)
      BY <1>3, <3>1 DEF Merged
    <3> DEFINE d == l[n + 1].offers
    <3>3. Lists!IsList(d) /\ Lists!IsList(w)
      BY <1>3, <3>2 DEF Word
    <3>4. Word(l, d \o w, b, n + 1)
      BY <3>1, <3>2, <3>3, WordExtends
    <3>5. x.offers = Before(d, c.offers)
      BY <1>3 DEF StepLaw
    <3> HIDE DEF d
    <3>6. x.offers = Before(d \o w, y)
      BY <3>2, <3>3, <3>5, BeforeTwice
    <3> QED BY <3>2, <3>4, <3>6
  <2> QED BY <2>1, <2>2
<1> QED BY <1>1, <1>2, <1>3 DEF Merged

\* The replay starts anywhere.
LEMMA ReplayStarts ==
    ASSUME NEW k, NEW l, NEW s, NEW x, NEW n \in Nat, Shaped(k, s),
           \A f \in ReplacedFields(k) : x[f] = s[f], k = "product" => x.offers = s.offers
    PROVE  Replayed(k, l, s, x, n)
<1>1. ASSUME k = "product" PROVE \E c \in 0..n : \E w : Word(l, w, c, n) /\ x.offers = Before(w, s.offers)
  <2>1. Word(l, <<>>, n, n) /\ n \in 0..n
    BY WordStarts
  <2>2. Before(<<>>, s.offers) = s.offers
    BY <1>1, ShapedOffers, BeforeFacts
  <2> QED BY <1>1, <2>1, <2>2
<1> QED BY <1>1 DEF Replayed

\* It goes on.
LEMMA ReplayGoesOn ==
    ASSUME NEW k, NEW l, NEW s, NEW c, NEW x, NEW n \in Nat, Shaped(k, c), Shaped(k, s), Replayed(k, l, s, c, n),
           StepLaw(k, c, l[n + 1], x), k = "product" => Lists!IsList(l[n + 1].offers)
    PROVE  Replayed(k, l, s, x, n + 1)
<1>1. ASSUME NEW f \in ReplacedFields(k) PROVE x[f] = s[f] \/ LastSet(l, f, n + 1, x[f])
  <2>1. CASE Sets(f, l[n + 1][f])
    <3>1. x[f] = l[n + 1][f]
      BY <2>1 DEF StepLaw
    <3> QED BY <2>1, <3>1, LastFacts
  <2>2. CASE ~Sets(f, l[n + 1][f])
    <3>1. x[f] = c[f]
      BY <2>2 DEF StepLaw
    <3>2. c[f] = s[f] \/ LastSet(l, f, n, c[f])
      BY DEF Replayed
    <3> QED BY <2>2, <3>1, <3>2, LastFacts
  <2> QED BY <2>1, <2>2
<1>2. ASSUME k = "product"
      PROVE  \E b \in 0..(n + 1) : \E w : Word(l, w, b, n + 1) /\ x.offers = Before(w, s.offers)
  <2>0. PICK b \in 0..n : \E w : Word(l, w, b, n) /\ c.offers = Before(w, s.offers)
    BY <1>2 DEF Replayed
  <2>1. PICK w : Word(l, w, b, n) /\ c.offers = Before(w, s.offers)
    BY <2>0
  <2> DEFINE d == l[n + 1].offers
  <2>2. Lists!IsList(d) /\ Lists!IsList(w) /\ Lists!IsList(s.offers)
    BY <1>2, <2>1, ShapedOffers DEF Word
  <2>3. Word(l, d \o w, b, n + 1)
    BY <2>1, <2>2, WordExtends
  <2>4. x.offers = Before(d, c.offers)
    BY <1>2 DEF StepLaw
  <2>5. b \in 0..(n + 1)
    OBVIOUS
  <2> HIDE DEF d
  <2>6. x.offers = Before(d \o w, s.offers)
    BY <2>1, <2>2, <2>4, BeforeTwice
  <2> QED BY <2>3, <2>5, <2>6
<1> QED BY <1>1, <1>2 DEF Replayed

\* And ends where it had.
LEMMA ReplayEnds ==
    ASSUME NEW k, NEW l, NEW s, NEW x, NEW n \in Nat, Merged(k, l, s, n), Replayed(k, l, s, x, n)
    PROVE  /\ \A f \in ReplacedFields(k) : x[f] = s[f]
           /\ k = "product" => x.offers = s.offers
<1>1. ASSUME NEW f \in ReplacedFields(k) PROVE x[f] = s[f]
  <2>1. CASE LastSet(l, f, n, x[f])
    <3>1. \E i \in 1..n : Sets(f, l[i][f])
      BY <2>1, LastFacts
    <3>2. LastSet(l, f, n, s[f])
      BY <3>1 DEF Merged
    <3> QED BY <2>1, <3>2, LastFacts
  <2> QED BY <2>1 DEF Replayed
<1>2. ASSUME k = "product" PROVE x.offers = s.offers
  <2>0. PICK c \in 0..n : \E w : Word(l, w, c, n) /\ x.offers = Before(w, s.offers)
    BY <1>2 DEF Replayed
  <2>1. PICK w : Word(l, w, c, n) /\ x.offers = Before(w, s.offers)
    BY <2>0
  <2>2. PICK v, y : Word(l, v, c, n) /\ Lists!IsList(y) /\ s.offers = Before(v, y)
    BY <1>2, <2>1 DEF Merged
  <2>3. v = w
    BY <2>1, <2>2, WordUnique
  <2>4. Lists!IsList(w)
    BY <2>1 DEF Word
  <2>5. Before(w, Before(w, y)) = Before(w, y)
    BY <2>2, <2>4, BeforeTwice
  <2> QED BY <2>1, <2>2, <2>3, <2>5
<1> QED BY <1>1, <1>2

-----------------------------------------------------------------------------
(* Replays end where the log had ended first. *)

Kind == IF feed.kind = "product" THEN "product" ELSE "offer"

\* Before the restart, the log so far has been merged; after it the document
\* has been merged with the whole log and then with a part of it again.
Replay ==
    /\ restarts = 0 /\ position > 0 =>
          /\ Shaped(Kind, expected) /\ Merged(Kind, log, expected, position)
          /\ position = Len(log) => settled = expected
    /\ restarts > 0 =>
          /\ Shaped(Kind, settled) /\ Merged(Kind, log, settled, Len(log))
          /\ Shaped(Kind, expected) /\ SameKept(Kind, expected, settled)
          /\ Replayed(Kind, log, settled, expected, position)

Converging ==
    /\ ReplayTypes
    /\ restarts > 0 => Len(log) = MaxLog
    /\ ~capped => Replay

\* One step of the reference model.
LEMMA StepRepeats ==
    ASSUME NEW c, c = Missing \/ IsDocument(c), NEW d, IsDocument(d), NEW at, at # 0,
           ~AtLimit(Reference(c, d, at))
    PROVE  StepLaw(Kind, c, d, Reference(c, d, at))
<1>1. CASE feed.kind = "product"
  BY <1>1, ProductRepeats DEF Kind, IsDocument, AtLimit, Reference
<1>2. CASE feed.kind # "product"
  BY <1>2, OfferRepeats DEF Kind, IsDocument, AtLimit, Reference
<1> QED BY <1>1, <1>2

\* The lists of offers in the log.
LEMMA LogOffers ==
    ASSUME ReplayTypes, Kind = "product", NEW i \in 1..Len(log)
    PROVE  Lists!IsList(log[i].offers)
<1>1. Product!IsDocument(log[i])
  BY FeedDocuments DEF Kind, IsDocument
<1> QED BY <1>1, SharedLists DEF Product!IsDocument

\* Documents with the same fields.
LEMMA SameDocuments ==
    ASSUME NEW x, NEW s, Shaped(Kind, x), Shaped(Kind, s), SameKept(Kind, x, s),
           \A f \in ReplacedFields(Kind) : x[f] = s[f], Kind = "product" => x.offers = s.offers
    PROVE  IF feed.kind = "product" THEN Product!SameButTime(x, s) ELSE Offer!SameButTime(x, s)
<1>1. CASE feed.kind = "product"
  <2>k. Kind = "product"
    BY <1>1 DEF Kind
  <2>1. /\ x.uid = s.uid /\ x.title = s.title /\ x.prices = s.prices /\ x.comment_count = s.comment_count
        /\ x.available = s.available /\ x.offers = s.offers
    BY <2>k DEF ReplacedFields
  <2>2. /\ x.solds = s.solds /\ x.stocks = s.stocks /\ x.countries = s.countries /\ x.first_found_at = s.first_found_at
        /\ x.evicted_at = 0 /\ s.evicted_at = 0 /\ Aliases(x) = Aliases(s)
        /\ Product!IsDocument(x) /\ Product!IsDocument(s)
    BY <2>k DEF SameKept, Shaped, KeptFields
  <2>3. \A f \in ProductFields \ {"uids", "last_found_at"} : x[f] = s[f]
    BY <2>1, <2>2 DEF ProductFields
  <2>4. x = [f \in ProductFields |-> x[f]] /\ s = [f \in ProductFields |-> s[f]]
    BY <2>2, Empties DEF Product!IsDocument
  <2>5. [x EXCEPT !.last_found_at = 0, !.uids = <<>>] = [s EXCEPT !.last_found_at = 0, !.uids = <<>>]
    BY ONLY <2>3, <2>4
  <2>6. Product!ToSet(x.uids) = Aliases(x) /\ Product!ToSet(s.uids) = Aliases(s)
    <3>1. Product!IsList(x.uids) /\ Product!IsList(s.uids)
      BY <2>2 DEF Product!IsDocument
    <3>2. DOMAIN x.uids = 1..Len(x.uids) /\ DOMAIN s.uids = 1..Len(s.uids)
      BY <3>1 DEF Product!IsList
    <3> QED BY <3>2 DEF Product!ToSet, Aliases, ItemsOf
  <2> QED BY <1>1, <2>2, <2>5, <2>6 DEF Product!SameButTime, Product!NoTime
<1>2. CASE feed.kind # "product"
  <2>k. Kind = "offer"
    BY <1>2 DEF Kind
  <2>1. /\ x.uid = s.uid /\ x.name = s.name /\ x.member_since = s.member_since /\ x.sold = s.sold
        /\ x.hostnames = s.hostnames /\ x.has_paypal = s.has_paypal
    BY <2>k DEF ReplacedFields
  <2>2. /\ x.uids = s.uids /\ x.addresses = s.addresses /\ x.contacts = s.contacts
        /\ x.first_found_at = s.first_found_at /\ x.tracking_ids = s.tracking_ids
        /\ x.evicted_at = 0 /\ s.evicted_at = 0 /\ x.comment_count = 0 /\ s.comment_count = 0
        /\ Offer!IsDocument(x) /\ Offer!IsDocument(s)
    BY <2>k DEF SameKept, Shaped, KeptFields
  <2>3. \A f \in OfferFields \ {"last_found_at"} : x[f] = s[f]
    BY <2>1, <2>2 DEF OfferFields
  <2>4. x = [f \in OfferFields |-> x[f]] /\ s = [f \in OfferFields |-> s[f]]
    BY <2>2, Empties DEF Offer!IsDocument
  <2>5. [x EXCEPT !.last_found_at = 0] = [s EXCEPT !.last_found_at = 0]
    BY ONLY <2>3, <2>4
  <2> QED BY <1>2, <2>5 DEF Offer!SameButTime, Offer!NoTime
<1> QED BY <1>1, <1>2

\* At the log's end, the document is what it had been.
LEMMA ReplayAtEnd ==
    ASSUME ReplayTypes, Replay, position = Len(log), position > 0
    PROVE  /\ Shaped(Kind, settled) /\ Shaped(Kind, expected) /\ SameKept(Kind, expected, settled)
           /\ Merged(Kind, log, settled, Len(log))
           /\ \A f \in ReplacedFields(Kind) : expected[f] = settled[f]
           /\ Kind = "product" => expected.offers = settled.offers
<1>0. restarts = 0 \/ restarts > 0
  BY DEF ReplayTypes
<1>1. CASE restarts = 0
  <2>1. settled = expected /\ Shaped(Kind, expected) /\ Merged(Kind, log, expected, Len(log))
    BY <1>1 DEF Replay
  <2>2. SameKept(Kind, expected, settled)
    BY <2>1 DEF SameKept
  <2> QED BY <2>1, <2>2
<1>2. CASE restarts > 0
  <2>1. /\ Shaped(Kind, settled) /\ Merged(Kind, log, settled, Len(log))
        /\ Shaped(Kind, expected) /\ SameKept(Kind, expected, settled)
        /\ Replayed(Kind, log, settled, expected, Len(log))
    BY <1>2 DEF Replay
  <2>2. Len(log) \in Nat
    BY DEF ReplayTypes
  <2> QED BY <2>1, <2>2, ReplayEnds
<1> QED BY <1>0, <1>1, <1>2

\* A step keeps the replay on its way.
LEMMA ConsumeConverges ==
    ASSUME ReplayTypes, Consume, ~capped, ~AtLimit(expected'), Replay
    PROVE  Replay'
<1> DEFINE n == position
           d == log[n + 1]
           x == Reference(expected, d, now)
<1>t. /\ n \in Nat /\ n + 1 \in 1..Len(log) /\ Len(log) \in Nat /\ restarts \in Nat /\ now # 0
      /\ expected = Missing \/ IsDocument(expected)
  BY DEF Consume, ReplayTypes
<1>p. /\ position' = n + 1 /\ expected' = x /\ log' = log /\ feed' = feed /\ restarts' = restarts
      /\ settled' = IF n + 1 = Len(log) /\ restarts = 0 THEN x ELSE settled
  BY DEF Consume
<1>k. Kind' = Kind
  BY <1>p DEF Kind
<1>d. IsDocument(d)
  BY <1>t, FeedDocuments
<1>l. ~AtLimit(x)
  BY <1>p DEF AtLimit
<1>1. StepLaw(Kind, expected, d, x)
  BY <1>d, <1>l, <1>t, StepRepeats
<1>o. Kind = "product" => Lists!IsList(log[n + 1].offers)
  BY <1>t, LogOffers
<1>2. Shaped(Kind, x)
  BY <1>1 DEF StepLaw
<1> HIDE DEF x, d
<1>3. ASSUME restarts = 0
      PROVE  Merged(Kind, log, x, n + 1)
  <2>1. CASE n = 0
    <3>1. StepLaw(Kind, expected, log[1], x) /\ (Kind = "product" => Lists!IsList(log[1].offers))
      BY <1>1, <1>o, <2>1 DEF d
    <3>2. Merged(Kind, log, x, 1)
      BY <3>1, MergedFirst
    <3> QED BY <2>1, <3>2
  <2>2. CASE n # 0
    <3>1. Shaped(Kind, expected) /\ Merged(Kind, log, expected, n)
      BY <1>3, <1>t, <2>2 DEF Replay
    <3>2. StepLaw(Kind, expected, log[n + 1], x)
      BY <1>1 DEF d
    <3> QED BY <1>o, <1>t, <3>1, <3>2, MergedNext
  <2> QED BY <2>1, <2>2
<1>4. ASSUME restarts > 0
      PROVE  /\ Shaped(Kind, settled) /\ Merged(Kind, log, settled, Len(log))
             /\ SameKept(Kind, x, settled)
             /\ Replayed(Kind, log, settled, x, n + 1)
  <2>1. /\ Shaped(Kind, settled) /\ Merged(Kind, log, settled, Len(log))
        /\ Shaped(Kind, expected) /\ SameKept(Kind, expected, settled)
        /\ Replayed(Kind, log, settled, expected, n)
    BY <1>4 DEF Replay
  <2>2. Absorbs(Kind, settled, d)
    BY <1>t, <2>1 DEF Merged, d
  <2>3. Absorbs(Kind, expected, d)
    BY <2>1, <2>2 DEF Absorbs, SameKept
  <2>4. SameKept(Kind, x, expected)
    BY <1>1, <2>1, <2>3 DEF StepLaw
  <2>5. SameKept(Kind, x, settled)
    BY <2>1, <2>4 DEF SameKept
  <2>6. StepLaw(Kind, expected, log[n + 1], x)
    BY <1>1 DEF d
  <2>7. Replayed(Kind, log, settled, x, n + 1)
    BY <1>o, <1>t, <2>1, <2>6, ReplayGoesOn
  <2> QED BY <2>1, <2>5, <2>7
<1>5. restarts' = 0 /\ position' > 0 =>
         /\ Shaped(Kind', expected') /\ Merged(Kind', log', expected', position')
         /\ position' = Len(log') => settled' = expected'
  BY <1>2, <1>3, <1>k, <1>p
<1>6. restarts' > 0 =>
         /\ Shaped(Kind', settled') /\ Merged(Kind', log', settled', Len(log'))
         /\ Shaped(Kind', expected') /\ SameKept(Kind', expected', settled')
         /\ Replayed(Kind', log', settled', expected', position')
  BY <1>2, <1>4, <1>k, <1>p
<1> QED BY <1>5, <1>6 DEF Replay

LEMMA ReplayInductive ==
    /\ ReplayInit => Converging
    /\ Converging /\ [ReplayNext]_replayVars => Converging'
<1>1. ReplayInit => Converging
  BY ReplayTyped DEF ReplayInit, Converging, Replay
<1>2. Converging /\ [ReplayNext]_replayVars => Converging'
  <2> SUFFICES ASSUME Converging, [ReplayNext]_replayVars PROVE Converging'
    OBVIOUS
  <2>t. ReplayTypes /\ ReplayTypes'
    BY ReplayTyped DEF Converging
  <2>n. Len(log) \in Nat /\ position \in 0..Len(log) /\ restarts \in Nat /\ log \in Seq(feed.documents)
    BY <2>t DEF ReplayTypes
  <2>1. CASE Publish
    <3>1. PICK e \in feed.documents : log' = Append(log, e)
      BY <2>1 DEF Publish
    <3>2. /\ Len(log') = Len(log) + 1 /\ \A i \in 1..Len(log) : log'[i] = log[i]
      BY <2>n, <3>1
    <3>3. restarts = 0 /\ restarts' = restarts /\ position = Len(log) /\ position' = position
      BY <2>1, <2>n DEF Publish, Converging
    <3>4. Kind' = Kind /\ expected' = expected /\ capped' = capped
      BY <2>1 DEF Publish, Kind
    <3>5. ASSUME ~capped PROVE Replay'
      <4>1. ASSUME position > 0 PROVE Shaped(Kind, expected) /\ Merged(Kind, log', expected, position)
        <5>1. Shaped(Kind, expected) /\ Merged(Kind, log, expected, position)
          BY <3>3, <3>5, <4>1 DEF Converging, Replay
        <5> QED BY <2>n, <3>2, <3>3, <5>1, LongerLog
      <4>2. position' # Len(log') /\ restarts' = 0
        BY <2>n, <3>2, <3>3
      <4> QED BY <3>3, <3>4, <4>1, <4>2 DEF Replay
    <3> QED BY <2>t, <3>3, <3>4, <3>5 DEF Converging
  <2>2. CASE Consume
    <3>1. capped' = (capped \/ AtLimit(expected')) /\ restarts' = restarts /\ log' = log
      BY <2>2 DEF Consume
    <3>2. ~capped' => Replay'
      BY <2>2, <2>t, <3>1, ConsumeConverges DEF Converging
    <3> QED BY <2>t, <3>1, <3>2 DEF Converging
  <2>3. CASE Restart
    <3>1. /\ position = Len(log) /\ position = MaxLog /\ log' = log /\ expected' = expected
          /\ settled' = settled /\ capped' = capped /\ restarts' = restarts + 1 /\ Kind' = Kind
      BY <2>3 DEF Restart, Kind
    <3>2. position > 0 /\ position' \in Nat
      <4>1. PICK committed \in 0..(position - 1) : position' = committed
        BY <2>3 DEF Restart
      <4> QED BY <2>n, <4>1
    <3>3. ASSUME ~capped PROVE Replay'
      <4>1. Replay
        BY <3>3 DEF Converging
      <4>2. /\ Shaped(Kind, settled) /\ Shaped(Kind, expected) /\ SameKept(Kind, expected, settled)
            /\ Merged(Kind, log, settled, Len(log))
            /\ \A f \in ReplacedFields(Kind) : expected[f] = settled[f]
            /\ Kind = "product" => expected.offers = settled.offers
        BY <2>t, <3>1, <3>2, <4>1, ReplayAtEnd
      <4>3. Replayed(Kind, log, settled, expected, position')
        BY <3>2, <4>2, ReplayStarts
      <4>4. restarts' > 0 /\ restarts' # 0
        BY <2>n, <3>1
      <4> QED BY <3>1, <4>2, <4>3, <4>4 DEF Replay
    <3> QED BY <2>t, <3>1, <3>3 DEF Converging
  <2>4. CASE UNCHANGED replayVars
    BY <2>4, <2>t DEF Converging, Replay, replayVars, Kind
  <2> QED BY <2>1, <2>2, <2>3, <2>4 DEF ReplayNext
<1> QED BY <1>1, <1>2

\* Both merges, fed as a partition of Kafka feeds a Worker: repeating any
\* suffix of the log, as often as the Worker restarts, leaves the document as
\* it was, for every log and every feed, as long as no list has been cut.
THEOREM ReplaysConverge == ReplaySpec => []ReplayConverges
<1>1. Converging => ReplayConverges
  <2> SUFFICES ASSUME Converging, position = Len(log), restarts > 0, ~capped
               PROVE  IF feed.kind = "product" THEN Product!SameButTime(expected, settled)
                      ELSE Offer!SameButTime(expected, settled)
    BY DEF ReplayConverges
  <2>1. ReplayTypes /\ Replay
    BY DEF Converging
  <2>2. /\ Shaped(Kind, settled) /\ Shaped(Kind, expected) /\ SameKept(Kind, expected, settled)
        /\ Replayed(Kind, log, settled, expected, Len(log)) /\ Merged(Kind, log, settled, Len(log))
    BY <2>1 DEF Replay
  <2>3. Len(log) \in Nat
    BY <2>1 DEF ReplayTypes
  <2>4. /\ \A f \in ReplacedFields(Kind) : expected[f] = settled[f]
        /\ Kind = "product" => expected.offers = settled.offers
    BY <2>2, <2>3, ReplayEnds
  <2> QED BY <2>2, <2>4, SameDocuments
<1> QED BY <1>1, ReplayInductive, PTL DEF ReplaySpec
-----------------------------------------------------------------------------
(* The conversion of what a program returns. *)

Key == Int \cup UNION {Keys(heap, t) : t \in DOMAIN heap.entries}

Node(p) == output[p].kind \in Containers
Matches(o, value) == o.id = value.id /\ (o.kind \in Containers <=> IsTable(value))
OnStack(p) == \E i \in 1..Len(stack) : stack[i].path = p
Waiting(p, k) == \E i \in 1..Len(stack) : stack[i].path = p /\ k \in stack[i].left

\* A table is complete when a path to it has left the branch.
Complete == {output[p].id : p \in {q \in DOMAIN output : Node(q) /\ ~OnStack(q)}}

Live == stage = "converting" \/ verdict = "merged"

FramesOK ==
    /\ stack \in Seq([table : DOMAIN heap.entries, path : Seq(Key), left : SUBSET Key])
    /\ active = {stack[i].table : i \in 1..Len(stack)}

\* The live calls are a branch of the tree.
Branch ==
    /\ \A i \in 1..Len(stack) :
          /\ Len(stack[i].path) = i - 1
          /\ stack[i].path \in DOMAIN output
          /\ Node(stack[i].path) /\ output[stack[i].path].id = stack[i].table
          /\ stack[i].left \subseteq KeysRead(heap, stack[i].table)
          /\ stack[i].table \in Reachable
    /\ \A i, j \in 1..Len(stack) : stack[i].table = stack[j].table => i = j
    /\ \A i \in 1..Len(stack) : i + 1 <= Len(stack) =>
          /\ stack[i + 1].table \in Edges(stack[i].table)
          /\ \E k \in Key : stack[i + 1].path = Append(stack[i].path, k)

\* What is converted is a tree.
Rooted ==
    /\ DOMAIN output \subseteq Seq(Key) /\ <<>> \in DOMAIN output
    /\ \A q \in DOMAIN output : q # <<>> =>
          \E p \in DOMAIN output : \E k \in Key :
             q = Append(p, k) /\ Node(p) /\ k \in KeysRead(heap, output[p].id)

\* It is what the tables hold.
Held ==
    /\ Matches(output[<<>>], heap.root)
    /\ \A p \in DOMAIN output : \A k \in Key :
          Append(p, k) \in DOMAIN output =>
             Matches(output[Append(p, k)], Entry(heap, output[p].id, k))
    /\ \A p \in DOMAIN output : Node(p) =>
          /\ output[p].id \in Reachable
          /\ Form(heap, output[p].id) = "array" => Contiguous(heap, output[p].id)

\* Nothing is skipped, and nothing is converted twice.
Exhaustive ==
    /\ \A p \in DOMAIN output : Node(p) =>
          \A k \in KeysRead(heap, output[p].id) :
             Append(p, k) \in DOMAIN output \/ Waiting(p, k)
    /\ \A p \in DOMAIN output : \A k \in Key :
          Waiting(p, k) => Append(p, k) \notin DOMAIN output

\* No cycle is hidden among the tables that are complete.
Acyclic ==
    \A S \in SUBSET Complete : (\A t \in S : Edges(t) \cap S # {}) => S = {}

Tree == FramesOK /\ Branch /\ Rooted /\ Held /\ Exhaustive /\ Acyclic

\* What holds at every stage of a merge.
Stages ==
    /\ stage \in {"idle", "calling", "returned", "converting"}
    /\ stage \in {"returned", "converting"} \/ verdict \in {"merged", "cycle"} => IsHeap(heap)
    /\ stage # "idle" => verdict = "none"
    /\ stage = "calling" => given \in Documents /\ Convertible(given)
    /\ stage # "converting" => stack = <<>> /\ active = {}
    /\ stage \in {"calling", "returned"} => output = <<>>
    /\ stage = "converting" => stack # <<>>

IInv == Stages /\ (Live => Tree) /\ (verdict = "cycle" => Cyclic)
-----------------------------------------------------------------------------
(* Sequences. *)

\* A path with one key more, and what remains without it.
LEMMA AppendFacts ==
    ASSUME NEW S, NEW p \in Seq(S), NEW k \in S
    PROVE  /\ Append(p, k) \in Seq(S) /\ Len(Append(p, k)) = Len(p) + 1 /\ Append(p, k) # <<>>
           /\ Append(p, k)[Len(p) + 1] = k /\ Front(Append(p, k)) = p
BY DEF Front

\* Two extended paths are equal only if both parts are.
LEMMA AppendIsInjective ==
    ASSUME NEW S, NEW p \in Seq(S), NEW q \in Seq(S), NEW k \in S, NEW j \in S, Append(p, k) = Append(q, j)
    PROVE  p = q /\ k = j
<1>1. Front(Append(p, k)) = p /\ Front(Append(q, j)) = q
  BY AppendFacts
<1>2. p = q
  BY <1>1
<1>3. QED
  BY <1>2, AppendFacts

\* The last element of a sequence is one of its elements.
LEMMA LastOf ==
    ASSUME NEW S, NEW s \in Seq(S), s # <<>>
    PROVE  Len(s) \in Nat \ {0} /\ Len(s) \in 1..Len(s) /\ s[Len(s)] \in S
OBVIOUS

\* A sequence without its last element keeps the others.
LEMMA AllButLast ==
    ASSUME NEW S, NEW s \in Seq(S), s # <<>>
    PROVE  /\ SubSeq(s, 1, Len(s) - 1) \in Seq(S)
           /\ Len(SubSeq(s, 1, Len(s) - 1)) = Len(s) - 1
           /\ \A i \in 1..(Len(s) - 1) : SubSeq(s, 1, Len(s) - 1)[i] = s[i]
<1> DEFINE n == Len(s) - 1
<1>1. n \in Nat /\ \A i \in 1..n : s[i] \in S
  OBVIOUS
<1> HIDE DEF n
<1>2. /\ SubSeq(s, 1, n) \in Seq(S)
      /\ Len(SubSeq(s, 1, n)) = IF 1 <= n THEN n - 1 + 1 ELSE 0
      /\ \A i \in 1..(n - 1 + 1) : SubSeq(s, 1, n)[i] = s[1 + i - 1]
  BY <1>1, SubSeqProperties
<1>3. /\ Len(SubSeq(s, 1, n)) = n
      /\ \A i \in 1..n : SubSeq(s, 1, n)[i] = s[i]
  BY <1>1, <1>2
<1>4. QED
  BY <1>2, <1>3 DEF n
-----------------------------------------------------------------------------
(* Heaps. *)

\* The keys the conversion reads of a table are keys of the heap.
LEMMA KeysReadAreKeys ==
    ASSUME IsHeap(heap), NEW t \in DOMAIN heap.entries
    PROVE  KeysRead(heap, t) \subseteq Key
<1>1. Count(heap, t) \in Nat
  BY FS_CardinalityType DEF IsHeap, Count
<1>2. 1..Count(heap, t) \subseteq Int
  BY <1>1
<1>3. Keys(heap, t) \subseteq Key
  BY DEF Key
<1>4. QED
  BY <1>2, <1>3 DEF KeysRead, Key

\* A table held by a table is a table of the heap.
LEMMA EntryInHeap ==
    ASSUME IsHeap(heap), NEW t \in DOMAIN heap.entries, NEW k, IsTable(Entry(heap, t, k))
    PROVE  Entry(heap, t, k).id \in DOMAIN heap.entries
<1>1. k \in Keys(heap, t)
  BY DEF IsTable, Entry, Value
<1>2. Entry(heap, t, k) = heap.entries[t][k]
  BY <1>1 DEF Entry
<1>3. heap.entries[t][k] \in UNION {{heap.entries[u][j] : j \in Keys(heap, u)} : u \in DOMAIN heap.entries}
  BY <1>1
<1>4. QED
  BY <1>2, <1>3 DEF IsHeap, IsTable

\* So is the table the program returned.
LEMMA RootInHeap ==
    ASSUME IsHeap(heap), IsTable(heap.root)
    PROVE  heap.root.id \in DOMAIN heap.entries
BY DEF IsHeap, IsTable

\* References stay within the heap.
LEMMA EdgesInHeap ==
    ASSUME IsHeap(heap), NEW t \in DOMAIN heap.entries, NEW u \in Edges(t)
    PROVE  u \in DOMAIN heap.entries
BY EntryInHeap DEF Edges

\* A table read under a key is one reference away.
LEMMA EntryIsEdge ==
    ASSUME NEW t, NEW k \in KeysRead(heap, t), IsTable(Entry(heap, t, k))
    PROVE  Entry(heap, t, k).id \in Edges(t)
BY DEF Edges

\* The returned table is reachable.
LEMMA RootIsReachable ==
    ASSUME IsHeap(heap), IsTable(heap.root)
    PROVE  heap.root.id \in Reachable
BY RootInHeap DEF Reachable, ClosedSet

\* What a reachable table refers to is reachable.
LEMMA EdgesAreReachable ==
    ASSUME IsHeap(heap), NEW t \in Reachable, NEW u \in Edges(t)
    PROVE  u \in Reachable
<1>1. u \in DOMAIN heap.entries
  BY EdgesInHeap DEF Reachable
<1>2. QED
  BY <1>1 DEF Reachable, ClosedSet
-----------------------------------------------------------------------------
(* What the invariant says of a merge that has ended. *)

\* At the end the converted tables are closed under references.
LEMMA CompleteIsClosed ==
    ASSUME IsHeap(heap), Tree, stack = <<>>
    PROVE  ClosedSet(Complete) /\ Complete \subseteq DOMAIN heap.entries
<1>1. ~\E p : OnStack(p)
  BY DEF OnStack
<1>2. ~\E p, k : Waiting(p, k)
  BY DEF Waiting
<1>3. Complete \subseteq Reachable
  BY DEF Complete, Tree, Held
<1>4. IsTable(heap.root) => heap.root.id \in Complete
  BY <1>1 DEF Complete, Tree, Held, Rooted, Matches, Node
<1>5. ASSUME NEW t \in Complete, NEW u \in Edges(t) PROVE u \in Complete
  <2>1. PICK p \in DOMAIN output : Node(p) /\ t = output[p].id
    BY <1>5 DEF Complete
  <2>2. PICK k \in KeysRead(heap, t) : IsTable(Entry(heap, t, k)) /\ u = Entry(heap, t, k).id
    BY <1>5 DEF Edges
  <2>3. t \in DOMAIN heap.entries
    BY <1>3, <1>5 DEF Reachable
  <2>4. k \in Key
    BY <2>2, <2>3, KeysReadAreKeys
  <2>5. Append(p, k) \in DOMAIN output
    BY <2>1, <2>2, <1>2 DEF Tree, Exhaustive
  <2>6. Matches(output[Append(p, k)], Entry(heap, t, k))
    BY <2>1, <2>4, <2>5 DEF Tree, Held
  <2>7. QED
    BY <2>2, <2>5, <2>6, <1>1 DEF Matches, Complete, Node
<1>6. QED
  BY <1>3, <1>4, <1>5 DEF ClosedSet, Reachable

\* So a merge that ended well had no cycle to meet.
LEMMA MergedIsAcyclic ==
    ASSUME IInv, verdict = "merged"
    PROVE  ~Cyclic
<1>1. IsHeap(heap) /\ Tree /\ stack = <<>>
  BY DEF IInv, Live, Stages
<1>2. Reachable \subseteq Complete
  BY <1>1, CompleteIsClosed DEF Reachable
<1>3. QED
  BY <1>1, <1>2 DEF Cyclic, Tree, Acyclic

\* And its output holds, path by path, what the program returned.
LEMMA MergedIsFaithful ==
    ASSUME IInv, verdict = "merged", ~Ambiguous, NEW p \in DOMAIN output
    PROVE  /\ output[p].id = Holding(p).id
           /\ IsTable(Holding(p)) => KeysIn(p) = Keys(heap, output[p].id)
<1>1. IsHeap(heap) /\ Tree /\ stack = <<>>
  BY DEF IInv, Live, Stages
<1>2. DOMAIN output \subseteq Seq(Key) /\ p \in Seq(Key)
  BY <1>1 DEF Tree, Rooted
<1>3. Matches(output[p], Holding(p))
  <2>1. CASE p = <<>>
    BY <2>1, <1>1 DEF Holding, Tree, Held
  <2>2. CASE p # <<>>
    <3>1. PICK q \in DOMAIN output : \E k \in Key : p = Append(q, k)
      BY <2>2, <1>1 DEF Tree, Rooted
    <3>2. PICK k \in Key : p = Append(q, k)
      BY <3>1
    <3>3. Front(p) = q /\ p[Len(p)] = k
      BY <3>2, <1>2, AppendFacts
    <3>4. QED
      BY <2>2, <3>2, <3>3, <1>1 DEF Holding, Tree, Held
  <2>3. QED
    BY <2>1, <2>2
<1>4. ASSUME IsTable(Holding(p)) PROVE KeysIn(p) = Keys(heap, output[p].id)
  <2>1. Node(p) /\ output[p].id \in Reachable
    BY <1>1, <1>3, <1>4 DEF Matches, Node, Tree, Held
  <2>2. KeysRead(heap, output[p].id) = Keys(heap, output[p].id)
    <3>1. CASE Form(heap, output[p].id) = "array"
      <4>1. Contiguous(heap, output[p].id)
        BY <2>1, <3>1, <1>1 DEF Tree, Held
      <4>2. QED
        BY <2>1, <3>1, <4>1 DEF Contiguous, Ambiguous, KeysRead
    <3>2. QED
      BY <3>1 DEF KeysRead
  <2>3. KeysRead(heap, output[p].id) \subseteq Key
    BY <1>1, <2>1, KeysReadAreKeys DEF Reachable
  <2>4. ASSUME NEW k \in KeysRead(heap, output[p].id) PROVE k \in KeysIn(p)
    <3>1. Append(p, k) \in DOMAIN output
      BY <1>1, <2>1, <2>4 DEF Tree, Exhaustive, Waiting
    <3>2. Append(p, k) # <<>> /\ Front(Append(p, k)) = p
          /\ Append(p, k)[Len(Append(p, k))] = k
      BY <1>2, <2>3, <2>4, AppendFacts
    <3>3. QED
      BY <3>1, <3>2 DEF KeysIn
  <2>5. ASSUME NEW k \in KeysIn(p) PROVE k \in KeysRead(heap, output[p].id)
    <3>1. PICK q \in DOMAIN output : q # <<>> /\ Front(q) = p /\ k = q[Len(q)]
      BY <2>5 DEF KeysIn
    <3>2. PICK r \in DOMAIN output : \E j \in Key :
             q = Append(r, j) /\ j \in KeysRead(heap, output[r].id)
      BY <3>1, <1>1 DEF Tree, Rooted
    <3>3. PICK j \in Key : q = Append(r, j) /\ j \in KeysRead(heap, output[r].id)
      BY <3>2
    <3>4. r = p /\ j = k
      BY <3>1, <3>3, <1>2, AppendFacts
    <3>5. QED
      BY <3>3, <3>4
  <2>6. QED
    BY <2>2, <2>4, <2>5
<1>5. QED
  BY <1>3, <1>4 DEF Matches

\* The invariant implies both properties.
LEMMA InvariantMeaning == IInv => CyclesAreRefused /\ Faithful
BY MergedIsAcyclic, MergedIsFaithful DEF IInv, CyclesAreRefused, Faithful
-----------------------------------------------------------------------------
\* The invariant holds before the program has returned.
LEMMA InitIInv == Init => IInv
BY DEF Init, IInv, Stages, Live

\* Whatever is said of the heap alone stays true while the heap does.
LEMMA SameHeap ==
    ASSUME heap' = heap
    PROVE  Key' = Key /\ Reachable' = Reachable /\ (\A t : Edges(t)' = Edges(t)) /\ (Cyclic => Cyclic')
<1>1. Key' = Key
  BY DEF Key
<1>2. ASSUME NEW t PROVE Edges(t)' = Edges(t)
  BY DEF Edges
<1>3. Reachable' = Reachable
  BY <1>2 DEF Reachable, ClosedSet
<1>4. Cyclic => Cyclic'
  BY <1>2, <1>3 DEF Cyclic
<1>5. QED
  BY <1>1, <1>2, <1>3, <1>4

\* The steps outside the conversion.
LEMMA OtherSteps ==
    ASSUME IInv,
           New \/ Close \/ CallFails \/ CallReturns \/ (\E document \in Documents : Encode(document))
             \/ UNCHANGED vars
    PROVE  IInv'
<1> USE DEF IInv, Stages
<1>1. ASSUME UNCHANGED <<stage, given, heap, conversion, verdict>> PROVE IInv'
  <2>1. UNCHANGED <<stage, given, heap, stack, active, output, verdict>>
    BY <1>1 DEF conversion
  <2>2. FramesOK => FramesOK'
    BY <2>1 DEF FramesOK, Key
  <2>3. Complete' = Complete
    BY <2>1 DEF Complete, Node, OnStack
  <2>4. Branch => Branch'
    BY <2>1, SameHeap DEF Branch, Node
  <2>5. Rooted => Rooted'
    BY <2>1 DEF Rooted, Node, Key
  <2>6. Held => Held'
    BY <2>1, SameHeap DEF Held, Node, Matches
  <2>7. Exhaustive => Exhaustive'
    BY <2>1 DEF Exhaustive, Node, Key, Waiting
  <2>8. Acyclic => Acyclic'
    BY <2>1, <2>3, SameHeap DEF Acyclic
  <2>9. Cyclic => Cyclic'
    BY <2>1, SameHeap
  <2>10. QED
    BY <2>1, <2>2, <2>4, <2>5, <2>6, <2>7, <2>8, <2>9 DEF Live, Tree
<1>2. CASE New \/ Close \/ UNCHANGED vars
  BY <1>1, <1>2 DEF New, Close, vars
<1>3. CASE CallFails
  BY <1>3 DEF CallFails, Leave, Live, conversion
<1>4. CASE CallReturns
  BY <1>4, HeapsAssumption DEF CallReturns, Live, conversion
<1>5. ASSUME NEW document \in Documents, Encode(document) PROVE IInv'
  BY <1>5 DEF Encode, Leave, Live
<1>6. QED
  BY <1>2, <1>3, <1>4, <1>5

\* What a call of luaToGo does.
LEMMA VisitOutcome ==
    ASSUME NEW path, NEW value, NEW rest, Visit(path, value, rest)
    PROVE  /\ heap' = heap /\ given' = given
           /\ \/ \E kind : /\ kind \notin Containers /\ ~IsTable(value)
                           /\ output' = Put(path, kind, value.id)
                           /\ stack' = rest /\ active' = active
                           /\ rest = <<>> => stage' = "idle" /\ verdict' = "merged"
                           /\ rest # <<>> => stage' = "converting" /\ verdict' = verdict
              \/ /\ IsTable(value) /\ value.id \notin active
                 /\ Form(heap, value.id) \in Containers
                 /\ Form(heap, value.id) = "array" => Contiguous(heap, value.id)
                 /\ output' = Put(path, Form(heap, value.id), value.id)
                 /\ active' = active \cup {value.id}
                 /\ stack' = Append(rest, [table |-> value.id, path |-> path,
                                           left |-> KeysRead(heap, value.id)])
                 /\ stage' = "converting" /\ verdict' = verdict
              \/ /\ stage' = "idle" /\ verdict' # "merged" /\ stack' = <<>> /\ active' = {}
                 /\ verdict' = "cycle" => IsTable(value) /\ value.id \in active
<1> USE DEF Visit
<1>1. CASE Scalar(path, value, rest)
  <2>1. GoKind[value.type] \notin Containers /\ ~IsTable(value)
    BY <1>1 DEF Scalar, GoKind, Containers, IsTable
  <2>2. QED
    BY <1>1, <2>1 DEF Scalar, Emit, Leave
<1>2. CASE Null(path, value, rest)
  BY <1>2 DEF Null, Emit, Leave, Containers, IsTable
<1>3. CASE Enter(path, value, rest)
  BY <1>3 DEF Enter, Acceptable, Containers
<1>4. CASE Unacceptable(value)
  BY <1>4 DEF Unacceptable, Refuse, Leave, Reason
<1>5. QED
  BY <1>1, <1>2, <1>3, <1>4
-----------------------------------------------------------------------------
(* The root of the tree. *)

\* The first value put into an empty output is all it holds.
LEMMA FirstOutput ==
    ASSUME output = <<>>, NEW kind, NEW id, output' = Put(<<>>, kind, id)
    PROVE  DOMAIN output' = {<<>>} /\ output'[<<>>] = [kind |-> kind, id |-> id]
BY DEF Put

\* The path of an entry is not the path of the root.
LEMMA NoAppendIsEmpty == \A p \in Seq(Key) : \A k \in Key : Append(p, k) # <<>>
BY AppendFacts

\* The root has a path.
LEMMA EmptyPath == <<>> \in Seq(Key)
OBVIOUS

\* A returned value that is no table is the whole output.
LEMMA StartLeaf ==
    ASSUME IInv, stage = "returned", heap' = heap, ~IsTable(heap.root),
           NEW kind, kind \notin Containers, output' = Put(<<>>, kind, heap.root.id),
           stack' = <<>>, active' = active
    PROVE  Tree'
<1>0. output = <<>> /\ active = {}
  BY DEF IInv, Stages
<1>1. DOMAIN output' = {<<>>} /\ output'[<<>>] = [kind |-> kind, id |-> heap.root.id]
  BY <1>0, FirstOutput
<1>2. \A k \in Key : Append(<<>>, k) # <<>>
  BY NoAppendIsEmpty, EmptyPath
<1>3. FramesOK'
  BY <1>0 DEF FramesOK
<1>4. Branch'
  BY DEF Branch
<1>5. Rooted'
  BY <1>1, EmptyPath, SameHeap DEF Rooted
<1>6. Held'
  <2>1. ~Node(<<>>)'
    BY <1>1 DEF Node
  <2>2. Matches(output[<<>>], heap.root)'
    BY <1>1 DEF Matches, IsTable
  <2>3. QED
    BY <1>1, <1>2, <2>1, <2>2, SameHeap DEF Held
<1>7. Exhaustive'
  BY <1>1 DEF Exhaustive, Node, Waiting
<1>8. Complete' = {}
  BY <1>1 DEF Complete, Node
<1>9. Acyclic'
  BY <1>8 DEF Acyclic
<1>10. QED
  BY <1>3, <1>4, <1>5, <1>6, <1>7, <1>9 DEF Tree

\* A returned table is the first node, with all its keys still to read.
LEMMA StartNode ==
    ASSUME IInv, stage = "returned", heap' = heap, IsTable(heap.root), Form(heap, heap.root.id) \in Containers,
           Form(heap, heap.root.id) = "array" => Contiguous(heap, heap.root.id),
           output' = Put(<<>>, Form(heap, heap.root.id), heap.root.id),
           active' = active \cup {heap.root.id},
           stack' = Append(<<>>, [table |-> heap.root.id, path |-> <<>>, left |-> KeysRead(heap, heap.root.id)])
    PROVE  Tree'
<1> DEFINE t == heap.root.id
           o == [kind |-> Form(heap, t), id |-> t]
           f == [table |-> t, path |-> <<>>, left |-> KeysRead(heap, t)]
<1>0. output = <<>> /\ active = {} /\ IsHeap(heap)
  BY DEF IInv, Stages
<1>1. DOMAIN output' = {<<>>} /\ output'[<<>>] = o
  BY <1>0, FirstOutput
<1>2. \A k \in Key : Append(<<>>, k) # <<>>
  BY NoAppendIsEmpty, EmptyPath
<1>3. t \in DOMAIN heap.entries /\ t \in Reachable /\ KeysRead(heap, t) \subseteq Key
  BY <1>0, RootInHeap, RootIsReachable, KeysReadAreKeys
<1>4. Len(stack') = 1 /\ stack'[1] = f /\ stack' = <<f>>
  OBVIOUS
<1>5. f \in [table : DOMAIN heap.entries, path : Seq(Key), left : SUBSET Key]
  BY <1>3
<1>6. active' = {t}
  BY <1>0
<1>8. FramesOK'
  BY <1>4, <1>5, <1>6, SameHeap DEF FramesOK
<1>10. Branch'
  <2>1. \A i \in 1..Len(stack') : i = 1 /\ stack'[i] = f
    BY <1>4
  <2>2. f.table = t /\ f.path = <<>> /\ Len(f.path) = 0 /\ f.left = KeysRead(heap, t)
    OBVIOUS
  <2>3. /\ f.path \in DOMAIN output' /\ output'[f.path].id = t /\ output'[f.path].kind \in Containers
        /\ f.table \in Reachable' /\ heap' = heap
    BY <1>1, <1>3, <2>2, SameHeap
  <2> HIDE DEF f, t
  <2>4. (\A i \in 1..Len(stack) :
            /\ Len(stack[i].path) = i - 1
            /\ stack[i].path \in DOMAIN output
            /\ Node(stack[i].path) /\ output[stack[i].path].id = stack[i].table
            /\ stack[i].left \subseteq KeysRead(heap, stack[i].table)
            /\ stack[i].table \in Reachable)'
    <3>1. /\ Len(f.path) = 1 - 1 /\ f.path \in DOMAIN output'
          /\ output'[f.path].kind \in Containers /\ output'[f.path].id = f.table
          /\ f.left \subseteq KeysRead(heap', f.table) /\ f.table \in Reachable'
      BY <2>2, <2>3
    <3>2. QED
      BY <2>1, <3>1 DEF Node
  <2>5. \A i, j \in 1..Len(stack') : i = j
    BY <2>1
  <2>6. \A i \in 1..Len(stack') : ~(i + 1 <= Len(stack'))
    BY <1>4, <2>1
  <2>7. QED
    BY <2>4, <2>5, <2>6 DEF Branch
<1>11. Rooted'
  BY <1>1, EmptyPath, SameHeap DEF Rooted
<1>12. Held'
  <2>1. Matches(output[<<>>], heap.root)'
    BY <1>1 DEF Matches, IsTable
  <2>2. output'[<<>>].id = t
    BY <1>1
  <2>3. QED
    BY <1>1, <1>2, <1>3, <2>1, <2>2, SameHeap DEF Held
<1>13. Exhaustive'
  <2>1. \A k \in KeysRead(heap, t) : Waiting(<<>>, k)'
    BY <1>4 DEF Waiting
  <2>2. output'[<<>>].id = t
    BY <1>1
  <2>3. QED
    BY <1>1, <1>2, <2>1, <2>2, SameHeap DEF Exhaustive
<1>14. OnStack(<<>>)'
  BY <1>4 DEF OnStack
<1>15. Complete' = {}
  BY <1>1, <1>14 DEF Complete
<1>16. Acyclic'
  BY <1>15 DEF Acyclic
<1>17. QED
  BY <1>8, <1>10, <1>11, <1>12, <1>13, <1>16 DEF Tree
-----------------------------------------------------------------------------
(* A value inside a table. *)

Descending(k) == IInv /\ stage = "converting" /\ k \in Top.left

\* The callers of the innermost call, which goes on without the key.
Rest(k) == Append(Callers, Passed(Top, k))

\* What the invariant says of the innermost frame.
LEMMA TopFacts ==
    ASSUME IInv, stage = "converting"
    PROVE  /\ IsHeap(heap) /\ Tree
           /\ Len(stack) \in Nat \ {0} /\ Top = stack[Len(stack)]
           /\ Top \in [table : DOMAIN heap.entries, path : Seq(Key), left : SUBSET Key]
           /\ Top.path \in DOMAIN output /\ Node(Top.path) /\ output[Top.path].id = Top.table
           /\ Top.table \in Reachable /\ Top.table \in DOMAIN heap.entries
           /\ Top.left \subseteq KeysRead(heap, Top.table)
<1>1. IsHeap(heap) /\ Tree /\ stack # <<>>
  BY DEF IInv, Stages, Live
<1>2. stack \in Seq([table : DOMAIN heap.entries, path : Seq(Key), left : SUBSET Key])
  BY <1>1 DEF Tree, FramesOK
<1>3. Len(stack) \in Nat \ {0} /\ Top = stack[Len(stack)] /\ Len(stack) \in 1..Len(stack)
  BY <1>1, <1>2, LastOf DEF Top
<1>4. Top \in [table : DOMAIN heap.entries, path : Seq(Key), left : SUBSET Key]
  BY <1>1, <1>2, LastOf DEF Top
<1>5. QED
  BY <1>1, <1>3, <1>4 DEF Tree, Branch

\* The stack after a key has been taken differs in that key only.
LEMMA RestFacts ==
    ASSUME IInv, stage = "converting", NEW k \in Top.left
    PROVE  /\ Rest(k) \in Seq([table : DOMAIN heap.entries, path : Seq(Key), left : SUBSET Key])
           /\ Len(Rest(k)) = Len(stack)
           /\ \A i \in 1..Len(stack) :
                 /\ Rest(k)[i].table = stack[i].table /\ Rest(k)[i].path = stack[i].path
                 /\ i # Len(stack) => Rest(k)[i].left = stack[i].left
                 /\ i = Len(stack) => Rest(k)[i].left = stack[i].left \ {k}
<1> DEFINE Frame == [table : DOMAIN heap.entries, path : Seq(Key), left : SUBSET Key]
           f == Passed(Top, k)
<1>1. stack \in Seq(Frame) /\ Len(stack) \in Nat \ {0} /\ Top = stack[Len(stack)] /\ Top \in Frame
  BY TopFacts DEF Tree, FramesOK
<1>2. f \in Frame /\ f.table = Top.table /\ f.path = Top.path /\ f.left = Top.left \ {k}
  BY <1>1 DEF Passed
<1> HIDE DEF Frame, f
<1>3. Callers \in Seq(Frame) /\ Len(Callers) = Len(stack) - 1
      /\ \A i \in 1..(Len(stack) - 1) : Callers[i] = stack[i]
  <2>1. stack # <<>>
    BY <1>1
  <2>2. QED
    BY <1>1, <2>1, AllButLast DEF Callers
<1>4. Rest(k) = Append(Callers, f)
  BY DEF Rest, f
<1>5. Rest(k) \in Seq(Frame) /\ Len(Rest(k)) = Len(stack)
      /\ Rest(k)[Len(stack)] = f /\ \A i \in 1..(Len(stack) - 1) : Rest(k)[i] = stack[i]
  BY <1>1, <1>2, <1>3, <1>4
<1>6. ASSUME NEW i \in 1..Len(stack)
      PROVE  /\ Rest(k)[i].table = stack[i].table /\ Rest(k)[i].path = stack[i].path
             /\ i # Len(stack) => Rest(k)[i].left = stack[i].left
             /\ i = Len(stack) => Rest(k)[i].left = stack[i].left \ {k}
  <2>1. CASE i = Len(stack)
    BY <1>1, <1>2, <1>5, <2>1
  <2>2. CASE i # Len(stack)
    BY <1>1, <1>5, <2>2
  <2>3. QED
    BY <2>1, <2>2
<1>7. QED
  BY <1>5, <1>6 DEF Frame

\* Frames are told apart by their paths.
LEMMA PathsDiffer ==
    ASSUME IInv, stage = "converting", NEW i \in 1..Len(stack), NEW j \in 1..Len(stack),
           stack[i].path = stack[j].path
    PROVE  i = j
<1>1. Branch /\ Len(stack) \in Nat
  BY TopFacts DEF Tree
<1>2. Len(stack[i].path) = i - 1 /\ Len(stack[j].path) = j - 1
  BY <1>1 DEF Branch
<1>3. QED
  BY <1>1, <1>2

\* After a key has been taken, the others still wait.
LEMMA Waits ==
    ASSUME IInv, stage = "converting", NEW k \in Top.left, NEW p, NEW j
    PROVE  (\E i \in 1..Len(Rest(k)) : Rest(k)[i].path = p /\ j \in Rest(k)[i].left)
              <=> Waiting(p, j) /\ ~(p = Top.path /\ j = k)
<1>1. Len(stack) \in Nat \ {0} /\ Top = stack[Len(stack)] /\ Len(stack) \in 1..Len(stack)
  BY TopFacts
<1>2. ASSUME NEW i \in 1..Len(stack), stack[i].path = Top.path PROVE i = Len(stack)
  BY <1>1, <1>2, PathsDiffer
<1>3. Len(Rest(k)) = Len(stack)
  BY RestFacts
<1>4. ASSUME NEW i \in 1..Len(stack), Rest(k)[i].path = p, j \in Rest(k)[i].left
      PROVE  Waiting(p, j) /\ ~(p = Top.path /\ j = k)
  <2>1. stack[i].path = p
    BY <1>4, RestFacts
  <2>2. CASE i = Len(stack)
    BY <1>1, <1>4, <2>1, <2>2, RestFacts DEF Waiting
  <2>3. CASE i # Len(stack)
    BY <1>2, <1>4, <2>1, <2>3, RestFacts DEF Waiting
  <2>4. QED
    BY <2>2, <2>3
<1>5. ASSUME NEW i \in 1..Len(stack), stack[i].path = p, j \in stack[i].left, ~(p = Top.path /\ j = k)
      PROVE  Rest(k)[i].path = p /\ j \in Rest(k)[i].left
  <2>1. Rest(k)[i].path = p
    BY <1>5, RestFacts
  <2>2. CASE i = Len(stack)
    BY <1>1, <1>5, <2>2, RestFacts
  <2>3. CASE i # Len(stack)
    BY <1>5, <2>3, RestFacts
  <2>4. QED
    BY <2>1, <2>2, <2>3
<1>6. QED
  BY <1>3, <1>4, <1>5 DEF Waiting

\* The tree with one value more.
Grown(k, kind) ==
    /\ output' = Put(Append(Top.path, k), kind, Entry(heap, Top.table, k).id)
    /\ kind \in Containers <=> IsTable(Entry(heap, Top.table, k))
    /\ heap' = heap

\* What the output is after one value more.
LEMMA GrownFacts ==
    ASSUME IInv, stage = "converting", NEW k \in Top.left, NEW kind, Grown(k, kind)
    PROVE  /\ k \in Key /\ k \in KeysRead(heap, Top.table)
           /\ Append(Top.path, k) \in Seq(Key) /\ Append(Top.path, k) \notin DOMAIN output
           /\ Append(Top.path, k) # <<>> /\ Append(Top.path, k) # Top.path
           /\ DOMAIN output' = DOMAIN output \cup {Append(Top.path, k)}
           /\ \A p \in DOMAIN output : output'[p] = output[p]
           /\ output'[Append(Top.path, k)] = [kind |-> kind, id |-> Entry(heap, Top.table, k).id]
           /\ \A j \in Key : Append(Append(Top.path, k), j) \notin DOMAIN output'
<1> DEFINE path == Append(Top.path, k)
<1>1. /\ IsHeap(heap) /\ Tree /\ Top.path \in DOMAIN output /\ Top.path \in Seq(Key)
      /\ k \in KeysRead(heap, Top.table) /\ Top.table \in DOMAIN heap.entries
  BY TopFacts
<1>2. k \in Key
  BY <1>1, KeysReadAreKeys
<1>3. path \in Seq(Key) /\ path # <<>> /\ Len(path) = Len(Top.path) + 1 /\ Len(Top.path) \in Nat
  BY <1>1, <1>2, AppendFacts
<1>4. Waiting(Top.path, k)
  BY TopFacts DEF Waiting
<1>5. path \notin DOMAIN output
  BY <1>1, <1>2, <1>4 DEF Tree, Exhaustive
<1>6. DOMAIN output' = DOMAIN output \cup {path} /\ (\A p \in DOMAIN output : output'[p] = output[p])
      /\ output'[path] = [kind |-> kind, id |-> Entry(heap, Top.table, k).id]
  BY <1>5 DEF Grown, Put
<1>7. ASSUME NEW j \in Key PROVE Append(path, j) \notin DOMAIN output'
  <2>1. Append(path, j) # path /\ Append(path, j) # <<>>
    BY <1>3, AppendFacts
  <2>2. ASSUME Append(path, j) \in DOMAIN output PROVE FALSE
    <3>1. PICK q \in DOMAIN output : \E i \in Key : Append(path, j) = Append(q, i)
      BY <1>1, <2>1, <2>2 DEF Tree, Rooted
    <3>2. PICK i \in Key : Append(path, j) = Append(q, i)
      BY <3>1
    <3>3. q \in Seq(Key)
      BY <1>1 DEF Tree, Rooted
    <3>4. path \in Seq(Key) /\ q \in Seq(Key) /\ j \in Key /\ i \in Key
      BY <1>3, <3>3
    <3> HIDE DEF path
    <3>5. q = path
      BY <3>2, <3>4, AppendIsInjective
    <3>6. QED
      BY <1>5, <3>5
  <2>3. QED
    BY <1>6, <2>1, <2>2
<1>8. path # Top.path
  BY <1>3
<1>9. QED
  BY <1>1, <1>2, <1>3, <1>5, <1>6, <1>7, <1>8

\* Every path still has its parent.
LEMMA GrownRooted ==
    ASSUME IInv, stage = "converting", NEW k \in Top.left, NEW kind, Grown(k, kind)
    PROVE  Rooted'
<1> DEFINE path == Append(Top.path, k)
<1>1. Rooted /\ Top.path \in DOMAIN output /\ Node(Top.path) /\ output[Top.path].id = Top.table
  BY TopFacts DEF Tree
<1>2. heap' = heap /\ Key' = Key
  BY SameHeap DEF Grown
<1>3. \A p \in DOMAIN output : p \in DOMAIN output' /\ output'[p] = output[p] /\ Node(p)' = Node(p)
  BY GrownFacts DEF Node
<1>4. ASSUME NEW q \in DOMAIN output, q # <<>>
      PROVE  \E p \in DOMAIN output' : \E j \in Key :
                q = Append(p, j) /\ Node(p)' /\ j \in KeysRead(heap, output'[p].id)
  BY <1>1, <1>3, <1>4 DEF Rooted
<1>5. \E p \in DOMAIN output' : \E j \in Key :
         path = Append(p, j) /\ Node(p)' /\ j \in KeysRead(heap, output'[p].id)
  <2> DEFINE top == Top.path
  <2>1. top \in DOMAIN output /\ output[top].kind \in Containers /\ output[top].id = Top.table
    BY <1>1 DEF Node
  <2>2. top \in DOMAIN output' /\ output'[top] = output[top]
    BY <1>3, <2>1
  <2>3. k \in Key /\ k \in KeysRead(heap, Top.table)
    BY GrownFacts
  <2>4. path = Append(top, k)
    OBVIOUS
  <2> HIDE DEF top, path
  <2>5. output'[top].kind \in Containers /\ k \in KeysRead(heap, output'[top].id)
    BY <2>1, <2>2, <2>3
  <2>6. QED
    BY <2>2, <2>3, <2>4, <2>5 DEF Node
<1>6. DOMAIN output' \subseteq Seq(Key) /\ <<>> \in DOMAIN output'
  BY <1>1, GrownFacts DEF Rooted
<1>7. \A q \in DOMAIN output' : q \in DOMAIN output \/ q = path
  BY GrownFacts
<1>8. QED
  BY <1>2, <1>4, <1>5, <1>6, <1>7 DEF Rooted

\* Every value still stands where the heap has it.
LEMMA GrownHeld ==
    ASSUME IInv, stage = "converting", NEW k \in Top.left, NEW kind, Grown(k, kind),
           LET value == Entry(heap, Top.table, k)
           IN  IsTable(value) /\ Form(heap, value.id) = "array" => Contiguous(heap, value.id)
    PROVE  Held'
<1> DEFINE path == Append(Top.path, k)
           value == Entry(heap, Top.table, k)
<1>1. /\ Held /\ Rooted /\ IsHeap(heap) /\ Top.path \in DOMAIN output /\ Top.path \in Seq(Key)
      /\ output[Top.path].id = Top.table /\ Top.table \in Reachable
  BY TopFacts DEF Tree
<1>2. heap' = heap /\ Key' = Key /\ Reachable' = Reachable /\ (kind \in Containers <=> IsTable(value))
  BY SameHeap DEF Grown
<1>3. \A p \in DOMAIN output : p \in DOMAIN output' /\ output'[p] = output[p] /\ Node(p)' = Node(p)
  BY GrownFacts DEF Node
<1>4. \A q \in DOMAIN output' : q \in DOMAIN output \/ q = path
  BY GrownFacts
<1>5. Matches(output'[path], value) /\ output'[path].id = value.id
      /\ (output'[path].kind \in Containers <=> IsTable(value))
  <2>1. output'[path] = [kind |-> kind, id |-> value.id]
    BY GrownFacts
  <2> HIDE DEF path, value
  <2>2. QED
    BY <1>2, <2>1 DEF Matches
<1>6. Matches(output'[<<>>], heap.root)
  BY <1>1, <1>3 DEF Held, Rooted
<1>7. ASSUME NEW p \in DOMAIN output', NEW j \in Key, Append(p, j) \in DOMAIN output'
      PROVE  Matches(output'[Append(p, j)], Entry(heap, output'[p].id, j))
  <2>1. p # path
    BY <1>7, GrownFacts
  <2>2. p \in DOMAIN output /\ p \in Seq(Key)
    BY <1>1, <1>4, <2>1 DEF Rooted
  <2>3. CASE Append(p, j) = path
    <3>1. p = Top.path /\ j = k
      BY <1>1, <2>2, <2>3, GrownFacts, AppendIsInjective
    <3>2. output'[p].id = Top.table
      BY <1>1, <1>3, <3>1
    <3>3. QED
      BY <1>5, <3>1, <3>2
  <2>4. CASE Append(p, j) \in DOMAIN output
    BY <1>1, <1>3, <2>2, <2>4 DEF Held
  <2>5. QED
    BY <1>4, <1>7, <2>3, <2>4
<1>8. ASSUME NEW p \in DOMAIN output', Node(p)'
      PROVE  /\ output'[p].id \in Reachable
             /\ Form(heap, output'[p].id) = "array" => Contiguous(heap, output'[p].id)
  <2>1. CASE p = path
    <3>1. value.id \in Reachable
      <4>1. IsTable(value) /\ k \in KeysRead(heap, Top.table)
        BY <1>5, <1>8, <2>1, GrownFacts DEF Node
      <4>2. value.id \in Edges(Top.table)
        BY <4>1, EntryIsEdge
      <4>3. QED
        BY <1>1, <4>2, EdgesAreReachable
    <3>2. IsTable(value) /\ output'[p].id = value.id
      BY <1>5, <1>8, <2>1 DEF Node
    <3>3. QED
      BY <3>1, <3>2
  <2>2. CASE p \in DOMAIN output
    BY <1>1, <1>3, <1>8, <2>2 DEF Held
  <2>3. QED
    BY <1>4, <2>1, <2>2
<1>9. QED
  BY <1>2, <1>6, <1>7, <1>8 DEF Held, Matches, IsTable

\* Every key read is in the output or waits.
LEMMA GrownExhaustive ==
    ASSUME IInv, stage = "converting", NEW k \in Top.left, NEW kind, Grown(k, kind),
           \A p, j : Waiting(p, j)' <=>
              \/ Waiting(p, j) /\ ~(p = Top.path /\ j = k)
              \/ /\ p = Append(Top.path, k) /\ IsTable(Entry(heap, Top.table, k))
                 /\ j \in KeysRead(heap, Entry(heap, Top.table, k).id)
    PROVE  Exhaustive'
<1> DEFINE path == Append(Top.path, k)
           value == Entry(heap, Top.table, k)
<1>1. Exhaustive /\ Rooted /\ Top.path \in DOMAIN output /\ Top.path \in Seq(Key)
  BY TopFacts DEF Tree
<1>2. heap' = heap /\ Key' = Key /\ (kind \in Containers <=> IsTable(value))
  BY SameHeap DEF Grown
<1>3. \A p \in DOMAIN output : p \in DOMAIN output' /\ output'[p] = output[p] /\ Node(p)' = Node(p)
  BY GrownFacts DEF Node
<1>4. \A q \in DOMAIN output' : q \in DOMAIN output \/ q = path
  BY GrownFacts
<1>5. path \in DOMAIN output' /\ output'[path] = [kind |-> kind, id |-> value.id] /\ k \in Key
  BY GrownFacts
<1>6. ASSUME NEW p \in DOMAIN output', Node(p)', NEW j \in KeysRead(heap, output'[p].id)
      PROVE  Append(p, j) \in DOMAIN output' \/ Waiting(p, j)'
  <2>1. CASE p = path
    <3>1. IsTable(value) /\ output'[p].id = value.id
      BY <1>2, <1>5, <1>6, <2>1 DEF Node
    <3>2. QED
      BY <2>1, <3>1
  <2>2. CASE p \in DOMAIN output
    <3>1. Append(p, j) \in DOMAIN output \/ Waiting(p, j)
      BY <1>1, <1>3, <1>6, <2>2 DEF Exhaustive
    <3>2. QED
      BY <1>3, <1>5, <3>1
  <2>3. QED
    BY <1>4, <2>1, <2>2
<1>7. ASSUME NEW p \in DOMAIN output', NEW j \in Key, Waiting(p, j)'
      PROVE  Append(p, j) \notin DOMAIN output'
  <2>1. CASE p = path
    BY <2>1, GrownFacts
  <2>2. CASE p # path
    <3>1. p \in DOMAIN output /\ p \in Seq(Key)
      BY <1>1, <1>4, <2>2 DEF Rooted
    <3>2. Waiting(p, j) /\ ~(p = Top.path /\ j = k)
      BY <1>7, <2>2
    <3>3. Append(p, j) \notin DOMAIN output
      BY <1>1, <3>1, <3>2 DEF Exhaustive
    <3>4. Append(p, j) # path
      <4>1. p \in Seq(Key) /\ Top.path \in Seq(Key) /\ j \in Key /\ k \in Key
        BY <1>1, <1>5, <3>1
      <4>2. ASSUME Append(p, j) = Append(Top.path, k) PROVE p = Top.path /\ j = k
        BY <4>1, <4>2, AppendIsInjective
      <4>3. QED
        BY <3>2, <4>2
    <3>5. QED
      BY <1>4, <3>3, <3>4
  <2>3. QED
    BY <2>1, <2>2
<1>8. QED
  BY <1>2, <1>6, <1>7 DEF Exhaustive

\* No table becomes complete while its frame is open.
LEMMA GrownAcyclic ==
    ASSUME IInv, stage = "converting", NEW k \in Top.left, NEW kind, Grown(k, kind),
           \A p : OnStack(p)' <=> OnStack(p) \/ (p = Append(Top.path, k) /\ IsTable(Entry(heap, Top.table, k)))
    PROVE  Acyclic'
<1> DEFINE path == Append(Top.path, k)
           value == Entry(heap, Top.table, k)
<1>1. Acyclic
  BY TopFacts DEF Tree
<1>2. heap' = heap /\ (kind \in Containers <=> IsTable(value))
  BY DEF Grown
<1>3. \A p \in DOMAIN output : p \in DOMAIN output' /\ output'[p] = output[p] /\ Node(p)' = Node(p)
  BY GrownFacts DEF Node
<1>4. DOMAIN output' = DOMAIN output \cup {path} /\ path \notin DOMAIN output
  BY GrownFacts
<1>5. output'[path] = [kind |-> kind, id |-> value.id]
  BY GrownFacts
<1>6. ASSUME NEW p \in DOMAIN output', Node(p)', ~OnStack(p)'
      PROVE  p \in DOMAIN output /\ Node(p) /\ ~OnStack(p) /\ output'[p] = output[p]
  <2>1. CASE p = path
    <3>1. IsTable(value)
      BY <1>2, <1>5, <1>6, <2>1 DEF Node
    <3>2. QED
      BY <1>6, <2>1, <3>1
  <2>2. CASE p \in DOMAIN output
    BY <1>3, <1>6, <2>2
  <2>3. QED
    BY <1>4, <2>1, <2>2
<1>7. Complete' \subseteq Complete
  BY <1>6 DEF Complete
<1>8. \A t : Edges(t)' = Edges(t)
  BY <1>2, SameHeap
<1>9. QED
  BY <1>1, <1>7, <1>8 DEF Acyclic

\* Taking a key whose value is no table.
LEMMA DescendLeaf ==
    ASSUME IInv, stage = "converting", NEW k \in Top.left, NEW kind, Grown(k, kind),
           ~IsTable(Entry(heap, Top.table, k)), stack' = Rest(k), active' = active
    PROVE  Tree'
<1>1. FramesOK /\ Branch /\ Len(stack) \in Nat \ {0}
  BY TopFacts DEF Tree
<1>2. heap' = heap /\ Key' = Key /\ Reachable' = Reachable /\ \A t : Edges(t)' = Edges(t)
  BY SameHeap DEF Grown
<1>3. Len(stack') = Len(stack) /\ \A i \in 1..Len(stack) :
         /\ stack'[i].table = stack[i].table /\ stack'[i].path = stack[i].path
         /\ stack'[i].left \subseteq stack[i].left
  BY RestFacts
<1>4. \A p \in DOMAIN output : p \in DOMAIN output' /\ output'[p] = output[p] /\ Node(p)' = Node(p)
  BY GrownFacts DEF Node
<1>5. FramesOK'
  <2>1. stack' \in Seq([table : DOMAIN heap.entries, path : Seq(Key), left : SUBSET Key])
    BY RestFacts
  <2>2. active = {stack[i].table : i \in 1..Len(stack)}
    BY <1>1 DEF FramesOK
  <2>3. active' = {stack'[i].table : i \in 1..Len(stack')}
    BY <1>3, <2>2
  <2>4. QED
    BY <1>2, <2>1, <2>3 DEF FramesOK
<1>6. Branch'
  <2>1. ASSUME NEW i \in 1..Len(stack')
        PROVE  /\ Len(stack'[i].path) = i - 1
               /\ stack'[i].path \in DOMAIN output'
               /\ output'[stack'[i].path].kind \in Containers /\ output'[stack'[i].path].id = stack'[i].table
               /\ stack'[i].left \subseteq KeysRead(heap, stack'[i].table)
               /\ stack'[i].table \in Reachable
    <3>1. i \in 1..Len(stack)
      BY <1>3
    <3>2. /\ Len(stack[i].path) = i - 1
          /\ stack[i].path \in DOMAIN output
          /\ output[stack[i].path].kind \in Containers /\ output[stack[i].path].id = stack[i].table
          /\ stack[i].left \subseteq KeysRead(heap, stack[i].table)
          /\ stack[i].table \in Reachable
      BY <1>1, <3>1 DEF Branch, Node
    <3>3. output'[stack[i].path] = output[stack[i].path] /\ stack[i].path \in DOMAIN output'
      BY <1>4, <3>2
    <3>4. QED
      BY <1>3, <3>1, <3>2, <3>3
  <2>2. \A i, j \in 1..Len(stack') : stack'[i].table = stack'[j].table => i = j
    BY <1>1, <1>3 DEF Branch
  <2>3. ASSUME NEW i \in 1..Len(stack'), i + 1 <= Len(stack')
        PROVE  /\ stack'[i + 1].table \in Edges(stack'[i].table)
               /\ \E j \in Key : stack'[i + 1].path = Append(stack'[i].path, j)
    <3>1. i \in 1..Len(stack) /\ i + 1 \in 1..Len(stack)
      BY <1>1, <1>3, <2>3
    <3>2. stack[i + 1].table \in Edges(stack[i].table) /\ \E j \in Key : stack[i + 1].path = Append(stack[i].path, j)
      BY <1>1, <3>1 DEF Branch
    <3>3. QED
      BY <1>3, <3>1, <3>2
  <2>4. QED
    BY <1>2, <2>1, <2>2, <2>3 DEF Branch, Node
<1>7. Exhaustive'
  <2>1. \A p, j : Waiting(p, j)' <=> Waiting(p, j) /\ ~(p = Top.path /\ j = k)
    <3> TAKE p, j
    <3>1. (\E i \in 1..Len(Rest(k)) : Rest(k)[i].path = p /\ j \in Rest(k)[i].left)
             <=> Waiting(p, j) /\ ~(p = Top.path /\ j = k)
      BY Waits
    <3>2. Waiting(p, j)' <=> \E i \in 1..Len(stack') : stack'[i].path = p /\ j \in stack'[i].left
      BY DEF Waiting
    <3>3. QED
      BY <3>1, <3>2
  <2>2. QED
    BY <2>1, GrownExhaustive
<1>8. Acyclic'
  <2>1. \A p : OnStack(p)' <=> OnStack(p)
    BY <1>3 DEF OnStack
  <2>2. QED
    BY <2>1, GrownAcyclic
<1>9. QED
  BY <1>5, <1>6, <1>7, <1>8, GrownRooted, GrownHeld DEF Tree

\* Taking a key whose value is a table: a frame is opened.
LEMMA DescendNode ==
    ASSUME IInv, stage = "converting", NEW k \in Top.left, NEW path, NEW u,
           path = Append(Top.path, k), u = Entry(heap, Top.table, k).id,
           IsTable(Entry(heap, Top.table, k)), Form(heap, u) \in Containers,
           Form(heap, u) = "array" => Contiguous(heap, u),
           Grown(k, Form(heap, u)), u \notin active, active' = active \cup {u},
           stack' = Append(Rest(k), [table |-> u, path |-> path, left |-> KeysRead(heap, u)])
    PROVE  Tree'
<1> DEFINE Frame == [table : DOMAIN heap.entries, path : Seq(Key), left : SUBSET Key]
           f == [table |-> u, path |-> path, left |-> KeysRead(heap, u)]
           n == Len(stack)
<1>1. /\ FramesOK /\ Branch /\ Rooted /\ n \in Nat \ {0} /\ IsHeap(heap) /\ n \in 1..n
      /\ Top = stack[n] /\ Top.table \in Reachable /\ Top.path \in Seq(Key)
  BY TopFacts DEF Tree
<1>2. heap' = heap /\ Key' = Key /\ Reachable' = Reachable /\ \A t : Edges(t)' = Edges(t)
  BY SameHeap DEF Grown
<1>3. k \in Key /\ k \in KeysRead(heap, Top.table) /\ path \in Seq(Key) /\ path \notin DOMAIN output
  BY GrownFacts
<1>4. u \in Edges(Top.table) /\ u \in Reachable /\ u \in DOMAIN heap.entries /\ KeysRead(heap, u) \subseteq Key
  <2>1. u \in Edges(Top.table)
    BY <1>3, EntryIsEdge
  <2>2. u \in Reachable
    BY <1>1, <2>1, EdgesAreReachable
  <2>3. QED
    BY <1>1, <2>1, <2>2, KeysReadAreKeys DEF Reachable
<1>5. f \in Frame /\ f.table = u /\ f.path = path /\ f.left = KeysRead(heap, u)
  BY <1>3, <1>4
<1>6. Rest(k) \in Seq(Frame) /\ Len(Rest(k)) = n
  BY RestFacts
<1> HIDE DEF Frame, f, n
<1>7. stack' = Append(Rest(k), f)
  BY DEF f
<1>8. /\ stack' \in Seq(Frame) /\ Len(stack') = n + 1 /\ stack'[n + 1] = f
      /\ \A i \in 1..n : stack'[i] = Rest(k)[i]
  BY <1>1, <1>5, <1>6, <1>7
<1>9. \A i \in 1..n : /\ stack'[i].table = stack[i].table /\ stack'[i].path = stack[i].path
                      /\ stack'[i].left \subseteq stack[i].left
  BY <1>8, RestFacts DEF n
<1>10. 1..Len(stack') = (1..n) \cup {n + 1}
  BY <1>1, <1>8
<1>11. \A p \in DOMAIN output : p \in DOMAIN output' /\ output'[p] = output[p]
  BY GrownFacts
<1>12. path \in DOMAIN output' /\ output'[path] = [kind |-> Form(heap, u), id |-> u]
  BY GrownFacts
<1>13. active = {stack[i].table : i \in 1..n}
  BY <1>1 DEF FramesOK, n
<1>14. FramesOK'
  <2>1. active' = {stack'[i].table : i \in 1..Len(stack')}
    <3>1. \A i \in 1..Len(stack') : stack'[i].table \in active \cup {u}
      BY <1>5, <1>8, <1>9, <1>10, <1>13
    <3>2. \A t \in active : \E i \in 1..Len(stack') : t = stack'[i].table
      BY <1>9, <1>10, <1>13
    <3>3. n + 1 \in 1..Len(stack') /\ stack'[n + 1].table = u
      BY <1>5, <1>8, <1>10
    <3>4. QED
      BY <3>1, <3>2, <3>3
  <2>2. QED
    BY <1>2, <1>8, <2>1 DEF FramesOK, Frame
<1>15. Branch'
  <2>1. ASSUME NEW i \in 1..Len(stack')
        PROVE  /\ Len(stack'[i].path) = i - 1
               /\ stack'[i].path \in DOMAIN output'
               /\ output'[stack'[i].path].kind \in Containers /\ output'[stack'[i].path].id = stack'[i].table
               /\ stack'[i].left \subseteq KeysRead(heap, stack'[i].table)
               /\ stack'[i].table \in Reachable
    <3>1. CASE i = n + 1
      <4>1. Len(Top.path) = n - 1
        BY <1>1 DEF Branch, n
      <4>2. Len(path) = n
        BY <1>1, <1>3, <4>1, AppendFacts
      <4>3. stack'[i] = f /\ i - 1 = n
        BY <1>1, <1>8, <3>1
      <4>4. /\ Len(f.path) = n /\ f.path \in DOMAIN output'
            /\ output'[f.path].kind \in Containers /\ output'[f.path].id = f.table
            /\ f.left \subseteq KeysRead(heap, f.table) /\ f.table \in Reachable
        BY <1>4, <1>5, <1>12, <4>2
      <4>5. QED
        BY <4>3, <4>4
    <3>2. CASE i \in 1..n
      <4>1. /\ Len(stack[i].path) = i - 1
            /\ stack[i].path \in DOMAIN output
            /\ output[stack[i].path].kind \in Containers /\ output[stack[i].path].id = stack[i].table
            /\ stack[i].left \subseteq KeysRead(heap, stack[i].table)
            /\ stack[i].table \in Reachable
        BY <1>1, <3>2 DEF Branch, Node, n
      <4>2. output'[stack[i].path] = output[stack[i].path] /\ stack[i].path \in DOMAIN output'
        BY <1>11, <4>1
      <4>3. QED
        BY <1>9, <3>2, <4>1, <4>2
    <3>3. QED
      BY <1>10, <3>1, <3>2
  <2>2. ASSUME NEW i \in 1..Len(stack'), NEW j \in 1..Len(stack'), stack'[i].table = stack'[j].table
        PROVE  i = j
    <3>1. ASSUME NEW m \in 1..n PROVE stack'[m].table # u
      <4>1. stack'[m].table = stack[m].table
        BY <1>9
      <4>2. stack[m].table \in active
        BY <1>13
      <4>3. QED
        BY <4>1, <4>2
    <3>2. CASE i \in 1..n /\ j \in 1..n
      BY <1>1, <1>9, <2>2, <3>2 DEF Branch, n
    <3>3. CASE i = n + 1 \/ j = n + 1
      BY <1>5, <1>8, <1>10, <2>2, <3>1, <3>3
    <3>4. QED
      BY <1>10, <3>2, <3>3
  <2>3. ASSUME NEW i \in 1..Len(stack'), i + 1 <= Len(stack')
        PROVE  /\ stack'[i + 1].table \in Edges(stack'[i].table)
               /\ \E j \in Key : stack'[i + 1].path = Append(stack'[i].path, j)
    <3>1. CASE i = n
      <4>1. stack'[n].table = Top.table /\ stack'[n].path = Top.path
        BY <1>1, <1>9 DEF n
      <4>2. QED
        BY <1>3, <1>4, <1>5, <1>8, <3>1, <4>1
    <3>2. CASE i \in 1..n /\ i + 1 \in 1..n
      <4>1. stack[i + 1].table \in Edges(stack[i].table) /\ \E j \in Key : stack[i + 1].path = Append(stack[i].path, j)
        BY <1>1, <3>2 DEF Branch, n
      <4>2. QED
        BY <1>9, <3>2, <4>1
    <3>3. i = n \/ (i \in 1..n /\ i + 1 \in 1..n)
      BY <1>1, <1>8, <2>3
    <3>4. QED
      BY <3>1, <3>2, <3>3
  <2>4. \A i, j \in 1..Len(stack') : stack'[i].table = stack'[j].table => i = j
    BY <2>2
  <2>5. \A i \in 1..Len(stack') : i + 1 <= Len(stack') =>
           /\ stack'[i + 1].table \in Edges(stack'[i].table)
           /\ \E j \in Key : stack'[i + 1].path = Append(stack'[i].path, j)
    BY <2>3
  <2>6. (\A i \in 1..Len(stack) :
            /\ Len(stack[i].path) = i - 1
            /\ stack[i].path \in DOMAIN output
            /\ Node(stack[i].path) /\ output[stack[i].path].id = stack[i].table
            /\ stack[i].left \subseteq KeysRead(heap, stack[i].table)
            /\ stack[i].table \in Reachable)'
    <3>1. ASSUME NEW i \in 1..Len(stack') PROVE Node(stack[i].path)'
      BY <2>1 DEF Node
    <3>2. \A i \in 1..Len(stack') : /\ Len(stack'[i].path) = i - 1
                                     /\ stack'[i].path \in DOMAIN output'
                                     /\ output'[stack'[i].path].id = stack'[i].table
      BY <2>1
    <3>3. \A i \in 1..Len(stack') : /\ stack'[i].left \subseteq KeysRead(heap', stack'[i].table)
                                     /\ stack'[i].table \in Reachable'
      BY <1>2, <2>1
    <3>4. QED
      BY <3>1, <3>2, <3>3
  <2>7. (\A i \in 1..Len(stack) : i + 1 <= Len(stack) =>
            /\ stack[i + 1].table \in Edges(stack[i].table)
            /\ \E j \in Key : stack[i + 1].path = Append(stack[i].path, j))'
    BY <1>2, <2>5
  <2>8. QED
    BY <2>4, <2>6, <2>7 DEF Branch
<1>16. Exhaustive'
  <2>1. \A p, j : Waiting(p, j)' <=>
           \/ Waiting(p, j) /\ ~(p = Top.path /\ j = k)
           \/ p = path /\ j \in KeysRead(heap, u)
    <3> TAKE p, j
    <3>1. (\E i \in 1..n : Rest(k)[i].path = p /\ j \in Rest(k)[i].left)
             <=> Waiting(p, j) /\ ~(p = Top.path /\ j = k)
      <4>1. (\E i \in 1..Len(Rest(k)) : Rest(k)[i].path = p /\ j \in Rest(k)[i].left)
               <=> Waiting(p, j) /\ ~(p = Top.path /\ j = k)
        BY Waits
      <4>2. Len(Rest(k)) = n
        BY <1>6
      <4>3. QED
        BY <4>1, <4>2
    <3>2. Waiting(p, j)' <=> \E i \in 1..Len(stack') : stack'[i].path = p /\ j \in stack'[i].left
      BY DEF Waiting
    <3>3. Waiting(p, j)' <=> \/ \E i \in 1..n : Rest(k)[i].path = p /\ j \in Rest(k)[i].left
                             \/ path = p /\ j \in KeysRead(heap, u)
      BY <1>5, <1>8, <1>10, <3>2
    <3>4. QED
      BY <3>1, <3>3
  <2>2. QED
    BY <2>1, GrownExhaustive
<1>17. Acyclic'
  <2>1. \A p : OnStack(p)' <=> OnStack(p) \/ p = path
    BY <1>5, <1>8, <1>9, <1>10 DEF OnStack, n
  <2>2. QED
    BY <2>1, GrownAcyclic
<1>18. QED
  BY <1>14, <1>15, <1>16, <1>17, GrownRooted, GrownHeld DEF Tree
-----------------------------------------------------------------------------
(* The end of a table. *)

\* Below a path that waits for nothing and has no child on the branch, every
\* table is complete.
LEMMA ChildIsComplete ==
    ASSUME IInv, stage = "converting", NEW p \in DOMAIN output, Node(p),
           \A k : ~Waiting(p, k), \A k \in Key : ~OnStack(Append(p, k)),
           NEW u \in Edges(output[p].id)
    PROVE  u \in Complete
<1> DEFINE t == output[p].id
<1>1. IsHeap(heap) /\ Held /\ Exhaustive
  BY TopFacts DEF Tree
<1>2. t \in DOMAIN heap.entries
  BY <1>1 DEF Held, Reachable
<1>3. PICK k \in KeysRead(heap, t) : IsTable(Entry(heap, t, k)) /\ u = Entry(heap, t, k).id
  BY DEF Edges
<1>4. k \in Key
  BY <1>1, <1>2, <1>3, KeysReadAreKeys
<1>5. Append(p, k) \in DOMAIN output
  BY <1>1 DEF Exhaustive
<1>6. Matches(output[Append(p, k)], Entry(heap, t, k))
  BY <1>1, <1>4, <1>5 DEF Held
<1>7. Node(Append(p, k)) /\ output[Append(p, k)].id = u
  BY <1>3, <1>6 DEF Matches, Node
<1>8. QED
  BY <1>4, <1>5, <1>7 DEF Complete

\* A complete table refers to complete tables only.
LEMMA EdgesOfComplete ==
    ASSUME IInv, stage = "converting", NEW c \in Complete, NEW u \in Edges(c)
    PROVE  u \in Complete
<1>1. Branch /\ Rooted /\ Len(stack) \in Nat
  BY TopFacts DEF Tree
<1>2. PICK p \in DOMAIN output : Node(p) /\ ~OnStack(p) /\ c = output[p].id
  BY DEF Complete
<1>3. p \in Seq(Key)
  BY <1>1 DEF Rooted
<1>4. ASSUME NEW k \in Key, OnStack(Append(p, k)) PROVE FALSE
  <2>1. PICK i \in 1..Len(stack) : stack[i].path = Append(p, k)
    BY <1>4 DEF OnStack
  <2>2. Len(Append(p, k)) = Len(p) + 1 /\ Len(p) \in Nat
    BY <1>3, AppendFacts
  <2>3. Len(stack[i].path) = i - 1
    BY <1>1 DEF Branch
  <2>4. i - 1 \in 1..Len(stack) /\ (i - 1) + 1 = i
    BY <1>1, <2>1, <2>2, <2>3
  <2>5. stack[i - 1].path \in Seq(Key) /\ \E j \in Key : stack[(i - 1) + 1].path = Append(stack[i - 1].path, j)
    <3>1. stack[i - 1].path \in DOMAIN output
      BY <1>1, <2>4 DEF Branch
    <3>2. (i - 1) + 1 <= Len(stack)
      BY <1>1, <2>4
    <3>3. QED
      BY <1>1, <2>4, <3>1, <3>2 DEF Branch, Rooted
  <2>6. PICK j \in Key : Append(p, k) = Append(stack[i - 1].path, j)
    BY <2>1, <2>4, <2>5
  <2> DEFINE r == stack[i - 1].path
  <2>7. r \in Seq(Key) /\ Append(p, k) = Append(r, j)
    BY <2>5, <2>6
  <2> HIDE DEF r
  <2>8. p = r
    BY <1>3, <2>7, AppendIsInjective
  <2>9. QED
    BY <1>2, <2>4, <2>8 DEF OnStack, r
<1>5. \A k : ~Waiting(p, k)
  BY <1>2 DEF Waiting, OnStack
<1>6. QED
  BY <1>2, <1>4, <1>5, ChildIsComplete

\* When nothing is left of the innermost table, all it leads to is complete.
LEMMA EdgesOfTop ==
    ASSUME IInv, stage = "converting", Top.left = {}, NEW u \in Edges(Top.table)
    PROVE  u \in Complete
<1>1. /\ Branch /\ Rooted /\ Len(stack) \in Nat \ {0} /\ Len(stack) \in 1..Len(stack) /\ Top = stack[Len(stack)]
      /\ Top.path \in DOMAIN output /\ Node(Top.path) /\ output[Top.path].id = Top.table
      /\ Top.path \in Seq(Key)
  BY TopFacts DEF Tree
<1>2. ASSUME NEW k, Waiting(Top.path, k) PROVE FALSE
  <2>1. PICK i \in 1..Len(stack) : stack[i].path = Top.path /\ k \in stack[i].left
    BY <1>2 DEF Waiting
  <2>2. i = Len(stack)
    BY <1>1, <2>1, PathsDiffer
  <2>3. QED
    BY <1>1, <2>1, <2>2
<1>3. ASSUME NEW k \in Key, OnStack(Append(Top.path, k)) PROVE FALSE
  <2>1. PICK i \in 1..Len(stack) : stack[i].path = Append(Top.path, k)
    BY <1>3 DEF OnStack
  <2>2. Len(Append(Top.path, k)) = Len(Top.path) + 1
    BY <1>1, AppendFacts
  <2>3. Len(stack[i].path) = i - 1 /\ Len(Top.path) = Len(stack) - 1
    BY <1>1 DEF Branch
  <2>4. QED
    BY <1>1, <2>1, <2>2, <2>3
<1>4. QED
  BY <1>1, <1>2, <1>3, ChildIsComplete

\* Closing a frame: its table becomes complete.
LEMMA ReturnTree ==
    ASSUME IInv, stage = "converting", Top.left = {}, active' = Left(Top.table), stack' = Callers,
           heap' = heap, output' = output
    PROVE  Tree'
<1> DEFINE n == Len(stack)
           t == Top.table
<1>1. /\ FramesOK /\ Branch /\ Rooted /\ Held /\ Exhaustive /\ Acyclic
      /\ n \in Nat \ {0} /\ n \in 1..n /\ Top = stack[n] /\ stack # <<>>
  BY TopFacts DEF Tree, IInv, Stages
<1>2. Key' = Key /\ Reachable' = Reachable /\ \A u : Edges(u)' = Edges(u)
  BY SameHeap
<1>3. /\ stack' \in Seq([table : DOMAIN heap.entries, path : Seq(Key), left : SUBSET Key])
      /\ Len(stack') = n - 1 /\ \A i \in 1..(n - 1) : stack'[i] = stack[i]
  BY <1>1, AllButLast DEF Callers, FramesOK
<1> HIDE DEF n, t
<1>4. 1..n = 1..(n - 1) \cup {n} /\ \A i \in 1..(n - 1) : i # n
  BY <1>1
<1>5. \A p, k : Waiting(p, k)' <=> Waiting(p, k)
  <2> TAKE p, k
  <2>1. ASSUME Waiting(p, k)' PROVE Waiting(p, k)
    BY <1>3, <1>4, <2>1 DEF Waiting, n
  <2>2. ASSUME NEW i \in 1..n, stack[i].path = p, k \in stack[i].left PROVE Waiting(p, k)'
    <3>1. i \in 1..(n - 1)
      BY <1>1, <1>4, <2>2
    <3>2. QED
      BY <1>3, <2>2, <3>1 DEF Waiting
  <2>3. QED
    BY <2>1, <2>2 DEF Waiting, n
<1>6. FramesOK'
  <2>1. active' = {stack[i].table : i \in 1..n} \ {stack[n].table}
    BY <1>1 DEF Left, FramesOK, n
  <2>2. \A i \in 1..(n - 1) : stack[i].table # stack[n].table
    BY <1>1, <1>4 DEF Branch, n
  <2>3. active' = {stack[i].table : i \in 1..(n - 1)}
    BY <1>4, <2>1, <2>2
  <2>4. active' = {stack'[i].table : i \in 1..Len(stack')}
    BY <1>3, <2>3
  <2>5. QED
    BY <1>2, <1>3, <2>4 DEF FramesOK
<1>7. Branch'
  <2>0. ASSUME NEW i \in 1..(n - 1)
        PROVE  /\ Len(stack[i].path) = i - 1
               /\ stack[i].path \in DOMAIN output
               /\ Node(stack[i].path) /\ output[stack[i].path].id = stack[i].table
               /\ stack[i].left \subseteq KeysRead(heap, stack[i].table)
               /\ stack[i].table \in Reachable
    BY <1>1, <1>4 DEF Branch, n
  <2>1. (\A i \in 1..Len(stack) :
            /\ Len(stack[i].path) = i - 1
            /\ stack[i].path \in DOMAIN output
            /\ Node(stack[i].path) /\ output[stack[i].path].id = stack[i].table
            /\ stack[i].left \subseteq KeysRead(heap, stack[i].table)
            /\ stack[i].table \in Reachable)'
    BY <1>2, <1>3, <2>0 DEF Node
  <2>2. \A i, j \in 1..Len(stack') : stack'[i].table = stack'[j].table => i = j
    BY <1>1, <1>3, <1>4 DEF Branch, n
  <2>3. ASSUME NEW i \in 1..(n - 1), i + 1 <= n - 1
        PROVE  /\ stack[i + 1].table \in Edges(stack[i].table)
               /\ \E k \in Key : stack[i + 1].path = Append(stack[i].path, k)
               /\ i + 1 \in 1..(n - 1)
    <3>1. i \in 1..n /\ i + 1 \in 1..n /\ i + 1 \in 1..(n - 1)
      BY <1>1, <1>4, <2>3
    <3>2. QED
      BY <1>1, <3>1 DEF Branch, n
  <2>4. (\A i \in 1..Len(stack) : i + 1 <= Len(stack) =>
            /\ stack[i + 1].table \in Edges(stack[i].table)
            /\ \E k \in Key : stack[i + 1].path = Append(stack[i].path, k))'
    BY <1>2, <1>3, <2>3
  <2>5. QED
    BY <2>1, <2>2, <2>4 DEF Branch
<1>8. Rooted' /\ Held'
  BY <1>1, <1>2 DEF Rooted, Held, Node, Matches
<1>9. Exhaustive'
  BY <1>1, <1>2, <1>5 DEF Exhaustive, Node
<1>10. Complete' \subseteq Complete \cup {t}
  <2>1. ASSUME NEW p \in DOMAIN output, Node(p), ~OnStack(p)', OnStack(p) PROVE output[p].id = t
    <3>1. PICK i \in 1..n : stack[i].path = p
      BY <2>1 DEF OnStack, n
    <3>2. i = n
      BY <1>3, <1>4, <2>1, <3>1 DEF OnStack
    <3>3. QED
      BY <1>1, <3>1, <3>2 DEF Branch, n, t
  <2>2. QED
    BY <2>1 DEF Complete, Node
<1>11. ASSUME NEW S \in SUBSET (Complete \cup {t}), \A u \in S : Edges(u) \cap S # {} PROVE S = {}
  <2>1. S \cap Complete = {}
    <3> DEFINE C == S \cap Complete
    <3>1. \A u \in C : Edges(u) \cap C # {}
      BY <1>11, EdgesOfComplete
    <3>2. C \in SUBSET Complete
      OBVIOUS
    <3> HIDE DEF C
    <3>3. C = {}
      BY <1>1, <3>1, <3>2 DEF Acyclic
    <3>4. QED
      BY <3>3 DEF C
  <2>2. \A u \in S : Edges(u) \subseteq Complete
    BY <1>11, EdgesOfTop, EdgesOfComplete DEF t
  <2>3. QED
    BY <1>11, <2>1, <2>2
<1>12. Acyclic'
  BY <1>2, <1>10, <1>11 DEF Acyclic
<1>13. QED
  BY <1>6, <1>7, <1>8, <1>9, <1>12 DEF Tree
-----------------------------------------------------------------------------
(* A table met inside itself. *)

\* It closes a cycle of references.
LEMMA BranchCloses ==
    ASSUME IInv, stage = "converting", NEW k \in Top.left, IsTable(Entry(heap, Top.table, k)),
           Entry(heap, Top.table, k).id \in active
    PROVE  Cyclic
<1> DEFINE n == Len(stack)
           u == Entry(heap, Top.table, k).id
<1>1. /\ FramesOK /\ Branch /\ n \in Nat \ {0} /\ n \in 1..n /\ Top = stack[n] /\ k \in KeysRead(heap, Top.table)
  BY TopFacts DEF Tree
<1>2. u \in Edges(stack[n].table)
  BY <1>1, EntryIsEdge
<1>3. PICK j \in 1..n : stack[j].table = u
  BY <1>1 DEF FramesOK
<1> HIDE DEF n, u
<1> DEFINE S == {stack[i].table : i \in j..n}
<1>4. S \subseteq Reachable /\ u \in S
  BY <1>1, <1>3 DEF Branch, n
<1>5. ASSUME NEW i \in j..n PROVE Edges(stack[i].table) \cap S # {}
  <2>1. CASE i = n
    BY <1>2, <1>4, <2>1
  <2>2. CASE i # n
    <3>1. i \in 1..n /\ i + 1 <= n /\ i + 1 \in j..n
      BY <1>1, <1>3, <2>2
    <3>2. stack[i + 1].table \in Edges(stack[i].table) /\ stack[i + 1].table \in S
      BY <1>1, <3>1 DEF Branch, n
    <3>3. QED
      BY <3>2
  <2>3. QED
    BY <2>1, <2>2
<1>6. S # {} /\ \A s \in S : Edges(s) \cap S # {}
  BY <1>4, <1>5
<1>7. QED
  BY <1>4, <1>6 DEF Cyclic
-----------------------------------------------------------------------------
\* The conversion starts.
LEMMA StartIInv ==
    ASSUME IInv, Start
    PROVE  IInv'
<1>1. /\ stage = "returned" /\ stack = <<>> /\ active = {} /\ verdict = "none" /\ IsHeap(heap)
      /\ Visit(<<>>, heap.root, <<>>)
  BY DEF IInv, Stages, Start
<1>2. heap' = heap
  BY <1>1, VisitOutcome
<1>3. CASE \E kind : /\ kind \notin Containers /\ ~IsTable(heap.root)
                     /\ output' = Put(<<>>, kind, heap.root.id)
                     /\ stack' = <<>> /\ active' = active
                     /\ stage' = "idle" /\ verdict' = "merged"
  <2>1. Tree'
    BY <1>1, <1>2, <1>3, StartLeaf
  <2>2. QED
    BY <1>1, <1>2, <1>3, <2>1 DEF IInv, Stages, Live
<1>4. CASE /\ IsTable(heap.root) /\ Form(heap, heap.root.id) \in Containers
           /\ Form(heap, heap.root.id) = "array" => Contiguous(heap, heap.root.id)
           /\ output' = Put(<<>>, Form(heap, heap.root.id), heap.root.id)
           /\ active' = active \cup {heap.root.id}
           /\ stack' = Append(<<>>, [table |-> heap.root.id, path |-> <<>>, left |-> KeysRead(heap, heap.root.id)])
           /\ stage' = "converting" /\ verdict' = verdict
  <2>1. Tree'
    BY <1>1, <1>2, <1>4, StartNode
  <2>2. stack' # <<>>
    BY <1>4
  <2>3. QED
    BY <1>1, <1>2, <1>4, <2>1, <2>2 DEF IInv, Stages, Live
<1>5. CASE stage' = "idle" /\ verdict' # "merged" /\ verdict' # "cycle" /\ stack' = <<>> /\ active' = {}
  BY <1>5 DEF IInv, Stages, Live
<1> DEFINE value == heap.root
           path == <<>>
<1>6. Visit(path, value, <<>>)
  BY <1>1
<1> HIDE DEF value, path
<1>7. \/ \E kind : /\ kind \notin Containers /\ ~IsTable(value)
                   /\ output' = Put(path, kind, value.id)
                   /\ stack' = <<>> /\ active' = active
                   /\ stage' = "idle" /\ verdict' = "merged"
      \/ /\ IsTable(value) /\ value.id \notin active /\ Form(heap, value.id) \in Containers
         /\ Form(heap, value.id) = "array" => Contiguous(heap, value.id)
         /\ output' = Put(path, Form(heap, value.id), value.id)
         /\ active' = active \cup {value.id}
         /\ stack' = Append(<<>>, [table |-> value.id, path |-> path, left |-> KeysRead(heap, value.id)])
         /\ stage' = "converting" /\ verdict' = verdict
      \/ /\ stage' = "idle" /\ verdict' # "merged" /\ stack' = <<>> /\ active' = {}
         /\ verdict' = "cycle" => IsTable(value) /\ value.id \in active
  BY <1>6, VisitOutcome
<1>8. QED
  BY <1>1, <1>3, <1>4, <1>5, <1>7 DEF value, path

\* A key is taken.
LEMMA DescendIInv ==
    ASSUME IInv, NEW k \in Top.left, Descend(k)
    PROVE  IInv'
<1> DEFINE path == Append(Top.path, k)
           value == Entry(heap, Top.table, k)
<1>1. stage = "converting" /\ verdict = "none" /\ IsHeap(heap) /\ Visit(path, value, Rest(k))
  BY DEF IInv, Stages, Descend, Rest
<1>2. heap' = heap
  BY <1>1, VisitOutcome
<1>3. Rest(k) # <<>>
  BY <1>1, RestFacts, TopFacts
<1> HIDE DEF value
<1>4. CASE \E kind : /\ kind \notin Containers /\ ~IsTable(value)
                     /\ output' = Put(path, kind, value.id)
                     /\ stack' = Rest(k) /\ active' = active
                     /\ stage' = "converting" /\ verdict' = verdict
  <2>1. PICK kind : /\ kind \notin Containers /\ ~IsTable(value)
                    /\ output' = Put(path, kind, value.id)
                    /\ stack' = Rest(k) /\ active' = active
                    /\ stage' = "converting" /\ verdict' = verdict
    BY <1>4
  <2>2. Grown(k, kind)
    BY <1>2, <2>1 DEF Grown, value
  <2>3. Tree'
    BY <1>1, <2>1, <2>2, DescendLeaf DEF value
  <2>4. QED
    BY <1>1, <1>2, <1>3, <2>1, <2>3 DEF IInv, Stages, Live
<1>5. CASE /\ IsTable(value) /\ value.id \notin active /\ Form(heap, value.id) \in Containers
           /\ Form(heap, value.id) = "array" => Contiguous(heap, value.id)
           /\ output' = Put(path, Form(heap, value.id), value.id)
           /\ active' = active \cup {value.id}
           /\ stack' = Append(Rest(k), [table |-> value.id, path |-> path, left |-> KeysRead(heap, value.id)])
           /\ stage' = "converting" /\ verdict' = verdict
  <2>1. Grown(k, Form(heap, value.id))
    BY <1>2, <1>5 DEF Grown, value
  <2>2. Tree'
    BY <1>1, <1>5, <2>1, DescendNode DEF value
  <2>3. stack' # <<>>
    <3>1. Rest(k) \in Seq([table : DOMAIN heap.entries, path : Seq(Key), left : SUBSET Key])
      BY <1>1, RestFacts
    <3>2. QED
      BY <1>5, <3>1
  <2>4. QED
    BY <1>1, <1>2, <1>5, <2>2, <2>3 DEF IInv, Stages, Live
<1>6. CASE /\ stage' = "idle" /\ verdict' # "merged" /\ stack' = <<>> /\ active' = {}
           /\ verdict' = "cycle" => IsTable(value) /\ value.id \in active
  <2>1. verdict' = "cycle" => Cyclic'
    BY <1>1, <1>2, <1>6, BranchCloses, SameHeap DEF value
  <2>2. QED
    BY <1>1, <1>2, <1>6, <2>1 DEF IInv, Stages, Live
<1>7. \/ \E kind : /\ kind \notin Containers /\ ~IsTable(value)
                   /\ output' = Put(path, kind, value.id)
                   /\ stack' = Rest(k) /\ active' = active
                   /\ Rest(k) = <<>> => stage' = "idle" /\ verdict' = "merged"
                   /\ Rest(k) # <<>> => stage' = "converting" /\ verdict' = verdict
      \/ /\ IsTable(value) /\ value.id \notin active /\ Form(heap, value.id) \in Containers
         /\ Form(heap, value.id) = "array" => Contiguous(heap, value.id)
         /\ output' = Put(path, Form(heap, value.id), value.id)
         /\ active' = active \cup {value.id}
         /\ stack' = Append(Rest(k), [table |-> value.id, path |-> path, left |-> KeysRead(heap, value.id)])
         /\ stage' = "converting" /\ verdict' = verdict
      \/ /\ stage' = "idle" /\ verdict' # "merged" /\ stack' = <<>> /\ active' = {}
         /\ verdict' = "cycle" => IsTable(value) /\ value.id \in active
  <2> HIDE DEF path
  <2>1. QED
    BY <1>1, VisitOutcome
<1> HIDE DEF path
<1>8. ASSUME NEW kind, kind \notin Containers, ~IsTable(value), output' = Put(path, kind, value.id),
             stack' = Rest(k), active' = active, stage' = "converting", verdict' = verdict
      PROVE  IInv'
  BY <1>4, <1>8
<1>9. QED
  BY <1>3, <1>5, <1>6, <1>7, <1>8

\* A frame is closed.
LEMMA ReturnIInv ==
    ASSUME IInv, Return
    PROVE  IInv'
<1>1. /\ stage = "converting" /\ verdict = "none" /\ IsHeap(heap) /\ Top.left = {}
      /\ active' = Left(Top.table) /\ stack' = Callers /\ heap' = heap /\ output' = output
  BY DEF IInv, Stages, Return
<1>2. Tree'
  BY <1>1, ReturnTree
<1>3. CASE Callers = <<>>
  <2>1. active' = {}
    BY <1>1, <1>2, <1>3 DEF Tree, FramesOK
  <2>2. stage' = "idle" /\ verdict' = "merged"
    BY <1>3 DEF Return, Leave
  <2>3. QED
    BY <1>1, <1>2, <1>3, <2>1, <2>2 DEF IInv, Stages, Live
<1>4. CASE Callers # <<>>
  <2>1. stage' = "converting" /\ verdict' = "none"
    BY <1>1, <1>4 DEF Return
  <2>2. QED
    BY <1>1, <1>2, <1>4, <2>1 DEF IInv, Stages, Live
<1>5. QED
  BY <1>3, <1>4

\* Every step keeps the invariant.
LEMMA StepIInv == IInv /\ [Next]_vars => IInv'
<1> SUFFICES ASSUME IInv, [Next]_vars PROVE IInv'
  OBVIOUS
<1>1. CASE New \/ Close \/ CallFails \/ CallReturns \/ (\E document \in Documents : Encode(document))
             \/ UNCHANGED vars
  BY <1>1, OtherSteps
<1>2. CASE Start
  BY <1>2, StartIInv
<1>3. CASE Return
  BY <1>3, ReturnIInv
<1>4. ASSUME NEW k \in Top.left, Descend(k) PROVE IInv'
  BY <1>4, DescendIInv
<1>5. ASSUME NEW k \in Top.left, BadKey(k) PROVE IInv'
  BY <1>5 DEF BadKey, Refuse, Leave, IInv, Stages, Live
<1>6. CASE Convert
  BY <1>2, <1>3, <1>4, <1>5, <1>6 DEF Convert
<1>7. QED
  BY <1>1, <1>6 DEF Next

\* The engine's own variables.
Settings ==
    /\ engine \in {"absent", "ready", "closed"}
    /\ stage \in {"idle", "calling", "returned", "converting"}
    /\ observed \in 0..MaxMerges /\ merges \in 0..MaxMerges

\* A step of the conversion goes on with the merge or ends it.
LEMMA ConvertKeeps ==
    ASSUME Convert
    PROVE  /\ UNCHANGED <<engine, merges>>
           /\ \/ stage' = "idle" /\ observed' = 0
              \/ stage' \in {stage, "converting"} /\ observed' = observed
<1>1. ASSUME NEW path, NEW value, NEW rest, Visit(path, value, rest)
      PROVE  /\ UNCHANGED <<engine, merges>>
             /\ \/ stage' = "idle" /\ observed' = 0
                \/ stage' \in {stage, "converting"} /\ observed' = observed
  BY <1>1 DEF Visit, Scalar, Null, Emit, Enter, Unacceptable, Refuse, Leave
<1>2. CASE Start
  BY <1>1, <1>2 DEF Start
<1>3. CASE Return
  BY <1>3 DEF Return, Leave
<1>4. ASSUME NEW k \in Top.left, Descend(k) \/ BadKey(k)
      PROVE  /\ UNCHANGED <<engine, merges>>
             /\ \/ stage' = "idle" /\ observed' = 0
                \/ stage' \in {stage, "converting"} /\ observed' = observed
  <2>1. CASE Descend(k)
    BY <1>1, <2>1 DEF Descend
  <2>2. CASE BadKey(k)
    BY <2>2 DEF BadKey, Refuse, Leave
  <2>3. QED
    BY <1>4, <2>1, <2>2
<1>5. QED
  BY <1>2, <1>3, <1>4 DEF Convert

\* The settings of the engine never change.
LEMMA StepSettings == Settings /\ [Next]_vars => Settings'
<1> SUFFICES ASSUME Settings, [Next]_vars PROVE Settings'
  OBVIOUS
<1>0. MaxMerges \in Nat
  BY HeapsAssumption
<1> USE <1>0 DEF Settings
<1>1. CASE Convert
  BY <1>1, ConvertKeeps
<1>2. ASSUME NEW document \in Documents, Encode(document) PROVE Settings'
  BY <1>2 DEF Encode, Leave
<1>3. CASE New \/ Close \/ CallReturns
  BY <1>3 DEF New, Close, CallReturns
<1>4. CASE CallFails
  BY <1>4 DEF CallFails, Leave
<1>5. CASE UNCHANGED vars
  BY <1>5 DEF vars
<1>6. QED
  BY <1>1, <1>2, <1>3, <1>4, <1>5 DEF Next
-----------------------------------------------------------------------------
\* The invariant holds of every engine.
THEOREM Invariance == Spec => []IInv
BY InitIInv, StepIInv, PTL DEF Spec

\* Merge and luaToGo: every live call is inside a table of the result, and the
\* active tables are those of the live calls.
THEOREM TypeCorrectness == Spec => []TypeOK
<1>1. Init => Settings
  BY HeapsAssumption DEF Init, Settings
<1>2. IInv /\ Settings => TypeOK
  <2> SUFFICES ASSUME IInv, Settings PROVE TypeOK
    OBVIOUS
  <2>1. CASE stage = "converting"
    <3>1. FramesOK
      BY <2>1 DEF IInv, Live, Tree
    <3>2. \A i \in 1..Len(stack) : stack[i].table \in DOMAIN heap.entries
      <4>1. \A i \in 1..Len(stack) :
               stack[i] \in [table : DOMAIN heap.entries, path : Seq(Key), left : SUBSET Key]
        BY <3>1, ElementOfSeq DEF FramesOK
      <4>2. QED
        BY <4>1
    <3>3. active \subseteq {stack[i].table : i \in 1..Len(stack)}
      BY <3>1 DEF FramesOK
    <3>4. QED
      BY <3>2, <3>3 DEF Settings, TypeOK
  <2>2. CASE stage # "converting"
    BY <2>2 DEF IInv, Stages, Settings, TypeOK
  <2>3. QED
    BY <2>1, <2>2
<1>3. QED
  BY <1>1, <1>2, StepSettings, Invariance, PTL DEF Spec

\* luaToGo: a result is refused for containing itself exactly when it does;
\* one that shares tables without containing itself never is.
THEOREM CyclesRefused == Spec => []CyclesAreRefused
BY Invariance, InvariantMeaning, PTL

\* luaToGo: when the lengths Lua answers are not ambiguous, what is converted
\* is what was returned, path by path, with nothing left out.
THEOREM ConversionIsFaithful == Spec => []Faithful
BY Invariance, InvariantMeaning, PTL
-----------------------------------------------------------------------------
(* The round trip of a document.  Every converted value has the kind of    *)
(* what the tables hold at its path, and the tables made of a document     *)
(* hold at every path what the document does; so by induction on its       *)
(* length a path of the output is one of the document and vice versa.      *)

\* What a value is in JSON.
KindOf(value) ==
    IF IsTable(value) THEN Form(heap, value.id)
    ELSE IF value.type = "table" THEN "null" ELSE GoKind[value.type]

Kinds == \A p \in DOMAIN output : output[p].kind = KindOf(Holding(p))

Given ==
    stage \in {"calling", "returned", "converting"} \/ verdict = "merged" =>
        given \in Documents /\ Convertible(given)

KindInv == IInv /\ Given /\ (Live => Kinds)

\* A call of luaToGo puts a value of its kind, or the merge fails.
LEMMA VisitKind ==
    ASSUME NEW path, NEW value, NEW rest, Visit(path, value, rest)
    PROVE  /\ heap' = heap /\ given' = given
           /\ \/ output' = Put(path, KindOf(value), value.id)
              \/ stage' = "idle" /\ verdict' # "merged"
<1> USE DEF Visit
<1>1. CASE Scalar(path, value, rest)
  <2>1. value.type # "table"
    BY <1>1 DEF Scalar, GoKind
  <2>2. QED
    BY <1>1, <2>1 DEF Scalar, Emit, KindOf, IsTable
<1>2. CASE Null(path, value, rest)
  BY <1>2 DEF Null, Emit, KindOf, IsTable
<1>3. CASE Enter(path, value, rest)
  BY <1>3 DEF Enter, Acceptable, KindOf
<1>4. CASE Unacceptable(value)
  BY <1>4 DEF Unacceptable, Refuse, Leave, Reason
<1>5. QED
  BY <1>1, <1>2, <1>3, <1>4

\* What the tables hold at a path that is not the root's.
LEMMA HoldingAt ==
    ASSUME NEW S, NEW p \in Seq(S), NEW k \in S
    PROVE  Holding(Append(p, k)) = Entry(heap, output[p].id, k)
<1>1. Append(p, k) # <<>> /\ Front(Append(p, k)) = p /\ Append(p, k)[Len(Append(p, k))] = k
  BY AppendFacts
<1>2. QED
  BY <1>1 DEF Holding

\* The root has the kind of what was returned.
LEMMA StartKinds ==
    ASSUME KindInv, Start
    PROVE  Live' => Kinds'
<1>1. output = <<>> /\ Visit(<<>>, heap.root, <<>>) /\ stage = "returned"
  BY DEF KindInv, IInv, Stages, Start
<1>2. CASE stage' = "idle" /\ verdict' # "merged"
  BY <1>2 DEF Live
<1>3. CASE heap' = heap /\ output' = Put(<<>>, KindOf(heap.root), heap.root.id)
  <2>1. DOMAIN output' = {<<>>}
        /\ output'[<<>>] = [kind |-> KindOf(heap.root), id |-> heap.root.id]
    BY <1>1, <1>3, FirstOutput
  <2>2. Holding(<<>>)' = heap.root
    BY <1>3 DEF Holding
  <2>3. KindOf(heap.root)' = KindOf(heap.root)
    BY <1>3 DEF KindOf
  <2>4. QED
    BY <2>1, <2>2, <2>3, <1>3 DEF Kinds, KindOf
<1> DEFINE path == <<>>
<1>4. Visit(path, heap.root, <<>>)
  BY <1>1
<1> HIDE DEF path
<1>5. \/ heap' = heap /\ output' = Put(path, KindOf(heap.root), heap.root.id)
      \/ stage' = "idle" /\ verdict' # "merged"
  BY <1>4, VisitKind
<1>6. QED
  BY <1>2, <1>3, <1>5 DEF path

\* So has every value below it.
LEMMA DescendKinds ==
    ASSUME KindInv, NEW k \in Top.left, Descend(k)
    PROVE  Live' => Kinds'
<1> DEFINE path == Append(Top.path, k)
           value == Entry(heap, Top.table, k)
<1>1. IInv /\ stage = "converting" /\ verdict = "none" /\ Kinds /\ Visit(path, value, Rest(k))
  BY DEF KindInv, IInv, Stages, Descend, Rest, Live
<1>2. /\ Tree /\ IsHeap(heap) /\ Top.path \in DOMAIN output /\ output[Top.path].id = Top.table
      /\ Top.path \in Seq(Key) /\ k \in Key
      /\ Len(stack) \in Nat \ {0} /\ Top = stack[Len(stack)]
  BY <1>1, TopFacts, KeysReadAreKeys
<1>3. path \notin DOMAIN output
  <2>1. Waiting(Top.path, k)
    BY <1>2 DEF Waiting
  <2>2. QED
    BY <1>2, <2>1 DEF Tree, Exhaustive
<1>4. path \in Seq(Key) /\ path # <<>>
  BY <1>2, AppendFacts
<1>5. Holding(path) = value
  BY <1>2, HoldingAt
<1>6. CASE stage' = "idle" /\ verdict' # "merged"
  BY <1>6 DEF Live
<1>7. CASE heap' = heap /\ output' = Put(path, KindOf(value), value.id)
  <2>1. /\ DOMAIN output' = DOMAIN output \cup {path}
        /\ output'[path] = [kind |-> KindOf(value), id |-> value.id]
        /\ \A p \in DOMAIN output : output'[p] = output[p]
    <3> HIDE DEF path, value
    <3>1. QED
      BY <1>3, <1>7 DEF Put
  <2>2. ASSUME NEW p \in DOMAIN output' PROVE Holding(p)' = Holding(p)
    <3>1. CASE p = <<>>
      BY <1>7, <3>1 DEF Holding
    <3>2. CASE p # <<>>
      <4>1. Front(p) \in DOMAIN output
        <5>1. CASE p = path
          <6>1. Front(path) = Top.path
            BY <1>2, AppendFacts
          <6>2. QED
            BY <1>2, <5>1, <6>1
        <5>2. CASE p \in DOMAIN output
          <6>1. PICK q \in DOMAIN output : \E j \in Key : p = Append(q, j)
            BY <1>2, <3>2, <5>2 DEF Tree, Rooted
          <6>2. PICK j \in Key : p = Append(q, j)
            BY <6>1
          <6>3. q \in Seq(Key)
            BY <1>2 DEF Tree, Rooted
          <6>4. QED
            BY <6>2, <6>3, AppendFacts
        <5>3. QED
          BY <2>1, <5>1, <5>2
      <4>2. output'[Front(p)] = output[Front(p)]
        BY <2>1, <4>1
      <4>3. QED
        BY <1>7, <3>2, <4>2 DEF Holding, Entry, Keys
    <3>3. QED
      BY <3>1, <3>2
  <2>3. ASSUME NEW p \in DOMAIN output' PROVE (output[p].kind = KindOf(Holding(p)))'
    <3> HIDE DEF path, value
    <3>1. CASE p = path
      <4>1. Holding(p)' = value
        BY <1>5, <2>2, <3>1
      <4>2. KindOf(Holding(p))' = KindOf(value)
        BY <1>7, <4>1 DEF KindOf
      <4>3. QED
        BY <2>1, <3>1, <4>2
    <3>2. CASE p \in DOMAIN output
      <4>1. output[p].kind = KindOf(Holding(p))
        BY <1>1, <3>2 DEF Kinds
      <4>2. output'[p].kind = KindOf(Holding(p))
        BY <2>1, <3>2, <4>1
      <4>3. Holding(p)' = Holding(p)
        BY <2>2
      <4>4. KindOf(Holding(p))' = KindOf(Holding(p))
        BY <1>7, <4>3 DEF KindOf
      <4>5. QED
        BY <4>2, <4>4
    <3>3. QED
      BY <2>1, <3>1, <3>2
  <2>4. QED
    BY <2>3 DEF Kinds
<1>8. \/ heap' = heap /\ output' = Put(path, KindOf(value), value.id)
      \/ stage' = "idle" /\ verdict' # "merged"
  <2> HIDE DEF path, value
  <2>1. QED
    BY <1>1, VisitKind
<1>9. QED
  BY <1>6, <1>7, <1>8

\* A path is its front and its last key.
LEMMA FrontAndLast ==
    ASSUME NEW S, NEW s \in Seq(S), s # <<>>
    PROVE  /\ Len(SubSeq(s, 1, Len(s) - 1)) = Len(s) - 1
           /\ Append(SubSeq(s, 1, Len(s) - 1), s[Len(s)]) = s
<1> DEFINE f == SubSeq(s, 1, Len(s) - 1)
           x == s[Len(s)]
<1>1. /\ f \in Seq(S) /\ Len(f) = Len(s) - 1
      /\ \A i \in 1..(Len(s) - 1) : f[i] = s[i]
  BY AllButLast
<1>2. Len(s) \in Nat \ {0} /\ x \in S
  BY LastOf
<1> HIDE DEF f
<1>3. /\ Append(f, x) \in Seq(S) /\ Len(Append(f, x)) = Len(s)
      /\ \A i \in 1..Len(s) : Append(f, x)[i] = s[i]
  <2> HIDE DEF x
  <2>1. /\ Append(f, x) \in Seq(S) /\ Len(Append(f, x)) = Len(s)
        /\ Append(f, x)[Len(s)] = x
        /\ \A i \in 1..(Len(s) - 1) : Append(f, x)[i] = f[i]
    BY <1>1, <1>2
  <2>2. QED
    BY <1>1, <1>2, <2>1 DEF x
<1>4. Append(f, x) = s
  BY <1>3, SeqEqual
<1>5. QED
  BY <1>1, <1>4 DEF f

\* A step that leaves the tables and the result alone leaves the kinds.
LEMMA KindsStay ==
    ASSUME Kinds, UNCHANGED <<heap, output>>
    PROVE  Kinds'
BY DEF Kinds, KindOf, Holding

\* Every step keeps the invariant.
LEMMA StepKindInv == KindInv /\ [Next]_vars => KindInv'
<1> SUFFICES ASSUME KindInv, [Next]_vars PROVE KindInv'
  OBVIOUS
<1>0. IInv /\ Stages /\ IInv'
  BY StepIInv DEF KindInv, IInv
<1>1. ASSUME UNCHANGED <<stage, given, heap, output, verdict>> PROVE KindInv'
  <2>1. Kinds => Kinds'
    BY <1>1, KindsStay
  <2>2. QED
    BY <1>0, <1>1, <2>1 DEF KindInv, Given, Live
<1>2. CASE New \/ Close \/ UNCHANGED vars
  BY <1>1, <1>2 DEF New, Close, vars, conversion
<1>3. CASE CallFails
  BY <1>0, <1>3 DEF CallFails, Leave, KindInv, Given, Live
<1>4. CASE CallReturns
  BY <1>0, <1>4 DEF CallReturns, Stages, KindInv, Given, Live
<1>5. ASSUME NEW document \in Documents, Encode(document) PROVE KindInv'
  BY <1>0, <1>5 DEF Encode, Leave, KindInv, Given, Live
<1>6. ASSUME given' = given, stage \in {"returned", "converting"}, Live' => Kinds' PROVE KindInv'
  BY <1>0, <1>6 DEF KindInv, Given
<1>7. CASE Start
  <2>1. given' = given /\ stage = "returned"
    BY <1>7 DEF Start, Visit
  <2>2. QED
    BY <1>6, <1>7, <2>1, StartKinds
<1>8. ASSUME NEW k \in Top.left, Descend(k) PROVE KindInv'
  <2>1. given' = given /\ stage = "converting"
    BY <1>8 DEF Descend, Visit
  <2>2. QED
    BY <1>6, <1>8, <2>1, DescendKinds
<1>9. ASSUME NEW k \in Top.left, BadKey(k) PROVE KindInv'
  BY <1>6, <1>9 DEF BadKey, Refuse, Leave, Live
<1>10. CASE Return
  <2>1. given' = given /\ stage = "converting" /\ heap' = heap /\ output' = output
    BY <1>10 DEF Return
  <2>2. Kinds
    BY <2>1 DEF KindInv, Live
  <2>3. Kinds'
    BY <2>1, <2>2, KindsStay
  <2>4. QED
    BY <1>6, <2>1, <2>3
<1>11. QED
  BY <1>2, <1>3, <1>4, <1>5, <1>7, <1>8, <1>9, <1>10 DEF Next, Convert
-----------------------------------------------------------------------------
(* The tables made of a document. *)

\* The value at a path is a table where the document has one, and becomes the
\* kind the document has there.
LEMMA ValueOfDocument ==
    ASSUME NEW document, IsJson(document), Convertible(document), NullTable \notin DOMAIN goToLua(document).entries,
           heap.meta = goToLua(document).meta, NEW p \in DOMAIN document
    PROVE  /\ KindOf(ValueAt(document, p)) = Kept(document[p])
           /\ document[p] \in Containers => ValueAt(document, p).id = p
<1>1. document[p] \in DOMAIN LuaType \cup Containers \cup {"null"}
  BY DEF IsJson, Convertible
<1>2. CASE document[p] \in Containers
  <2>1. ValueAt(document, p) = Value("table", p)
    BY <1>2 DEF ValueAt, Containers
  <2>2. p \in DOMAIN goToLua(document).entries
    BY <1>2 DEF goToLua
  <2>3. IsTable(ValueAt(document, p)) /\ ValueAt(document, p).id = p
    BY <2>1, <2>2 DEF IsTable, Value
  <2>4. heap.meta[p] = document[p]
    BY <1>2 DEF goToLua
  <2>5. Form(heap, p) = document[p] /\ Kept(document[p]) = document[p]
    BY <1>2, <2>4 DEF Form, Containers, Kept
  <2>6. QED
    BY <2>3, <2>5 DEF KindOf
<1>3. CASE document[p] = "null"
  <2>1. ValueAt(document, p) = Value("table", NullTable)
    BY <1>3 DEF ValueAt, Containers
  <2>2. QED
    BY <1>3, <2>1 DEF KindOf, IsTable, Value, Kept, Containers
<1>4. CASE document[p] \in DOMAIN LuaType
  <2>1. document[p] \in {"bool", "string", "int64", "float64", "huge"}
    BY <1>4 DEF LuaType
  <2>2. ValueAt(document, p) = Value(LuaType[document[p]], p)
    <3>1. document[p] \notin Containers /\ document[p] # "null"
      BY <2>1 DEF Containers
    <3>2. QED
      BY <3>1 DEF ValueAt
  <2>3. KindOf(ValueAt(document, p)) = GoKind[LuaType[document[p]]]
    BY <2>1, <2>2 DEF KindOf, IsTable, Value, LuaType
  <2>4. GoKind[LuaType[document[p]]] = Kept(document[p])
    BY <2>1 DEF GoKind, LuaType, Kept
  <2>5. document[p] \notin Containers
    BY <2>1 DEF Containers
  <2>6. QED
    BY <2>3, <2>4, <2>5
<1>5. QED
  BY <1>1, <1>2, <1>3, <1>4

\* What is read from such a table is what the document has below it.
LEMMA ReadOfDocument ==
    ASSUME NEW document, IsJson(document), heap.entries = goToLua(document).entries, heap.meta = goToLua(document).meta,
           NEW p \in DOMAIN document, document[p] \in Containers
    PROVE  /\ KeysRead(heap, p) = KeysAt(document, p)
           /\ \A k \in KeysAt(document, p) :
                 Append(p, k) \in DOMAIN document /\ Entry(heap, p, k) = ValueAt(document, Append(p, k))
<1>1. /\ heap.entries[p] = [k \in KeysAt(document, p) |-> ValueAt(document, Append(p, k))]
      /\ heap.meta[p] = document[p]
  BY DEF goToLua
<1>2. Keys(heap, p) = KeysAt(document, p)
  BY <1>1 DEF Keys
<1>3. Form(heap, p) = document[p]
  BY <1>1 DEF Form, Containers
<1>4. document[p] = "array" => KeysAt(document, p) = 1..Count(heap, p)
  BY <1>2 DEF IsJson, Count
<1>5. KeysRead(heap, p) = KeysAt(document, p)
  BY <1>2, <1>3, <1>4 DEF KeysRead
<1>6. \A k \in KeysAt(document, p) :
         Append(p, k) \in DOMAIN document /\ Entry(heap, p, k) = ValueAt(document, Append(p, k))
  BY <1>1, <1>2 DEF Entry, KeysAt
<1>7. QED
  BY <1>5, <1>6
-----------------------------------------------------------------------------
(* The induction: paths of one length are paths of both, with one kind. *)

AsGiven == /\ verdict = "merged" /\ given \in Documents /\ Convertible(given)
             /\ heap = encodeValue(given)

Agreeing(p) == output[p].kind = Kept(given[p]) /\ (Node(p) => output[p].id = p)

\* The tables are those of the document, whatever the root.
LEMMA TablesOfDocument ==
    ASSUME KindInv, AsGiven
    PROVE  /\ IsJson(given) /\ Tree /\ Kinds /\ stack = <<>> /\ IsHeap(heap)
           /\ heap.entries = goToLua(given).entries /\ heap.meta = goToLua(given).meta
           /\ NullTable \notin DOMAIN goToLua(given).entries
<1>1. IInv /\ Tree /\ Kinds /\ stack = <<>> /\ IsHeap(heap)
  BY DEF KindInv, IInv, Stages, Live, AsGiven
<1>2. heap.entries = goToLua(given).entries /\ heap.meta = goToLua(given).meta
  BY DEF AsGiven, encodeValue, goToLua
<1>3. QED
  BY <1>1, <1>2, HeapsAssumption DEF AsGiven, IsHeap

\* The root.
LEMMA RootAgrees ==
    ASSUME KindInv, AsGiven
    PROVE  <<>> \in DOMAIN output /\ <<>> \in DOMAIN given /\ Agreeing(<<>>)
<1>1. <<>> \in DOMAIN output /\ <<>> \in DOMAIN given
  BY TablesOfDocument DEF Tree, Rooted, IsJson
<1>2. /\ output[<<>>].kind = KindOf(heap.root)
      /\ output[<<>>].id = heap.root.id /\ (Node(<<>>) <=> IsTable(heap.root))
  BY <1>1, TablesOfDocument DEF Kinds, Holding, Tree, Held, Matches, Node
<1>3. CASE given[<<>>] = "null"
  <2>1. heap.root = Value("nil", NullTable)
    BY <1>3 DEF AsGiven, encodeValue, goToLua
  <2>2. KindOf(heap.root) = "null" /\ ~IsTable(heap.root)
    BY <2>1 DEF KindOf, IsTable, Value, GoKind
  <2>3. QED
    BY <1>1, <1>2, <1>3, <2>2 DEF Agreeing, Kept
<1>4. CASE given[<<>>] # "null"
  <2>1. heap.root = ValueAt(given, <<>>)
    BY <1>4 DEF AsGiven, encodeValue, goToLua
  <2>2. /\ KindOf(heap.root) = Kept(given[<<>>])
        /\ given[<<>>] \in Containers => heap.root.id = <<>>
    BY <1>1, <2>1, TablesOfDocument, ValueOfDocument DEF AsGiven
  <2>3. Node(<<>>) => given[<<>>] \in Containers
    BY <1>2, <2>2 DEF Node, Kept, Containers
  <2>4. QED
    BY <1>1, <1>2, <2>2, <2>3 DEF Agreeing
<1>5. QED
  BY <1>1, <1>3, <1>4

\* A key of a path on which both agree: both have it or neither, and they
\* agree there.
LEMMA BelowAgrees ==
    ASSUME KindInv, AsGiven, NEW p \in DOMAIN output, p \in DOMAIN given, Agreeing(p), Node(p)
    PROVE  /\ given[p] \in Containers /\ KeysRead(heap, output[p].id) = KeysAt(given, p)
           /\ \A k \in KeysAt(given, p) :
                 /\ Append(p, k) \in DOMAIN output /\ Append(p, k) \in DOMAIN given
                 /\ Agreeing(Append(p, k))
<1>1. output[p].id = p /\ given[p] \in Containers
  BY DEF Agreeing, Node, Kept, Containers
<1>2. /\ KeysRead(heap, p) = KeysAt(given, p)
      /\ \A k \in KeysAt(given, p) :
            Append(p, k) \in DOMAIN given /\ Entry(heap, p, k) = ValueAt(given, Append(p, k))
  BY <1>1, TablesOfDocument, ReadOfDocument
<1>3. ASSUME NEW k \in KeysAt(given, p)
      PROVE  Append(p, k) \in DOMAIN output /\ Agreeing(Append(p, k))
  <2> DEFINE q == Append(p, k)
  <2>1. q \in DOMAIN output
    BY <1>1, <1>2, <1>3, TablesOfDocument DEF Tree, Exhaustive, Waiting
  <2>2. p \in Seq(Key) /\ p \in DOMAIN heap.entries
    BY <1>1, TablesOfDocument DEF Tree, Rooted, goToLua
  <2>3. k \in Key
    BY <1>2, <1>3, <2>2, TablesOfDocument, KeysReadAreKeys
  <2>4. Holding(q) = Entry(heap, p, k)
    BY <1>1, <2>2, <2>3, HoldingAt
  <2>5. Matches(output[q], Entry(heap, p, k))
    BY <1>1, <2>1, <2>3, TablesOfDocument DEF Tree, Held
  <2>6. q \in DOMAIN given /\ Entry(heap, p, k) = ValueAt(given, q)
    BY <1>2, <1>3
  <2> HIDE DEF q
  <2>7. /\ KindOf(ValueAt(given, q)) = Kept(given[q])
        /\ given[q] \in Containers => ValueAt(given, q).id = q
    BY <2>6, TablesOfDocument, ValueOfDocument DEF AsGiven
  <2>8. output[q].kind = Kept(given[q]) /\ output[q].id = ValueAt(given, q).id
    BY <2>1, <2>4, <2>5, <2>6, <2>7, TablesOfDocument DEF Kinds, Matches
  <2>9. Node(q) => given[q] \in Containers
    BY <2>8 DEF Node, Kept, Containers
  <2>10. QED
    BY <2>1, <2>7, <2>8, <2>9 DEF Agreeing, q
<1>4. QED
  BY <1>1, <1>2, <1>3

\* Paths of one length.
LEMMA LevelsAgree ==
    ASSUME KindInv, AsGiven
    PROVE  \A n \in Nat : \A p :
              /\ p \in DOMAIN output /\ Len(p) = n => p \in DOMAIN given /\ Agreeing(p)
              /\ p \in DOMAIN given /\ Len(p) = n => p \in DOMAIN output
<1> DEFINE Level(n) == \A p :
              /\ p \in DOMAIN output /\ Len(p) = n => p \in DOMAIN given /\ Agreeing(p)
              /\ p \in DOMAIN given /\ Len(p) = n => p \in DOMAIN output
<1>1. DOMAIN output \subseteq Seq(Key) /\ DOMAIN given \subseteq Seq(Names \cup Nat)
  BY TablesOfDocument DEF Tree, Rooted, IsJson
<1>2. Level(0)
  <2>1. \A p : p \in DOMAIN output \/ p \in DOMAIN given => (Len(p) = 0 => p = <<>>)
    BY <1>1, EmptySeq
  <2>2. QED
    BY <2>1, RootAgrees
<1>3. ASSUME NEW n \in Nat, Level(n) PROVE Level(n + 1)
  <2>1. ASSUME NEW q \in DOMAIN output, Len(q) = n + 1 PROVE q \in DOMAIN given /\ Agreeing(q)
    <3>1. q # <<>>
      BY <2>1
    <3>2. PICK p \in DOMAIN output : \E k \in Key :
             q = Append(p, k) /\ Node(p) /\ k \in KeysRead(heap, output[p].id)
      BY <3>1, TablesOfDocument DEF Tree, Rooted
    <3>3. PICK k \in Key : q = Append(p, k) /\ Node(p) /\ k \in KeysRead(heap, output[p].id)
      BY <3>2
    <3>4. Len(p) = n
      BY <1>1, <2>1, <3>3, AppendFacts
    <3>5. p \in DOMAIN given /\ Agreeing(p)
      BY <1>3, <3>4
    <3>6. QED
      BY <3>3, <3>5, BelowAgrees
  <2>2. ASSUME NEW q \in DOMAIN given, Len(q) = n + 1 PROVE q \in DOMAIN output
    <3> DEFINE p == SubSeq(q, 1, Len(q) - 1)
               k == q[Len(q)]
    <3>1. q \in Seq(Names \cup Nat) /\ q # <<>>
      BY <1>1, <2>2
    <3>2. p \in DOMAIN given /\ given[p] \in Containers /\ k \in KeysAt(given, p)
      BY <3>1, TablesOfDocument DEF IsJson
    <3>3. Len(p) = n /\ Append(p, k) = q
      BY <2>2, <3>1, FrontAndLast
    <3>4. p \in DOMAIN output /\ Agreeing(p)
      BY <1>3, <3>2, <3>3
    <3>5. Node(p)
      BY <3>2, <3>4 DEF Agreeing, Node, Kept, Containers
    <3> HIDE DEF p, k
    <3>6. QED
      BY <3>2, <3>3, <3>4, <3>5, BelowAgrees
  <2>3. QED
    BY <2>1, <2>2
<1> HIDE DEF Level
<1> DEFINE T == {n \in Nat : Level(n)}
<1>4. 0 \in T /\ \A n \in Nat : n \in T => n + 1 \in T
  BY <1>2, <1>3
<1> HIDE DEF T
<1>5. Nat \subseteq T
  BY <1>4, NumberInduction
<1>6. \A n \in Nat : Level(n)
  BY <1>5 DEF T
<1>7. QED
  BY <1>6 DEF Level

\* So nothing is lost or added.
LEMMA UntouchedComesBack == KindInv => RoundTrip
<1> SUFFICES ASSUME KindInv, verdict = "merged", heap = encodeValue(given)
             PROVE  [p \in DOMAIN output |-> output[p].kind] = [p \in DOMAIN given |-> Kept(given[p])]
  BY DEF RoundTrip
<1>1. AsGiven
  BY DEF KindInv, Given, AsGiven
<1>2. \A p \in DOMAIN output \cup DOMAIN given : Len(p) \in Nat
  BY <1>1, TablesOfDocument DEF Tree, Rooted, IsJson
<1>3. DOMAIN output = DOMAIN given /\ \A p \in DOMAIN output : Agreeing(p)
  BY <1>1, <1>2, LevelsAgree
<1>4. QED
  BY <1>3 DEF Agreeing

\* Merge: a document that the program returns as it was given comes back with
\* nothing lost or added, and with every kind it had: nulls, empty arrays and
\* empty objects included.
THEOREM DocumentsComeBack == Spec => []RoundTrip
<1>1. Init => KindInv
  BY InitIInv DEF Init, KindInv, Given, Live
<1>2. QED
  BY <1>1, StepKindInv, UntouchedComesBack, PTL DEF Spec
================================================================================
