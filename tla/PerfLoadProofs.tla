--------------------------- MODULE PerfLoadProofs ---------------------------
(***************************************************************************)
(* Proofs about PerfLoad for any number of workers and records, any batch  *)
(* and any number of writes: the types; that the effects not yet there are *)
(* those the client still counts as unknown; and, for late merges on a     *)
(* store that damages nothing, that every write counts exactly once, so    *)
(* that reconciliation finds no sequence and no value it cannot account    *)
(* for.  A run that verifies balances its accounts on any store: what is   *)
(* stored is what was acknowledged and what was recovered.                 *)
(***************************************************************************)
EXTENDS PerfLoad, FiniteSetTheorems, WellFoundedInduction, TLAPS
-----------------------------------------------------------------------------
(* Sums over finite sets of any size.  SumFunction of the community        *)
(* modules chooses a recursive function; what it computes follows from     *)
(* least numbers: every finite set has sums that do not depend on the      *)
(* order, SumFunction yields one of them, and so it adds up, changes with  *)
(* one summand and counts ones.  The two inductions are stated for a set   *)
(* in place of a predicate, which is all a first-order prover needs.       *)

\* A set of natural numbers has a least one.
LEMMA LeastNumber ==
    ASSUME NEW T, T \subseteq Nat, T # {}
    PROVE  \E m \in T : \A n \in T : m <= n
<1> DEFINE R == {ss \in Nat \X Nat : ss[1] < ss[2]}
<1>1. IsWellFoundedOn(R, Nat)
  BY NatLessThanWellFounded DEF OpToRel
<1>2. \A m, n \in T : <<n, m>> \in R <=> n < m
  OBVIOUS
<1> HIDE DEF R
<1>3. PICK m \in T : \A n \in T : ~ (<<n, m>> \in R)
  BY <1>1, WFMin
<1>4. \A n \in T : ~ (n < m)
  BY <1>2, <1>3
<1> QED BY <1>4

\* A set of numbers that holds 0 and every successor holds them all.
LEMMA NumberInduction ==
    ASSUME NEW T, 0 \in T, \A n \in Nat : n \in T => n + 1 \in T
    PROVE  Nat \subseteq T
<1> DEFINE U == Nat \ T
<1> SUFFICES ASSUME U # {} PROVE FALSE
  OBVIOUS
<1>1. PICK m \in U : \A n \in U : m <= n
  BY LeastNumber
<1>2. m # 0 /\ m \in Nat
  BY <1>1
<1>3. m - 1 \in Nat /\ m - 1 \notin U
  BY <1>1, <1>2
<1> QED BY <1>2, <1>3

\* A set of sets that holds the empty one and, with a part of S, the part with
\* one more element, holds S.
LEMMA SetInduction ==
    ASSUME NEW S, IsFiniteSet(S), NEW T, {} \in T,
           \A U \in SUBSET S, x \in S : U \in T /\ x \notin U => U \cup {x} \in T
    PROVE  S \in T
<1> DEFINE N == {n \in Nat : \A U \in SUBSET S : Cardinality(U) = n => U \in T}
<1>1. \A U \in SUBSET S : IsFiniteSet(U) /\ Cardinality(U) \in Nat
  BY FS_Subset, FS_CardinalityType
<1>2. 0 \in N
  BY <1>1, FS_EmptySet
<1>3. ASSUME NEW n \in Nat, n \in N PROVE n + 1 \in N
  <2> SUFFICES ASSUME NEW U \in SUBSET S, Cardinality(U) = n + 1 PROVE U \in T
    OBVIOUS
  <2>1. PICK x \in U : TRUE
    BY <1>1, FS_EmptySet
  <2>2. IsFiniteSet(U)
    BY <1>1
  <2>3. Cardinality(U \ {x}) = Cardinality(U) - 1
    BY <2>2, FS_RemoveElement
  <2>4. U \ {x} \in T
    BY <1>3, <2>3
  <2>5. (U \ {x}) \cup {x} \in T /\ (U \ {x}) \cup {x} = U
    BY <2>4
  <2> QED BY <2>5
<1> HIDE DEF N
<1>4. Nat \subseteq N
  BY <1>2, <1>3, NumberInduction
<1> QED BY <1>1, <1>4 DEF N
-----------------------------------------------------------------------------
\* t gives every part of S the sum of f over it, in whatever order.
Sums(t, f, S) ==
    /\ t \in [SUBSET S -> Int] /\ t[{}] = 0
    /\ \A U \in SUBSET S : \A x \in U : t[U] = f[x] + t[U \ {x}]

\* Every finite set of integers has such sums, built up one element at a time.
LEMMA SumsExist ==
    ASSUME NEW S, IsFiniteSet(S), NEW f, \A x \in S : f[x] \in Int
    PROVE  \E t : Sums(t, f, S)
<1> DEFINE T == {U \in SUBSET S : \E t : Sums(t, f, U)}
<1>1. {} \in T
  <2>1. Sums([U \in SUBSET {} |-> 0], f, {})
    BY DEF Sums
  <2> QED BY <2>1
<1>2. ASSUME NEW U \in SUBSET S, NEW x \in S, U \in T, x \notin U
      PROVE  U \cup {x} \in T
  <2>1. PICK t : Sums(t, f, U)
    BY <1>2
  <2> DEFINE W == U \cup {x}
             s == [V \in SUBSET W |-> IF x \in V THEN f[x] + t[V \ {x}] ELSE t[V]]
  <2>2. \A V \in SUBSET W : V \ {x} \in SUBSET U /\ (x \notin V => V \in SUBSET U)
    OBVIOUS
  <2>3. f[x] \in Int /\ \A V \in SUBSET U : t[V] \in Int
    BY <2>1 DEF Sums
  <2>4. s \in [SUBSET W -> Int] /\ s[{}] = 0
    BY <2>1, <2>2, <2>3 DEF Sums
  <2>5. ASSUME NEW V \in SUBSET W, NEW y \in V
        PROVE  s[V] = f[y] + s[V \ {y}]
    <3>1. CASE x = y
      BY <2>2, <3>1
    <3>2. CASE x # y /\ x \in V
      <4>1. V \ {x} \in SUBSET U /\ y \in V \ {x} /\ f[y] \in Int
        BY <2>2, <3>2
      <4>2. t[V \ {x}] = f[y] + t[(V \ {x}) \ {y}]
        BY <2>1, <4>1 DEF Sums
      <4>3. (V \ {x}) \ {y} = (V \ {y}) \ {x} /\ (V \ {y}) \ {x} \in SUBSET U
        BY <4>1
      <4>4. s[V] = f[x] + t[V \ {x}] /\ s[V \ {y}] = f[x] + t[(V \ {y}) \ {x}]
        BY <3>2
      <4>5. t[(V \ {y}) \ {x}] \in Int
        BY <2>3, <4>3
      <4>6. t[V \ {x}] = f[y] + t[(V \ {y}) \ {x}]
        BY <4>2, <4>3
      <4> HIDE DEF s
      <4> QED BY <2>3, <4>1, <4>4, <4>5, <4>6
    <3>3. CASE x \notin V
      <4>1. V \in SUBSET U /\ V \ {y} \in SUBSET U
        BY <2>2, <3>3
      <4>2. t[V] = f[y] + t[V \ {y}]
        BY <2>1, <4>1 DEF Sums
      <4> QED BY <3>3, <4>2
    <3> QED BY <3>1, <3>2, <3>3
  <2>6. Sums(s, f, W)
    BY <2>4, <2>5 DEF Sums
  <2>7. W \in SUBSET S
    OBVIOUS
  <2> QED BY <2>6, <2>7
<1> HIDE DEF T
<1>3. S \in T
  BY <1>1, <1>2, SetInduction
<1> QED BY <1>3 DEF T

\* SumFunctionOnSet is that sum.
LEMMA SumIs ==
    ASSUME NEW S, IsFiniteSet(S), NEW f, \A x \in S : f[x] \in Int,
           NEW t, Sums(t, f, S), NEW U \in SUBSET S
    PROVE  SumFunctionOnSet(f, U) = t[U]
<1> DEFINE one(V) == CHOOSE x \in V : TRUE
           E(g) == [V \in SUBSET U |-> IF V = {} THEN 0 ELSE f[one(V)] + g[V \ {one(V)}]]
           iter == CHOOSE g : g = E(g)
           h == [V \in SUBSET U |-> t[V]]
<1>1. \A V \in SUBSET U : V # {} => one(V) \in V
  OBVIOUS
<1>2. h = E(h)
  <2>1. ASSUME NEW V \in SUBSET U, V # {} PROVE t[V] = f[one(V)] + t[V \ {one(V)}]
    <3>1. one(V) \in V /\ V \in SUBSET S
      BY <1>1, <2>1
    <3> QED BY <3>1 DEF Sums
  <2>2. t[{}] = 0
    BY DEF Sums
  <2>3. ASSUME NEW V \in SUBSET U PROVE h[V] = E(h)[V]
    <3> HIDE DEF one
    <3> QED BY <1>1, <2>1, <2>2
  <2> QED BY <2>3
<1>3. iter = E(iter)
  BY <1>2
<1> DEFINE T == {V \in SUBSET U : iter[V] = t[V]}
<1> HIDE DEF iter
<1>4. {} \in T
  BY <1>3 DEF Sums
<1>5. \A V \in SUBSET U : iter[V] = t[V]
  <2> DEFINE N == {n \in Nat : \A V \in SUBSET U : Cardinality(V) = n => iter[V] = t[V]}
  <2>1. \A V \in SUBSET U : IsFiniteSet(V) /\ Cardinality(V) \in Nat
    BY FS_Subset, FS_CardinalityType
  <2>2. 0 \in N
    BY <2>1, <1>4, FS_EmptySet
  <2>3. ASSUME NEW n \in Nat, n \in N PROVE n + 1 \in N
    <3> SUFFICES ASSUME NEW V \in SUBSET U, Cardinality(V) = n + 1 PROVE iter[V] = t[V]
      OBVIOUS
    <3> DEFINE x == one(V)
    <3>1. V # {} /\ IsFiniteSet(V)
      BY <2>1, FS_EmptySet
    <3>2. x \in V
      BY <3>1
    <3> HIDE DEF x
    <3>3. Cardinality(V \ {x}) = Cardinality(V) - 1
      BY <3>1, <3>2, FS_RemoveElement
    <3>4. iter[V \ {x}] = t[V \ {x}]
      BY <2>3, <3>3
    <3>5. iter[V] = f[x] + iter[V \ {x}]
      BY <1>3, <3>1 DEF x
    <3>6. t[V] = f[x] + t[V \ {x}]
      BY <3>2 DEF Sums
    <3> QED BY <3>4, <3>5, <3>6
  <2> HIDE DEF N
  <2>4. Nat \subseteq N
    BY <2>2, <2>3, NumberInduction
  <2> QED BY <2>1, <2>4 DEF N
<1>6. SumFunctionOnSet(f, U) = iter[U]
  BY DEF SumFunctionOnSet, FoldFunctionOnSet, MapThenFoldSet, iter
<1> QED BY <1>5, <1>6

\* The facts about sums.
LEMMA SumFacts ==
    ASSUME NEW S, IsFiniteSet(S), NEW f, \A x \in S : f[x] \in Int
    PROVE  /\ SumFunctionOnSet(f, {}) = 0
           /\ \A U \in SUBSET S : SumFunctionOnSet(f, U) \in Int
           /\ \A U \in SUBSET S : \A x \in U :
                SumFunctionOnSet(f, U) = f[x] + SumFunctionOnSet(f, U \ {x})
           /\ \A U \in SUBSET S : \A x \in S \ U :
                SumFunctionOnSet(f, U \cup {x}) = f[x] + SumFunctionOnSet(f, U)
<1>1. PICK t : Sums(t, f, S)
  BY SumsExist
<1>2. \A U \in SUBSET S : SumFunctionOnSet(f, U) = t[U]
  BY <1>1, SumIs
<1>3. \A U \in SUBSET S : \A x \in U : SumFunctionOnSet(f, U) = f[x] + SumFunctionOnSet(f, U \ {x})
  BY <1>1, <1>2 DEF Sums
<1>4. ASSUME NEW U \in SUBSET S, NEW x \in S \ U
      PROVE  SumFunctionOnSet(f, U \cup {x}) = f[x] + SumFunctionOnSet(f, U)
  <2>1. U \cup {x} \in SUBSET S /\ x \in U \cup {x} /\ (U \cup {x}) \ {x} = U
    OBVIOUS
  <2>2. SumFunctionOnSet(f, U \cup {x}) = f[x] + SumFunctionOnSet(f, (U \cup {x}) \ {x})
    BY <1>3, <2>1
  <2> QED BY <2>1, <2>2
<1> QED BY <1>1, <1>2, <1>3, <1>4 DEF Sums

\* Sums of functions that agree on the set.
LEMMA SumSame ==
    ASSUME NEW S, IsFiniteSet(S), NEW f, NEW g, \A x \in S : f[x] \in Int /\ f[x] = g[x]
    PROVE  SumFunctionOnSet(f, S) = SumFunctionOnSet(g, S)
<1>1. PICK t : Sums(t, f, S)
  BY SumsExist
<1>2. Sums(t, g, S)
  BY <1>1 DEF Sums
<1>3. SumFunctionOnSet(f, S) = t[S] /\ SumFunctionOnSet(g, S) = t[S]
  BY <1>1, <1>2, SumIs
<1> QED BY <1>3

\* One of the numbers changes.
LEMMA SumChanges ==
    ASSUME NEW S, IsFiniteSet(S), NEW f, NEW g, NEW x \in S,
           \A y \in S : f[y] \in Int /\ g[y] \in Int /\ (y # x => f[y] = g[y])
    PROVE  SumFunctionOnSet(g, S) = SumFunctionOnSet(f, S) + (g[x] - f[x])
<1>1. /\ SumFunctionOnSet(f, S) = f[x] + SumFunctionOnSet(f, S \ {x})
      /\ SumFunctionOnSet(f, S \ {x}) \in Int
  BY SumFacts
<1>2. SumFunctionOnSet(g, S) = g[x] + SumFunctionOnSet(g, S \ {x})
  BY SumFacts
<1>3. SumFunctionOnSet(g, S \ {x}) = SumFunctionOnSet(f, S \ {x})
  BY SumSame, FS_RemoveElement
<1> QED BY <1>1, <1>2, <1>3

\* The sum of two functions.
LEMMA SumPlus ==
    ASSUME NEW S, IsFiniteSet(S), NEW f, NEW g, NEW h,
           \A x \in S : f[x] \in Int /\ g[x] \in Int /\ h[x] = f[x] + g[x]
    PROVE  SumFunctionOnSet(h, S) = SumFunctionOnSet(f, S) + SumFunctionOnSet(g, S)
<1>1. PICK t : Sums(t, f, S)
  BY SumsExist
<1>2. PICK u : Sums(u, g, S)
  BY SumsExist
<1> DEFINE v == [U \in SUBSET S |-> t[U] + u[U]]
<1>3. Sums(v, h, S)
  <2>1. \A U \in SUBSET S : t[U] \in Int /\ u[U] \in Int
    BY <1>1, <1>2 DEF Sums
  <2>2. v \in [SUBSET S -> Int] /\ v[{}] = 0
    BY <1>1, <1>2, <2>1 DEF Sums
  <2>3. ASSUME NEW U \in SUBSET S, NEW x \in U PROVE v[U] = h[x] + v[U \ {x}]
    <3>1. t[U] = f[x] + t[U \ {x}] /\ u[U] = g[x] + u[U \ {x}]
      BY <1>1, <1>2 DEF Sums
    <3>2. t[U \ {x}] \in Int /\ u[U \ {x}] \in Int /\ f[x] \in Int /\ g[x] \in Int
          /\ h[x] = f[x] + g[x]
      BY <2>1
    <3>3. v[U] = t[U] + u[U] /\ v[U \ {x}] = t[U \ {x}] + u[U \ {x}]
      OBVIOUS
    <3> HIDE DEF v
    <3> QED BY <3>1, <3>2, <3>3
  <2> QED BY <2>2, <2>3 DEF Sums
<1>4. \A x \in S : h[x] \in Int
  OBVIOUS
<1>5. SumFunctionOnSet(f, S) = t[S] /\ SumFunctionOnSet(g, S) = u[S]
      /\ SumFunctionOnSet(h, S) = v[S]
  <2> HIDE DEF v
  <2> QED BY <1>1, <1>2, <1>3, <1>4, SumIs
<1> QED BY <1>5

\* The numbers are ones on P and zeros elsewhere.
LEMMA SumOfOnes ==
    ASSUME NEW S, IsFiniteSet(S), NEW f, NEW P \in SUBSET S,
           \A x \in S : f[x] = IF x \in P THEN 1 ELSE 0
    PROVE  SumFunctionOnSet(f, S) = Cardinality(P)
<1> DEFINE t == [U \in SUBSET S |-> Cardinality(U \cap P)]
<1>1. ASSUME NEW U \in SUBSET S
      PROVE  IsFiniteSet(U \cap P) /\ t[U] \in Nat /\ t[U] = Cardinality(U \cap P)
  <2>1. IsFiniteSet(U \cap P)
    BY FS_Subset
  <2> QED BY <2>1, FS_CardinalityType
<1>2. ASSUME NEW U \in SUBSET S, NEW x \in U PROVE t[U] = f[x] + t[U \ {x}]
  <2>1. U \ {x} \in SUBSET S
    OBVIOUS
  <2>2. t[U \ {x}] = Cardinality((U \cap P) \ {x}) /\ t[U] = Cardinality(U \cap P)
        /\ IsFiniteSet(U \cap P) /\ t[U] \in Nat
    <3>1. (U \ {x}) \cap P = (U \cap P) \ {x}
      OBVIOUS
    <3> HIDE DEF t
    <3> QED BY <1>1, <2>1, <3>1
  <2> HIDE DEF t
  <2>3. CASE x \in P
    <3>1. Cardinality((U \cap P) \ {x}) = Cardinality(U \cap P) - 1
      BY <2>2, <2>3, FS_RemoveElement
    <3> QED BY <2>2, <2>3, <3>1
  <2>4. CASE x \notin P
    <3>1. (U \cap P) \ {x} = U \cap P
      BY <2>4
    <3>2. t[U \ {x}] = t[U] /\ f[x] = 0
      BY <2>2, <2>4, <3>1
    <3> QED BY <2>2, <3>2
  <2> QED BY <2>3, <2>4
<1>3. t \in [SUBSET S -> Int] /\ t[{}] = 0
  <2>1. t[{}] = Cardinality({} \cap P) /\ {} \cap P = {}
    OBVIOUS
  <2>2. t[{}] = 0
    BY <2>1, FS_EmptySet
  <2>3. \A U \in SUBSET S : Cardinality(U \cap P) \in Nat
    BY <1>1
  <2>4. t \in [SUBSET S -> Int]
    BY <2>3
  <2> QED BY <2>2, <2>4
<1> HIDE DEF t
<1>4. Sums(t, f, S)
  BY <1>2, <1>3 DEF Sums
<1>5. SumFunctionOnSet(f, S) = t[S]
  BY <1>4, SumIs
<1>6. S \cap P = P
  OBVIOUS
<1> QED BY <1>5, <1>6 DEF t

\* e[a][b] names each element of S once, and rows are the sums of f over its
\* rows.
RowSums(S, A, B, e, f, row, rows) ==
    /\ \A a \in A, b \in B : e[a][b] \in S
    /\ \A s \in S : \E a \in A, b \in B : s = e[a][b]
    /\ \A a, c \in A, b, d \in B : e[a][b] = e[c][d] => a = c /\ b = d
    /\ \A s \in S : f[s] \in Int
    /\ \A a \in A, b \in B : row[a][b] = f[e[a][b]]
    /\ \A a \in A : rows[a] = SumFunctionOnSet(row[a], B)

\* A sum taken row by row.
LEMMA SumByRows ==
    ASSUME NEW S, IsFiniteSet(S), NEW A, IsFiniteSet(A), NEW B, IsFiniteSet(B),
           NEW e, NEW f, NEW row, NEW rows, RowSums(S, A, B, e, f, row, rows)
    PROVE  SumFunctionOnSet(f, S) = SumFunctionOnSet(rows, A)
<1>0. /\ \A a \in A, b \in B : e[a][b] \in S
      /\ \A s \in S : \E a \in A, b \in B : s = e[a][b]
      /\ \A a, c \in A, b, d \in B : e[a][b] = e[c][d] => a = c /\ b = d
      /\ \A s \in S : f[s] \in Int
      /\ \A a \in A, b \in B : row[a][b] = f[e[a][b]]
      /\ \A a \in A : rows[a] = SumFunctionOnSet(row[a], B)
  BY DEF RowSums
<1>1. PICK t : Sums(t, f, S)
  BY <1>0, SumsExist
<1>2. \A a \in A, b \in B : row[a][b] \in Int
  BY <1>0
<1>3. \A a \in A : rows[a] \in Int
  BY <1>0, <1>2, SumFacts
<1> DEFINE Part(U) == {s \in S : \E a \in U, b \in B : s = e[a][b]}
           T == {U \in SUBSET A : t[Part(U)] = SumFunctionOnSet(rows, U)}
<1>4. {} \in T
  <2>1. Part({}) = {}
    OBVIOUS
  <2>2. SumFunctionOnSet(rows, {}) = 0
    BY <1>3, SumFacts
  <2> QED BY <1>1, <2>1, <2>2 DEF Sums
<1>5. ASSUME NEW U \in SUBSET A, NEW x \in A, U \in T, x \notin U
      PROVE  U \cup {x} \in T
  <2> DEFINE More(V) == Part(U) \cup {s \in S : \E b \in V : s = e[x][b]}
             R == {V \in SUBSET B : t[More(V)] = t[Part(U)] + SumFunctionOnSet(row[x], V)}
  <2>0. Part(U) \in SUBSET S /\ t[Part(U)] \in Int
    BY <1>1 DEF Sums
  <2>1. {} \in R
    <3>1. More({}) = Part(U)
      OBVIOUS
    <3>2. SumFunctionOnSet(row[x], {}) = 0
      BY <1>2, SumFacts
    <3> HIDE DEF Part, More
    <3> QED BY <2>0, <3>1, <3>2
  <2>2. ASSUME NEW V \in SUBSET B, NEW b \in B, V \in R, b \notin V
        PROVE  V \cup {b} \in R
    <3>1. e[x][b] \in More(V \cup {b}) /\ More(V \cup {b}) \in SUBSET S
      BY <1>0
    <3>2. More(V \cup {b}) \ {e[x][b]} = More(V)
      <4>1. e[x][b] \notin Part(U)
        BY <1>0, <1>5
      <4>2. \A c \in V : e[x][c] # e[x][b]
        BY <1>0, <2>2
      <4>3. More(V \cup {b}) = More(V) \cup {e[x][b]}
        BY <1>0
      <4>4. e[x][b] \notin More(V)
        BY <4>1, <4>2
      <4> HIDE DEF More
      <4> QED BY <4>3, <4>4
    <3> HIDE DEF More, Part
    <3>3. t[More(V \cup {b})] = f[e[x][b]] + t[More(V \cup {b}) \ {e[x][b]}]
      BY <1>1, <3>1 DEF Sums
    <3>4. SumFunctionOnSet(row[x], V \cup {b}) = row[x][b] + SumFunctionOnSet(row[x], V)
          /\ SumFunctionOnSet(row[x], V) \in Int
      BY <1>2, <2>2, SumFacts
    <3>5. row[x][b] = f[e[x][b]] /\ row[x][b] \in Int
      BY <1>0, <1>2
    <3>6. t[More(V)] = t[Part(U)] + SumFunctionOnSet(row[x], V)
      BY <2>2
    <3>7. t[More(V \cup {b})] = f[e[x][b]] + t[More(V)]
      BY <3>2, <3>3
    <3>8. t[More(V \cup {b})] = t[Part(U)] + SumFunctionOnSet(row[x], V \cup {b})
      BY <2>0, <3>4, <3>5, <3>6, <3>7
    <3> QED BY <3>8
  <2> HIDE DEF R
  <2>3. B \in R
    BY <2>1, <2>2, SetInduction
  <2>4. More(B) = Part(U \cup {x})
    OBVIOUS
  <2> HIDE DEF Part, More
  <2>5. SumFunctionOnSet(rows, U \cup {x}) = rows[x] + SumFunctionOnSet(rows, U)
        /\ SumFunctionOnSet(rows, U) \in Int
    BY <1>3, <1>5, SumFacts
  <2>6. rows[x] = SumFunctionOnSet(row[x], B) /\ rows[x] \in Int
    BY <1>0, <1>3
  <2>7. t[Part(U \cup {x})] = t[Part(U)] + rows[x]
    BY <2>3, <2>4, <2>6 DEF R
  <2> QED BY <1>5, <2>5, <2>6, <2>7
<1> HIDE DEF T
<1>6. A \in T
  BY <1>4, <1>5, SetInduction
<1>7. Part(A) = S
  BY <1>0
<1>8. t[S] = SumFunctionOnSet(rows, A)
  BY <1>6, <1>7 DEF T
<1>9. SumFunctionOnSet(f, S) = t[S]
  BY <1>0, <1>1, SumIs
<1> QED BY <1>8, <1>9

\* Only the numbers on U count.
LEMMA SumWhere ==
    ASSUME NEW S, IsFiniteSet(S), NEW U \in SUBSET S, NEW f, NEW g,
           \A x \in S : f[x] \in Int,
           \A x \in S : g[x] = IF x \in U THEN f[x] ELSE 0
    PROVE  SumFunctionOnSet(g, S) = SumFunctionOnSet(f, U)
<1>1. PICK t : Sums(t, f, S)
  BY SumsExist
<1> DEFINE v == [V \in SUBSET S |-> t[V \cap U]]
<1>2. \A V \in SUBSET S : V \cap U \in SUBSET S /\ t[V] \in Int
  BY <1>1 DEF Sums
<1>3. v \in [SUBSET S -> Int] /\ v[{}] = 0
  <2>1. v[{}] = t[{} \cap U] /\ {} \cap U = {}
    OBVIOUS
  <2> QED BY <1>1, <1>2, <2>1 DEF Sums
<1>4. ASSUME NEW V \in SUBSET S, NEW x \in V PROVE v[V] = g[x] + v[V \ {x}]
  <2>1. v[V] = t[V \cap U] /\ v[V \ {x}] = t[(V \ {x}) \cap U] /\ t[V \cap U] \in Int
    BY <1>2
  <2> HIDE DEF v
  <2>2. CASE x \in U
    <3>1. (V \ {x}) \cap U = (V \cap U) \ {x} /\ x \in V \cap U /\ g[x] = f[x]
      BY <2>2
    <3>2. t[V \cap U] = f[x] + t[(V \cap U) \ {x}]
      BY <1>1, <1>2, <3>1 DEF Sums
    <3> QED BY <2>1, <3>1, <3>2
  <2>3. CASE x \notin U
    <3>1. (V \ {x}) \cap U = V \cap U /\ g[x] = 0
      BY <2>3
    <3>2. v[V] = v[V \ {x}] /\ v[V] \in Int
      BY <2>1, <3>1
    <3> QED BY <3>1, <3>2
  <2> QED BY <2>2, <2>3
<1> HIDE DEF v
<1>5. Sums(v, g, S)
  BY <1>3, <1>4 DEF Sums
<1>6. \A x \in S : g[x] \in Int
  OBVIOUS
<1>7. SumFunctionOnSet(g, S) = v[S] /\ SumFunctionOnSet(f, U) = t[U]
  BY <1>1, <1>5, <1>6, SumIs
<1>8. S \cap U = U
  OBVIOUS
<1> QED BY <1>7, <1>8 DEF v

\* Every number is taken c times.
LEMMA SumTimes ==
    ASSUME NEW S, IsFiniteSet(S), NEW f, NEW g, NEW c \in Int,
           \A x \in S : f[x] \in Int /\ g[x] = c * f[x]
    PROVE  SumFunctionOnSet(g, S) = c * SumFunctionOnSet(f, S)
<1>1. PICK t : Sums(t, f, S)
  BY SumsExist
<1> DEFINE v == [U \in SUBSET S |-> c * t[U]]
<1>2. Sums(v, g, S)
  <2>1. \A U \in SUBSET S : t[U] \in Int
    BY <1>1 DEF Sums
  <2>2. v \in [SUBSET S -> Int] /\ v[{}] = 0
    BY <1>1, <2>1 DEF Sums
  <2>3. ASSUME NEW U \in SUBSET S, NEW x \in U PROVE v[U] = g[x] + v[U \ {x}]
    <3>1. t[U] = f[x] + t[U \ {x}] /\ t[U \ {x}] \in Int /\ f[x] \in Int /\ g[x] = c * f[x]
      BY <1>1, <2>1 DEF Sums
    <3>2. v[U] = c * t[U] /\ v[U \ {x}] = c * t[U \ {x}]
      OBVIOUS
    <3>3. c * (f[x] + t[U \ {x}]) = c * f[x] + c * t[U \ {x}]
      BY <3>1
    <3> HIDE DEF v
    <3> QED BY <3>1, <3>2, <3>3
  <2> QED BY <2>2, <2>3 DEF Sums
<1>3. \A x \in S : g[x] \in Int
  OBVIOUS
<1>4. SumFunctionOnSet(f, S) = t[S] /\ SumFunctionOnSet(g, S) = v[S]
  <2> HIDE DEF v
  <2> QED BY <1>1, <1>2, <1>3, SumIs
<1> QED BY <1>4
-----------------------------------------------------------------------------
(* What the variables hold. *)

Docs == [value : Int, seen : [Workers -> Nat]]
Ops == [writer : Workers, key : Keys, seq : Nat]
-----------------------------------------------------------------------------
(* Types. *)

\* The partitions of validateSettings are not empty and lie within the records.
LEMMA Sizes ==
    /\ PerWorker \in Nat \ {0} /\ Batch \in Nat \ {0} /\ TotalKeys \in Nat
    /\ \A w \in Workers : First(w) \in Nat /\ Owned(w) \subseteq Keys
<1>1. PerWorker \in Int
  BY SettingsAssumption DEF PerWorker
<1>2. PerWorker \in Nat \ {0}
  BY <1>1, SettingsAssumption, ValidAssumption
<1>3. TotalKeys \in Nat
  BY <1>2, SettingsAssumption DEF TotalKeys
<1>4. ASSUME NEW w \in Workers PROVE First(w) \in Nat /\ Owned(w) \subseteq Keys
  <2>1. w \in Nat /\ w + 1 <= Concurrency /\ Concurrency \in Nat
    BY SettingsAssumption DEF Workers
  <2>2. CASE HotKeys > 0
    BY <1>2, <2>1, <2>2, SettingsAssumption DEF First, Owned, Keys, TotalKeys, PerWorker
  <2>3. CASE ~(HotKeys > 0)
    <3> DEFINE P == PerWorker
    <3>1. P \in Nat /\ w * P \in Nat /\ P * Concurrency \in Nat
      BY <1>2, <2>1
    <3>2. w * P + P = (w + 1) * P
      BY <1>2, <2>1
    <3>3. (w + 1) * P <= Concurrency * P
      BY <1>2, <2>1, SMTT(30)
    <3>4. Concurrency * P = P * Concurrency
      BY <1>2, <2>1
    <3>5. First(w) = w * P /\ TotalKeys = P * Concurrency
      BY <2>3 DEF First, TotalKeys
    <3> HIDE DEF P
    <3>6. w * P + P <= P * Concurrency
      BY <3>1, <3>2, <3>3, <3>4
    <3>7. Owned(w) = (w * P)..(w * P + P - 1) /\ Keys = 0..(P * Concurrency - 1)
      BY <3>5 DEF Owned, Keys, P
    <3> QED BY <3>1, <3>5, <3>6, <3>7
  <2> QED BY <2>2, <2>3
<1> QED BY <1>2, <1>3, <1>4, SettingsAssumption

\* A worker's next batch is among its own records.
LEMMA BatchInKeys ==
    ASSUME NEW w \in Workers, position[w] \in 0..(PerWorker - 1)
    PROVE  /\ BatchOf(w) \subseteq Keys /\ BatchOf(w) \subseteq Owned(w)
           /\ Advanced(w) \in 0..(PerWorker - 1)
<1> DEFINE P == PerWorker
<1>1. P \in Nat \ {0} /\ Batch \in Nat \ {0} /\ First(w) \in Nat /\ Owned(w) \subseteq Keys
  BY Sizes
<1>2. position[w] \in Nat
  BY <1>1
<1>3. ASSUME NEW n \in Nat PROVE n % P \in 0..(P - 1)
  <2> HIDE DEF P
  <2> QED BY <1>1
<1>4. ASSUME NEW i \in 0..(Batch - 1)
      PROVE  First(w) + ((position[w] + i) % P) \in Owned(w)
  <2>1. (position[w] + i) % P \in 0..(P - 1)
    BY <1>1, <1>2, <1>3
  <2>2. Owned(w) = First(w)..(First(w) + P - 1)
    BY DEF Owned
  <2> HIDE DEF P
  <2> QED BY <1>1, <2>1, <2>2
<1>5. BatchOf(w) \subseteq Keys /\ BatchOf(w) \subseteq Owned(w)
  BY <1>1, <1>4 DEF BatchOf
<1>6. Advanced(w) \in 0..(P - 1)
  BY <1>1, <1>2, <1>3 DEF Advanced
<1> QED BY <1>5, <1>6

\* What an operation leaves is a document.
LEMMA WrittenType ==
    ASSUME NEW doc \in Docs, NEW w \in Workers, NEW seq \in Nat
    PROVE  Written(doc, w, seq) \in Docs
BY DEF Written, Docs

\* Storing an operation keeps the records of their type.
LEMMA StoreType ==
    ASSUME record \in [Keys -> Docs], NEW op \in Ops, Store(op)
    PROVE  record' \in [Keys -> Docs]
<1>1. op.key \in Keys /\ op.writer \in Workers /\ op.seq \in Nat
  BY DEF Ops
<1>2. Written(record[op.key], op.writer, op.seq) \in Docs
  BY <1>1, WrittenType
<1> QED BY <1>1, <1>2 DEF Store

\* A call's operations are numbered from what was acknowledged.
LEMMA OperationType ==
    ASSUME counts \in [Workers -> [Keys -> Nat]], NEW w \in Workers, NEW k \in Keys
    PROVE  Operation(w, k) \in Ops
BY DEF Operation, Ops

\* What one read adds to the reconciled count is a number.
LEMMA ReadCounts ==
    ASSUME begin \in Nat, size \in Nat, TotalKeys \in Nat,
           NEW S \in SUBSET (Workers \X Reading)
    PROVE  Cardinality(S) \in Nat
<1>1. BatchEnd \in Int
  BY DEF BatchEnd, Least
<1>2. IsFiniteSet(Workers) /\ IsFiniteSet(Reading)
  BY <1>1, FS_Interval, SettingsAssumption DEF Workers, Reading
<1>3. IsFiniteSet(Workers \X Reading)
  BY <1>2, FS_Product
<1>4. IsFiniteSet(S)
  BY <1>3, FS_Subset
<1> QED BY <1>4, FS_CardinalityType

\* The workload keeps within its types whatever the settings and the store.
THEOREM TypeCorrectness == FaultySpec => []TypeOK
<1> USE DEF Docs, Ops
<1>1. Init => TypeOK
  <2>1. 0 \in 0..(PerWorker - 1) /\ 0 \in 0..TotalKeys /\ ReadSize \in Nat \ {0}
    BY Sizes, SettingsAssumption
  <2>2. SUFFICES ASSUME Init PROVE TypeOK
    OBVIOUS
  <2>3. /\ record \in [Keys -> Docs] /\ counts \in [Workers -> [Keys -> Nat]]
        /\ pending \in [Workers -> SUBSET Keys]
        /\ calling \in [Workers -> SUBSET Keys] /\ executed \in [Workers -> SUBSET Keys]
    BY <2>2 DEF Init
  <2>4. position \in [Workers -> 0..(PerWorker - 1)]
    BY <2>1, <2>2 DEF Init
  <2> QED BY <2>1, <2>2, <2>3, <2>4 DEF Init, TypeOK
<1>2. TypeOK /\ [Next \/ \E k \in Keys : Corrupt(k)]_vars => TypeOK'
  <2> SUFFICES ASSUME TypeOK, [Next \/ \E k \in Keys : Corrupt(k)]_vars PROVE TypeOK'
    OBVIOUS
  <2>t. /\ record \in [Keys -> Docs] /\ loose \subseteq Ops
        /\ counts \in [Workers -> [Keys -> Nat]]
        /\ TotalKeys \in Nat /\ begin \in Nat /\ size \in Nat \ {0} /\ reconciled \in Nat
    BY Sizes DEF TypeOK
  <2>e. BatchEnd \in 0..TotalKeys
    BY <2>t, Sizes DEF TypeOK, BatchEnd, Least
  <2>1. ASSUME NEW w \in Workers, Issue(w) PROVE TypeOK'
    <3>1. BatchOf(w) \subseteq Keys /\ Advanced(w) \in 0..(PerWorker - 1)
      BY BatchInKeys DEF TypeOK
    <3> QED BY <2>1, <3>1 DEF Issue, TypeOK, run, audit
  <2>2. ASSUME NEW w \in Workers, NEW k \in Keys, Execute(w, k) PROVE TypeOK'
    <3>1. record' \in [Keys -> Docs]
      BY <2>2, <2>t, OperationType, StoreType DEF Execute
    <3> QED BY <2>2, <3>1 DEF Execute, TypeOK, run, audit
  <2>3. ASSUME NEW op \in loose, Straggle(op) PROVE TypeOK'
    <3>1. record' \in [Keys -> Docs]
      BY <2>3, <2>t, StoreType DEF Straggle
    <3> QED BY <2>3, <3>1 DEF Straggle, TypeOK, load, run, audit
  <2>4. ASSUME NEW w \in Workers, LoseAnswer(w) PROVE TypeOK'
    <3>1. loose' \subseteq Ops
      BY <2>4, <2>t, OperationType DEF LoseAnswer, TypeOK
    <3> QED BY <2>4, <3>1 DEF LoseAnswer, TypeOK, run, audit
  <2>5. ASSUME NEW w \in Workers, Answer(w) PROVE TypeOK'
    <3>1. calling[w] \subseteq Keys /\ executed[w] \subseteq Keys
      BY DEF TypeOK
    <3>2. loose' \subseteq Ops
      BY <2>5, <2>t, <3>1, OperationType DEF Answer
    <3>3. counts' \in [Workers -> [Keys -> Nat]]
      BY <2>5, <2>t DEF Answer
    <3>4. pending' \in [Workers -> SUBSET Keys]
      BY <2>5, <3>1 DEF Answer, TypeOK, Settled
    <3>5. /\ calling' = [calling EXCEPT ![w] = {}] /\ executed' = [executed EXCEPT ![w] = {}]
          /\ UNCHANGED <<record, position, run, audit>>
      BY <2>5 DEF Answer
    <3> QED BY <3>2, <3>3, <3>4, <3>5 DEF TypeOK, run, audit
  <2>6. ASSUME NEW k \in Keys, Corrupt(k) PROVE TypeOK'
    <3>1. record' \in [Keys -> Docs]
      <4>1. record[k] \in Docs
        BY <2>t
      <4>2. CASE \E n \in {record[k].value - 1, record[k].value + 1} :
                   record' = [record EXCEPT ![k].value = n]
        <5>0. record[k].value - 1 \in Int /\ record[k].value + 1 \in Int
          BY <4>1
        <5>1. PICK n \in Int : record' = [record EXCEPT ![k].value = n]
          BY <4>2, <5>0
        <5>2. [record[k] EXCEPT !.value = n] \in Docs
          BY <4>1, <5>1
        <5> QED BY <2>t, <5>1, <5>2
      <4>3. ASSUME NEW w \in Workers, NEW n \in 0..record[k].seen[w],
                   record' = [record EXCEPT ![k].seen[w] = n]
            PROVE  record' \in [Keys -> Docs]
        <5>1. [record[k].seen EXCEPT ![w] = n] \in [Workers -> Nat]
          BY <4>1
        <5>2. [record[k] EXCEPT !.seen[w] = n] \in Docs
          BY <4>1, <5>1
        <5> QED BY <2>t, <4>3, <5>2
      <4> QED BY <2>6, <4>2, <4>3 DEF Corrupt
    <3> QED BY <2>6, <3>1 DEF Corrupt, TypeOK, load, run, audit
  <2>7. ASSUME NEW w \in Workers, Browse(w) PROVE TypeOK'
    <3>1. Advanced(w) \in 0..(PerWorker - 1)
      BY BatchInKeys DEF TypeOK
    <3> QED BY <2>7, <3>1 DEF Browse, TypeOK, run, audit
  <2>14. ASSUME NEW w \in Workers, Leave(w) PROVE TypeOK'
    BY <2>14 DEF Leave, TypeOK, load, run, audit
  <2>8. CASE Reconcile
    BY <2>8 DEF Reconcile, TypeOK, load, run
  <2>9. CASE Verify /\ ReadLess
    <3>1. size' \in Nat \ {0}
      BY <2>9, <2>t, <2>e DEF ReadLess
    <3> QED BY <2>9, <3>1 DEF Verify, ReadLess, TypeOK, load, run
  <2>10. CASE Verify /\ ReadFails
    BY <2>10 DEF Verify, ReadFails, TypeOK, load, run
  <2>11. CASE Verify /\ ReadBatch
    <3>1. Cardinality({wk \in Workers \X Reading :
                         wk[1] \in Owners(wk[2]) /\ Recovered(wk[1], wk[2])}) \in Nat
      <4> DEFINE S == {wk \in Workers \X Reading :
                          wk[1] \in Owners(wk[2]) /\ Recovered(wk[1], wk[2])}
      <4>1. S \in SUBSET (Workers \X Reading)
        OBVIOUS
      <4> HIDE DEF S
      <4>2. Cardinality(S) \in Nat
        BY <2>t, <4>1, ReadCounts
      <4> QED BY <4>2 DEF S
    <3>2. reconciled' \in Nat
      BY <2>11, <2>t, <3>1 DEF ReadBatch
    <3>3. begin' \in 0..TotalKeys
      BY <2>11, <2>e DEF ReadBatch
    <3>4. phase' \in {"verified", phase} /\ UNCHANGED <<record, load, run, size>>
      BY <2>11 DEF Verify, ReadBatch
    <3> QED BY <3>2, <3>3, <3>4 DEF TypeOK, load, run
  <2>12. ASSUME NEW k \in Keys, Verify, Disagree(k) PROVE TypeOK'
    BY <2>12 DEF Verify, Disagree, TypeOK, load, run
  <2>13. CASE UNCHANGED vars
    BY <2>13 DEF TypeOK, vars, load, run, audit
  <2> QED
    BY <2>1, <2>2, <2>3, <2>4, <2>5, <2>6, <2>7, <2>8, <2>9, <2>10, <2>11, <2>12, <2>13, <2>14
       DEF Next, Verify
<1> QED BY <1>1, <1>2, PTL DEF FaultySpec
-----------------------------------------------------------------------------
(* Bookkeeping that does not depend on what the store does: workers keep to *)
(* their records, and what may still take effect is known to be open.       *)

Seen(w, k) == record[k].seen[w]

OwnersOnly ==
    /\ \A w \in Workers : calling[w] \subseteq Owned(w) /\ pending[w] \subseteq Owned(w)
                          /\ executed[w] \subseteq calling[w]
    /\ \A op \in loose : op.key \in Owned(op.writer)
    /\ \A w \in Workers, k \in Keys : k \notin Owned(w) => counts[w][k] = 0 /\ Seen(w, k) = 0

LooseIsPending ==
    \A op \in loose :
        /\ op.seq <= counts[op.writer][op.key] + 1
        /\ op.seq = counts[op.writer][op.key] + 1 => op.key \in pending[op.writer]

QuietAfterLoad ==
    /\ \A w \in left : calling[w] = {}
    /\ phase # "load" => left = Workers

Booked == TypeOK /\ OwnersOnly /\ LooseIsPending /\ QuietAfterLoad

\* Storing an operation changes the sequence of its writer in its record, and
\* an upsert those of the others, which are not theirs.
LEMMA StoreSeen ==
    ASSUME TypeOK, NEW op \in Ops, Store(op), NEW w \in Workers, NEW k \in Keys
    PROVE  \/ Seen(w, k)' = Seen(w, k)
           \/ k = op.key /\ w = op.writer /\ Seen(w, k)' = op.seq
           \/ k = op.key /\ w # op.writer /\ Seen(w, k)' = 0
<1>1. op.key \in Keys /\ op.writer \in Workers /\ op.seq \in Nat
  BY DEF Ops
<1>2. record \in [Keys -> Docs]
  BY DEF TypeOK, Docs
<1>3. record'[k] = IF k = op.key THEN Written(record[k], op.writer, op.seq) ELSE record[k]
  BY <1>1, <1>2 DEF Store
<1>4. record[k].seen \in [Workers -> Nat]
  BY <1>2 DEF Docs
<1>5. CASE k # op.key
  BY <1>3, <1>5 DEF Seen
<1>6. CASE k = op.key
  <2>1. \/ record'[k].seen = [v \in Workers |-> IF v = op.writer THEN op.seq ELSE 0]
        \/ record'[k].seen = record[k].seen
        \/ record'[k].seen = [record[k].seen EXCEPT ![op.writer] = op.seq]
    BY <1>3, <1>6 DEF Written
  <2> QED BY <1>1, <1>4, <1>6, <2>1 DEF Seen
<1> QED BY <1>5, <1>6

\* Damage does not make a writer appear in a record it never wrote.
LEMMA CorruptSeen ==
    ASSUME TypeOK, NEW j \in Keys, Corrupt(j), NEW w \in Workers, NEW k \in Keys,
           Seen(w, k) = 0
    PROVE  Seen(w, k)' = 0
<1>1. record \in [Keys -> Docs] /\ record[j].seen \in [Workers -> Nat]
  BY DEF TypeOK, Docs
<1>2. CASE \E n \in {record[j].value - 1, record[j].value + 1} :
             record' = [record EXCEPT ![j].value = n]
  BY <1>1, <1>2 DEF Seen, Docs
<1>3. ASSUME NEW v \in Workers, NEW n \in 0..record[j].seen[v],
             record' = [record EXCEPT ![j].seen[v] = n]
      PROVE  Seen(w, k)' = 0
  <2>1. CASE k = j /\ v = w
    <3>1. n = 0
      BY <2>1 DEF Seen
    <3>2. record'[k].seen = [record[k].seen EXCEPT ![w] = n]
      BY <1>1, <1>3, <2>1
    <3> QED BY <1>1, <2>1, <3>1, <3>2 DEF Seen
  <2>2. CASE ~(k = j /\ v = w)
    <3>1. record'[k].seen = IF k = j THEN [record[k].seen EXCEPT ![v] = n] ELSE record[k].seen
      BY <1>1, <1>3
    <3> QED BY <1>1, <2>2, <3>1 DEF Seen
  <2> QED BY <2>1, <2>2
<1> QED BY <1>2, <1>3 DEF Corrupt

\* A call that ends without an answer leaves its operations open.
LEMMA LoseAnswerBooks ==
    ASSUME Booked, NEW w \in Workers, LoseAnswer(w)
    PROVE  OwnersOnly' /\ LooseIsPending' /\ QuietAfterLoad'
<1>1. /\ pending' = [pending EXCEPT ![w] = @ \cup calling[w]]
      /\ loose' = loose \cup {Operation(w, k) : k \in calling[w]}
      /\ calling' = [calling EXCEPT ![w] = {}] /\ executed' = [executed EXCEPT ![w] = {}]
      /\ UNCHANGED <<record, counts, left, phase>> /\ calling[w] # {}
  BY DEF LoseAnswer, run, audit
<1>2. /\ pending \in [Workers -> SUBSET Keys] /\ calling \in [Workers -> SUBSET Keys]
      /\ executed \in [Workers -> SUBSET Keys] /\ loose \subseteq Ops
      /\ counts \in [Workers -> [Keys -> Nat]]
  BY DEF Booked, TypeOK, Ops
<1>3. OwnersOnly /\ LooseIsPending /\ QuietAfterLoad
  BY DEF Booked
<1>4. ASSUME NEW k \in calling[w]
      PROVE  /\ Operation(w, k).writer = w /\ Operation(w, k).key = k /\ k \in Keys
             /\ Operation(w, k).seq = counts[w][k] + 1 /\ counts[w][k] \in Nat
  BY <1>2 DEF Operation
<1>5. OwnersOnly'
  <2>1. \A v \in Workers : /\ calling'[v] \subseteq Owned(v) /\ pending'[v] \subseteq Owned(v)
                           /\ executed'[v] \subseteq calling'[v]
    BY <1>1, <1>2, <1>3 DEF OwnersOnly
  <2>2. \A op \in loose' : op.key \in Owned(op.writer)
    BY <1>1, <1>3, <1>4 DEF OwnersOnly
  <2> QED BY <1>1, <1>3, <2>1, <2>2 DEF OwnersOnly, Seen
<1>6. LooseIsPending'
  <2> SUFFICES ASSUME NEW op \in loose'
               PROVE  /\ op.seq <= counts[op.writer][op.key] + 1
                      /\ op.seq = counts[op.writer][op.key] + 1 => op.key \in pending'[op.writer]
    BY <1>1 DEF LooseIsPending
  <2>1. CASE op \in loose
    <3>1. op.writer \in Workers
      BY <1>2, <2>1 DEF Ops
    <3> QED BY <1>1, <1>2, <1>3, <2>1, <3>1 DEF LooseIsPending
  <2>2. ASSUME NEW k \in calling[w], op = Operation(w, k)
        PROVE  /\ op.seq <= counts[op.writer][op.key] + 1
               /\ op.key \in pending'[op.writer]
    BY <1>1, <1>2, <1>4, <2>2
  <2> QED BY <1>1, <2>1, <2>2
<1>7. QuietAfterLoad'
  BY <1>1, <1>2, <1>3 DEF QuietAfterLoad
<1> QED BY <1>5, <1>6, <1>7

\* What an answer does to the books of worker w.
Books(w, applied, unknown) ==
    /\ applied \subseteq executed[w] /\ unknown \subseteq calling[w]
    /\ executed[w] \ applied \subseteq unknown /\ unknown \cap applied = {}
    /\ \A v \in Workers, k \in Keys : counts'[v][k] =
          IF v = w /\ k \in applied THEN counts[v][k] + 1 ELSE counts[v][k]
    /\ \A v \in Workers : pending'[v] =
          IF v = w THEN (pending[w] \cup unknown) \ applied ELSE pending[v]
    /\ loose' = loose \cup {Operation(w, k) : k \in unknown}

\* An answer settles every operation of its call one way or another.
LEMMA AnswerEffect ==
    ASSUME Booked, NEW w \in Workers, Answer(w)
    PROVE  \E applied, unknown \in SUBSET Keys : Books(w, applied, unknown)
<1>1. PICK applied \in SUBSET executed[w] :
        \E refused \in SUBSET (calling[w] \ executed[w]) :
          LET unknown == calling[w] \ (applied \cup refused) IN
          /\ counts' = [counts EXCEPT ![w] =
                [k \in Keys |-> IF k \in applied THEN @[k] + 1 ELSE @[k]]]
          /\ pending' = [pending EXCEPT ![w] = (@ \cup unknown) \ applied]
          /\ loose' = loose \cup {Operation(w, k) : k \in unknown}
  BY DEF Answer, Settled
<1>2. PICK refused \in SUBSET (calling[w] \ executed[w]) :
          LET unknown == calling[w] \ (applied \cup refused) IN
          /\ counts' = [counts EXCEPT ![w] =
                [k \in Keys |-> IF k \in applied THEN @[k] + 1 ELSE @[k]]]
          /\ pending' = [pending EXCEPT ![w] = (@ \cup unknown) \ applied]
          /\ loose' = loose \cup {Operation(w, k) : k \in unknown}
  BY <1>1
<1> DEFINE unknown == calling[w] \ (applied \cup refused)
<1>3. /\ pending \in [Workers -> SUBSET Keys] /\ counts \in [Workers -> [Keys -> Nat]]
      /\ calling[w] \subseteq Keys /\ executed[w] \subseteq calling[w]
  BY DEF Booked, TypeOK, OwnersOnly
<1>4. applied \in SUBSET Keys /\ unknown \in SUBSET Keys /\ unknown \subseteq calling[w]
      /\ executed[w] \ applied \subseteq unknown /\ unknown \cap applied = {}
  BY <1>3
<1>5. \A v \in Workers, k \in Keys :
          counts'[v][k] = IF v = w /\ k \in applied THEN counts[v][k] + 1 ELSE counts[v][k]
  BY <1>2, <1>3
<1>6. \A v \in Workers :
          pending'[v] = IF v = w THEN (pending[w] \cup unknown) \ applied ELSE pending[v]
  BY <1>2, <1>3
<1>7. loose' = loose \cup {Operation(w, k) : k \in unknown}
  BY <1>2
<1> HIDE DEF unknown
<1>8. Books(w, applied, unknown)
  BY <1>4, <1>5, <1>6, <1>7 DEF Books
<1> QED BY <1>4, <1>8

\* What an answer leaves open stays open to the worker.
LEMMA AnswerBooks ==
    ASSUME Booked, NEW w \in Workers, Answer(w)
    PROVE  OwnersOnly' /\ LooseIsPending' /\ QuietAfterLoad'
<1>0. PICK applied, unknown \in SUBSET Keys : Books(w, applied, unknown)
  BY AnswerEffect
<1>1. /\ applied \subseteq executed[w] /\ unknown \subseteq calling[w]
      /\ executed[w] \ applied \subseteq unknown /\ unknown \cap applied = {}
      /\ \A v \in Workers, k \in Keys : counts'[v][k] =
            IF v = w /\ k \in applied THEN counts[v][k] + 1 ELSE counts[v][k]
      /\ \A v \in Workers : pending'[v] =
            IF v = w THEN (pending[w] \cup unknown) \ applied ELSE pending[v]
      /\ loose' = loose \cup {Operation(w, k) : k \in unknown}
  BY <1>0 DEF Books
<1>2. /\ calling' = [calling EXCEPT ![w] = {}] /\ executed' = [executed EXCEPT ![w] = {}]
      /\ UNCHANGED <<record, left, phase>> /\ calling[w] # {}
  BY DEF Answer, run, audit
<1>3. /\ calling \in [Workers -> SUBSET Keys] /\ executed \in [Workers -> SUBSET Keys]
      /\ loose \subseteq Ops /\ \A v \in Workers, k \in Keys : counts[v][k] \in Nat
  BY DEF Booked, TypeOK, Ops
<1>4. OwnersOnly /\ LooseIsPending /\ QuietAfterLoad
  BY DEF Booked
<1>5. \A k \in unknown : /\ Operation(w, k).writer = w /\ Operation(w, k).key = k
                         /\ Operation(w, k).seq = counts[w][k] + 1
  BY DEF Operation
<1>6. applied \subseteq Owned(w) /\ unknown \subseteq Owned(w)
  BY <1>1, <1>4 DEF OwnersOnly
<1>7. OwnersOnly'
  <2>1. \A v \in Workers : /\ calling'[v] \subseteq Owned(v) /\ executed'[v] \subseteq calling'[v]
    BY <1>2, <1>3, <1>4 DEF OwnersOnly
  <2>2. \A v \in Workers : pending'[v] \subseteq Owned(v)
    BY <1>1, <1>4, <1>6 DEF OwnersOnly
  <2>3. \A op \in loose' : op.key \in Owned(op.writer)
    BY <1>1, <1>4, <1>5, <1>6 DEF OwnersOnly
  <2>4. \A v \in Workers, k \in Keys : k \notin Owned(v) => counts'[v][k] = 0 /\ Seen(v, k)' = 0
    BY <1>1, <1>2, <1>4, <1>6 DEF OwnersOnly, Seen
  <2> QED BY <2>1, <2>2, <2>3, <2>4 DEF OwnersOnly
<1>8. LooseIsPending'
  <2> SUFFICES ASSUME NEW op \in loose'
               PROVE  /\ op.seq <= counts'[op.writer][op.key] + 1
                      /\ op.seq = counts'[op.writer][op.key] + 1 => op.key \in pending'[op.writer]
    BY DEF LooseIsPending
  <2>1. CASE op \in loose
    <3>1. op.writer \in Workers /\ op.key \in Keys /\ op.seq \in Nat
          /\ counts[op.writer][op.key] \in Nat
      BY <1>3, <2>1 DEF Ops
    <3>2. /\ op.seq <= counts[op.writer][op.key] + 1
          /\ op.seq = counts[op.writer][op.key] + 1 => op.key \in pending[op.writer]
      BY <1>4, <2>1 DEF LooseIsPending
    <3>3. CASE op.writer = w /\ op.key \in applied
      BY <1>1, <3>1, <3>2, <3>3
    <3>4. CASE ~(op.writer = w /\ op.key \in applied)
      BY <1>1, <3>1, <3>2, <3>4
    <3> QED BY <3>3, <3>4
  <2>2. ASSUME NEW k \in unknown, op = Operation(w, k)
        PROVE  /\ op.seq <= counts'[op.writer][op.key] + 1
               /\ op.key \in pending'[op.writer]
    <3>1. op.writer = w /\ op.key = k /\ op.seq = counts[w][k] + 1 /\ counts[w][k] \in Nat
      BY <1>3, <1>5, <2>2
    <3>2. counts'[w][k] = counts[w][k] /\ k \in pending'[w]
      BY <1>1
    <3> QED BY <3>1, <3>2
  <2> QED BY <1>1, <2>1, <2>2
<1>9. QuietAfterLoad'
  BY <1>2, <1>3, <1>4 DEF QuietAfterLoad
<1> QED BY <1>7, <1>8, <1>9

\* The books, whatever the store does.
LEMMA Bookkeeping == FaultySpec => []Booked
<1>1. Init => OwnersOnly /\ LooseIsPending /\ QuietAfterLoad
  <2> SUFFICES ASSUME Init PROVE OwnersOnly /\ LooseIsPending /\ QuietAfterLoad
    OBVIOUS
  <2>1. \A w \in Workers, k \in Keys : Seen(w, k) = 0 /\ counts[w][k] = 0
    BY DEF Init, Seen
  <2> QED BY <2>1 DEF Init, OwnersOnly, LooseIsPending, QuietAfterLoad
<1>2. Booked /\ [Next \/ \E k \in Keys : Corrupt(k)]_vars
         => OwnersOnly' /\ LooseIsPending' /\ QuietAfterLoad'
  <2> DEFINE Goal == OwnersOnly' /\ LooseIsPending' /\ QuietAfterLoad'
  <2> SUFFICES ASSUME Booked, [Next \/ \E k \in Keys : Corrupt(k)]_vars PROVE Goal
    OBVIOUS
  <2>c. TypeOK /\ OwnersOnly /\ LooseIsPending /\ QuietAfterLoad
    BY DEF Booked
  <2>t. /\ executed \in [Workers -> SUBSET Keys] /\ calling \in [Workers -> SUBSET Keys]
        /\ loose \subseteq Ops /\ counts \in [Workers -> [Keys -> Nat]] /\ left \subseteq Workers
    BY <2>c DEF TypeOK, Ops
  <2>0. ASSUME UNCHANGED <<counts, pending, loose>>,
               \A w \in Workers : calling'[w] \subseteq Owned(w) /\ executed'[w] \subseteq calling'[w],
               \A w \in Workers, k \in Keys : k \notin Owned(w) => Seen(w, k)' = 0
        PROVE  OwnersOnly' /\ LooseIsPending'
    BY <2>c, <2>0 DEF OwnersOnly, LooseIsPending
  <2>s. ASSUME UNCHANGED <<record, counts, pending, loose, calling, executed>>
        PROVE  OwnersOnly' /\ LooseIsPending'
    BY <2>c, <2>s DEF OwnersOnly, LooseIsPending, Seen
  <2>1. ASSUME NEW w \in Workers, Issue(w) PROVE Goal
    <3>1. calling[w] = {} /\ executed[w] = {} /\ w \notin left /\ phase = "load"
      BY <2>1, <2>c DEF Issue, OwnersOnly, QuietAfterLoad
    <3>2. calling' = [calling EXCEPT ![w] = BatchOf(w)]
          /\ UNCHANGED <<record, counts, pending, executed, loose, left, phase>>
      BY <2>1 DEF Issue, run, audit
    <3>3. BatchOf(w) \subseteq Owned(w)
      BY <2>c, BatchInKeys DEF TypeOK
    <3>4. \A v \in Workers : calling'[v] \subseteq Owned(v) /\ executed'[v] \subseteq calling'[v]
      BY <2>c, <2>t, <3>1, <3>2, <3>3 DEF OwnersOnly
    <3>5. \A v \in Workers, k \in Keys : k \notin Owned(v) => Seen(v, k)' = 0
      BY <2>c, <3>2 DEF OwnersOnly, Seen
    <3>6. QuietAfterLoad'
      BY <2>c, <2>t, <3>1, <3>2 DEF QuietAfterLoad
    <3> QED BY <2>0, <3>2, <3>4, <3>5, <3>6
  <2>2. ASSUME NEW w \in Workers, NEW k \in Keys, Execute(w, k) PROVE Goal
    <3>1. /\ Operation(w, k) \in Ops /\ Operation(w, k).writer = w /\ Operation(w, k).key = k
      BY <2>t, OperationType DEF Operation
    <3>2. /\ Store(Operation(w, k)) /\ k \in calling[w]
          /\ executed' = [executed EXCEPT ![w] = @ \cup {k}]
          /\ UNCHANGED <<counts, pending, calling, loose, left, phase>>
      BY <2>2 DEF Execute, run, audit
    <3>3. \A v \in Workers : calling'[v] \subseteq Owned(v) /\ executed'[v] \subseteq calling'[v]
      BY <2>c, <2>t, <3>2 DEF OwnersOnly
    <3>4. \A v \in Workers, j \in Keys : j \notin Owned(v) => Seen(v, j)' = 0
      BY <2>c, <3>1, <3>2, StoreSeen DEF OwnersOnly
    <3>5. QuietAfterLoad'
      BY <2>c, <3>2 DEF QuietAfterLoad
    <3> QED BY <2>0, <3>2, <3>3, <3>4, <3>5
  <2>3. ASSUME NEW op \in loose, Straggle(op) PROVE Goal
    <3>1. op \in Ops /\ Store(op) /\ op.key \in Owned(op.writer)
      BY <2>3, <2>c, <2>t DEF Straggle, OwnersOnly
    <3>2. UNCHANGED <<counts, pending, calling, executed, loose, left, phase>>
      BY <2>3 DEF Straggle, load, run, audit
    <3>3. \A v \in Workers, j \in Keys : j \notin Owned(v) => Seen(v, j)' = 0
      BY <2>c, <3>1, StoreSeen DEF OwnersOnly
    <3>4. \A v \in Workers : calling'[v] \subseteq Owned(v) /\ executed'[v] \subseteq calling'[v]
      BY <2>c, <3>2 DEF OwnersOnly
    <3>5. QuietAfterLoad'
      BY <2>c, <3>2 DEF QuietAfterLoad
    <3> QED BY <2>0, <3>2, <3>3, <3>4, <3>5
  <2>4. ASSUME NEW w \in Workers, LoseAnswer(w) PROVE Goal
    BY <2>4, LoseAnswerBooks
  <2>5. ASSUME NEW w \in Workers, Answer(w) PROVE Goal
    BY <2>5, AnswerBooks
  <2>6. ASSUME NEW k \in Keys, Corrupt(k) PROVE Goal
    <3>1. UNCHANGED <<counts, pending, calling, executed, loose, left, phase>>
      BY <2>6 DEF Corrupt, load, run, audit
    <3>2. \A v \in Workers, j \in Keys : j \notin Owned(v) => Seen(v, j)' = 0
      BY <2>6, <2>c, CorruptSeen DEF OwnersOnly
    <3>3. \A v \in Workers : calling'[v] \subseteq Owned(v) /\ executed'[v] \subseteq calling'[v]
      BY <2>c, <3>1 DEF OwnersOnly
    <3>4. QuietAfterLoad'
      BY <2>c, <3>1 DEF QuietAfterLoad
    <3> QED BY <2>0, <3>1, <3>2, <3>3, <3>4
  <2>7. ASSUME NEW w \in Workers, Browse(w) PROVE Goal
    BY <2>s, <2>7, <2>c DEF Browse, run, audit, QuietAfterLoad
  <2>8. ASSUME NEW w \in Workers, Leave(w) PROVE Goal
    <3>1. left' = left \cup {w} /\ phase' = phase /\ calling[w] = {}
          /\ UNCHANGED <<record, counts, pending, loose, calling, executed>>
      BY <2>8 DEF Leave, audit, load
    <3> QED BY <2>s, <2>c, <2>t, <3>1 DEF QuietAfterLoad
  <2>9. CASE Reconcile
    BY <2>s, <2>9, <2>c DEF Reconcile, load, run, QuietAfterLoad
  <2>10. CASE Verify
    BY <2>s, <2>10, <2>c DEF Verify, load, run, QuietAfterLoad
  <2>11. CASE UNCHANGED vars
    BY <2>s, <2>11, <2>c DEF vars, load, run, audit, QuietAfterLoad
  <2> QED
    BY <2>1, <2>2, <2>3, <2>4, <2>5, <2>6, <2>7, <2>8, <2>9, <2>10, <2>11 DEF Next
<1>3. Init /\ TypeOK => Booked
  BY <1>1 DEF Booked
<1>4. Booked /\ [Next \/ \E k \in Keys : Corrupt(k)]_vars /\ TypeOK' => Booked'
  BY <1>2 DEF Booked
<1> QED BY <1>3, <1>4, TypeCorrectness, PTL DEF FaultySpec
-----------------------------------------------------------------------------
(* Every write counts once: an inductive invariant that also says where a   *)
(* write whose outcome is unknown may still be.                             *)

Bracketed == \A w \in Workers, k \in Keys : Seen(w, k) \in counts[w][k]..(counts[w][k] + 1)

AheadIsKnown ==
    \A w \in Workers, k \in Keys :
        Seen(w, k) = counts[w][k] + 1 => k \in pending[w] \cup executed[w]

ExecutedIsAhead == \A w \in Workers : \A k \in executed[w] : Seen(w, k) = counts[w][k] + 1

AddsUp == \A k \in Keys : record[k].value = SumFunctionOnSet(record[k].seen, Owners(k))

Counted ==
    /\ Bracketed /\ AheadIsKnown /\ ExecutedIsAhead /\ AddsUp
    /\ phase \notin {"wrong_sequence", "wrong_value"}

IInv == Booked /\ Counted

\* Late effects are harmless to merges only: a late upsert brings back an old
\* document, whatever was acknowledged since.
OnlyMergesLate == LateEffects => "upsert" \notin Workloads

\* A record has finitely many owners.
LEMMA FiniteOwners ==
    ASSUME NEW k \in Keys
    PROVE  Owners(k) \subseteq Workers /\ IsFiniteSet(Owners(k)) /\ IsFiniteSet(Workers)
<1>1. IsFiniteSet(Workers)
  BY FS_Interval, SettingsAssumption DEF Workers
<1> QED BY <1>1, FS_Subset DEF Owners

\* Without hot records the partitions do not overlap.
LEMMA Alone ==
    ASSUME HotKeys = 0, NEW v \in Workers, NEW w \in Workers, NEW k \in Keys,
           k \in Owned(v), k \in Owned(w)
    PROVE  v = w
<1> DEFINE P == PerWorker
<1>1. P \in Nat \ {0} /\ v \in Nat /\ w \in Nat
  BY Sizes, SettingsAssumption DEF Workers
<1>2. k \in (v * P)..(v * P + P - 1) /\ k \in (w * P)..(w * P + P - 1)
  BY DEF Owned, First
<1> HIDE DEF P
<1>3. ASSUME NEW m \in Nat, NEW n \in Nat, m < n PROVE m * P + P <= n * P
  <2>1. m * P + P = (m + 1) * P
    BY <1>1
  <2>2. (m + 1) * P <= n * P
    BY <1>1, <1>3, SMTT(30)
  <2> QED BY <2>1, <2>2
<1>4. v * P \in Int /\ w * P \in Int
  BY <1>1
<1>5. ~(v * P + P <= w * P) /\ ~(w * P + P <= v * P)
  BY <1>1, <1>2, <1>4
<1> QED BY <1>1, <1>3, <1>5

\* The value of a record with one owner is that owner's sequence.
LEMMA OneOwner ==
    ASSUME TypeOK, AddsUp, HotKeys = 0, NEW w \in Workers, NEW k \in Keys, k \in Owned(w)
    PROVE  record[k].value = Seen(w, k)
<1>1. Owners(k) = {w}
  BY Alone DEF Owners
<1>2. record[k].seen[w] \in Int
  BY DEF TypeOK
<1>3. IsFiniteSet({w})
  BY FS_Singleton
<1>4. SumFunctionOnSet(record[k].seen, {w}) =
        record[k].seen[w] + SumFunctionOnSet(record[k].seen, {w} \ {w})
      /\ SumFunctionOnSet(record[k].seen, {}) = 0
  BY <1>2, <1>3, SumFacts
<1>5. {w} \ {w} = {}
  OBVIOUS
<1>6. record[k].value = SumFunctionOnSet(record[k].seen, {w})
  BY <1>1 DEF AddsUp
<1>7. SumFunctionOnSet(record[k].seen, {w}) = record[k].seen[w]
  <2> DEFINE f == record[k].seen
  <2>1. SumFunctionOnSet(f, {w}) = f[w] + 0 /\ f[w] \in Int
    BY <1>2, <1>4, <1>5
  <2> HIDE DEF f
  <2>2. SumFunctionOnSet(f, {w}) = f[w]
    BY <2>1
  <2> QED BY <2>2 DEF f
<1> QED BY <1>6, <1>7 DEF Seen

\* A merge either changes nothing or is the writer's next one, and so does an
\* upsert of the writer's next sequence.
LEMMA StoreCounts ==
    ASSUME TypeOK, NEW op \in Ops, Store(op),
           Seen(op.writer, op.key) \in
               counts[op.writer][op.key]..(counts[op.writer][op.key] + 1),
           op.seq <= counts[op.writer][op.key] + 1,
           workload = "upsert" =>
               /\ OwnersOnly /\ AddsUp /\ op.key \in Owned(op.writer)
               /\ op.seq = counts[op.writer][op.key] + 1
    PROVE  \/ record' = record /\ Seen(op.writer, op.key) >= op.seq
           \/ /\ op.seq = counts[op.writer][op.key] + 1
              /\ Seen(op.writer, op.key) = counts[op.writer][op.key]
              /\ record' = [record EXCEPT ![op.key] =
                    [value |-> record[op.key].value + 1,
                     seen |-> [record[op.key].seen EXCEPT ![op.writer] = op.seq]]]
<1> DEFINE w == op.writer
           k == op.key
           doc == record[k]
           next == [value |-> doc.value + 1, seen |-> [doc.seen EXCEPT ![w] = op.seq]]
<1>1. k \in Keys /\ w \in Workers /\ op.seq \in Nat
  BY DEF Ops
<1>2. record \in [Keys -> Docs] /\ doc \in Docs /\ counts[w][k] \in Nat /\ Seen(w, k) \in Nat
  BY <1>1 DEF TypeOK, Docs, Seen
<1>3. record' = [record EXCEPT ![k] = Written(doc, w, op.seq)]
  BY DEF Store
<1>4. \/ Written(doc, w, op.seq) = doc /\ Seen(w, k) >= op.seq
      \/ /\ Written(doc, w, op.seq) = next
         /\ op.seq = counts[w][k] + 1 /\ Seen(w, k) = counts[w][k]
  <2>1. CASE workload # "upsert"
    <3>1. CASE op.seq <= Seen(w, k)
      BY <1>1, <1>2, <2>1, <3>1 DEF Written, Seen
    <3>2. CASE ~(op.seq <= Seen(w, k))
      BY <1>1, <1>2, <2>1, <3>2 DEF Written, Seen
    <3> QED BY <3>1, <3>2
  <2>2. CASE workload = "upsert"
    <3>1. HotKeys = 0
      BY <2>2, SettingsAssumption, ValidAssumption DEF TypeOK
    <3>2. k \in Owned(w) /\ OwnersOnly /\ AddsUp /\ op.seq = counts[w][k] + 1
      BY <2>2
    <3>3. doc.value = Seen(w, k)
      BY <1>1, <3>1, <3>2, OneOwner
    <3>4. \A v \in Workers : v # w => doc.seen[v] = 0
      BY <1>1, <3>1, <3>2, Alone DEF OwnersOnly, Seen
    <3> DEFINE only == [v \in Workers |-> IF v = w THEN op.seq ELSE 0]
    <3>5. Written(doc, w, op.seq) = [value |-> op.seq, seen |-> only]
      BY <2>2 DEF Written
    <3>6. doc.seen \in [Workers -> Nat] /\ doc.value \in Int
          /\ doc = [value |-> doc.value, seen |-> doc.seen]
      BY <1>2 DEF Docs
    <3>7. CASE Seen(w, k) = op.seq
      <4>1. doc.seen[w] = op.seq
        BY <3>7 DEF Seen
      <4> HIDE DEF doc, k, w
      <4>2. doc.seen = only
        BY <3>4, <3>6, <4>1
      <4> QED BY <1>1, <3>3, <3>5, <3>6, <3>7, <4>2
    <3>8. CASE Seen(w, k) # op.seq
      <4>1. Seen(w, k) = counts[w][k]
        BY <1>2, <3>2, <3>8
      <4> HIDE DEF doc, k, w
      <4>2. [doc.seen EXCEPT ![w] = op.seq] = only
        BY <1>1, <3>4, <3>6
      <4>3. doc.value + 1 = op.seq
        BY <3>2, <3>3, <4>1
      <4> QED BY <3>2, <3>5, <4>1, <4>2, <4>3
    <3> QED BY <3>7, <3>8
  <2> QED BY <2>1, <2>2
<1>5. [record EXCEPT ![k] = doc] = record
  BY <1>1, <1>2
<1> HIDE DEF next
<1>6. QED
  BY <1>3, <1>4, <1>5 DEF next

\* One more in a writer's sequence is one more in its record's value.
LEMMA StoreAddsUp ==
    ASSUME TypeOK, AddsUp, NEW w \in Workers, NEW k \in Keys, k \in Owned(w),
           record' = [record EXCEPT ![k] =
               [value |-> record[k].value + 1,
                seen |-> [record[k].seen EXCEPT ![w] = record[k].seen[w] + 1]]]
    PROVE  AddsUp'
<1> SUFFICES ASSUME NEW j \in Keys
             PROVE  record'[j].value = SumFunctionOnSet(record'[j].seen, Owners(j))
  BY DEF AddsUp, Owners, Owned, First, PerWorker, Workers
<1>1. record \in [Keys -> Docs]
  BY DEF TypeOK, Docs
<1>2. CASE j # k
  BY <1>1, <1>2 DEF AddsUp
<1>3. CASE j = k
  <2>1. /\ record'[k].value = record[k].value + 1
        /\ record'[k].seen = [record[k].seen EXCEPT ![w] = record[k].seen[w] + 1]
    BY <1>1
  <2>2. record[k].seen \in [Workers -> Nat]
    BY <1>1 DEF Docs
  <2> DEFINE f == record[k].seen
             g == record'[k].seen
             S == Owners(k)
  <2>3. w \in S /\ S \subseteq Workers /\ IsFiniteSet(S)
    BY FiniteOwners DEF Owners
  <2>4. \A v \in S : f[v] \in Int /\ g[v] \in Int /\ (v # w => f[v] = g[v])
    BY <2>1, <2>2, <2>3
  <2>5. g[w] = f[w] + 1 /\ f[w] \in Int
    BY <2>1, <2>2
  <2>6. record[k].value = SumFunctionOnSet(f, S)
    BY DEF AddsUp
  <2> HIDE DEF f, g, S
  <2>7. SumFunctionOnSet(g, S) = SumFunctionOnSet(f, S) + (g[w] - f[w])
    BY <2>3, <2>4, SumChanges
  <2>8. record[k].value \in Int
    BY <1>1 DEF Docs
  <2>9. SumFunctionOnSet(g, S) = record'[k].value
    BY <2>1, <2>5, <2>6, <2>7, <2>8
  <2> QED BY <1>3, <2>9 DEF g, S
<1> QED BY <1>2, <1>3

\* Storing the next operation of a writer leaves Counted intact, when the
\* writer either has it in a live call or knows it may take effect.
LEMMA StorePreserves ==
    ASSUME IInv, NEW op \in Ops, Store(op), op.key \in Owned(op.writer),
           workload = "upsert" => op.seq = counts[op.writer][op.key] + 1,
           op.seq <= counts[op.writer][op.key] + 1,
           UNCHANGED <<counts, pending, phase>>,
           \A w \in Workers : executed[w] \subseteq executed'[w] /\ executed'[w] \subseteq Keys,
           \A w \in Workers : \A k \in executed'[w] :
               k \in executed[w] \/ (w = op.writer /\ k = op.key),
           op.seq = counts[op.writer][op.key] + 1 =>
               op.key \in pending[op.writer] \cup executed'[op.writer],
           op.key \in executed'[op.writer] => op.seq = counts[op.writer][op.key] + 1
                                             \/ op.key \in executed[op.writer]
    PROVE  Counted'
<1>1. op.key \in Keys /\ op.writer \in Workers /\ op.seq \in Nat
  BY DEF Ops
<1>2. TypeOK /\ OwnersOnly
  BY DEF IInv, Booked
<1>3. /\ record \in [Keys -> Docs]
      /\ \A w \in Workers, k \in Keys : counts[w][k] \in Nat /\ Seen(w, k) \in Nat
  BY <1>2 DEF TypeOK, Docs, Seen
<1>4. Bracketed /\ AheadIsKnown /\ ExecutedIsAhead /\ AddsUp
      /\ phase \notin {"wrong_sequence", "wrong_value"}
  BY DEF IInv, Counted
<1>5. \/ record' = record /\ Seen(op.writer, op.key) >= op.seq
      \/ /\ op.seq = counts[op.writer][op.key] + 1
         /\ Seen(op.writer, op.key) = counts[op.writer][op.key]
         /\ record' = [record EXCEPT ![op.key] =
               [value |-> record[op.key].value + 1,
                seen |-> [record[op.key].seen EXCEPT ![op.writer] = op.seq]]]
  BY <1>1, <1>2, <1>4, StoreCounts DEF Bracketed
<1>6. \A w \in Workers, k \in Keys :
         \/ Seen(w, k)' = Seen(w, k) /\ ((w = op.writer /\ k = op.key) => Seen(w, k) >= op.seq)
         \/ /\ w = op.writer /\ k = op.key /\ Seen(w, k) = counts[w][k]
            /\ op.seq = counts[w][k] + 1 /\ Seen(w, k)' = op.seq
  <2>1. CASE record' = record /\ Seen(op.writer, op.key) >= op.seq
    BY <2>1 DEF Seen
  <2>2. CASE /\ op.seq = counts[op.writer][op.key] + 1
             /\ Seen(op.writer, op.key) = counts[op.writer][op.key]
             /\ record' = [record EXCEPT ![op.key] =
                   [value |-> record[op.key].value + 1,
                    seen |-> [record[op.key].seen EXCEPT ![op.writer] = op.seq]]]
    <3> SUFFICES ASSUME NEW w \in Workers, NEW k \in Keys
                 PROVE  \/ Seen(w, k)' = Seen(w, k) /\ ~(w = op.writer /\ k = op.key)
                        \/ w = op.writer /\ k = op.key /\ Seen(w, k)' = op.seq
      BY <2>2
    <3>1. CASE k # op.key
      BY <1>1, <1>3, <2>2, <3>1 DEF Seen
    <3>2. CASE k = op.key
      <4>1. record'[k].seen = [record[k].seen EXCEPT ![op.writer] = op.seq]
        BY <1>1, <1>3, <2>2, <3>2
      <4>2. record[k].seen \in [Workers -> Nat]
        BY <1>3 DEF Docs
      <4> QED BY <1>1, <3>2, <4>1, <4>2 DEF Seen
    <3> QED BY <3>1, <3>2
  <2> QED BY <1>5, <2>1, <2>2
<1>7. Bracketed'
  BY <1>3, <1>4, <1>6 DEF Bracketed
<1>8. AheadIsKnown'
  BY <1>3, <1>4, <1>6 DEF AheadIsKnown
<1>9. ExecutedIsAhead'
  <2> SUFFICES ASSUME NEW w \in Workers, NEW k \in executed'[w]
               PROVE  Seen(w, k)' = counts[w][k] + 1
    BY DEF ExecutedIsAhead
  <2>1. k \in Keys
    OBVIOUS
  <2>2. Seen(w, k) \in counts[w][k]..(counts[w][k] + 1)
    BY <1>4, <2>1 DEF Bracketed
  <2>3. CASE k \in executed[w]
    <3>1. Seen(w, k) = counts[w][k] + 1
      BY <1>4, <2>3 DEF ExecutedIsAhead
    <3> QED BY <1>3, <1>6, <2>1, <3>1
  <2>4. CASE k \notin executed[w]
    <3>1. w = op.writer /\ k = op.key /\ op.seq = counts[w][k] + 1
      BY <2>4
    <3> QED BY <1>3, <1>6, <2>1, <2>2, <3>1
  <2> QED BY <2>3, <2>4
<1>10. AddsUp'
  <2>1. CASE record' = record
    BY <1>4, <2>1 DEF AddsUp, Owners, Owned, First, PerWorker, Workers
  <2>2. CASE /\ op.seq = Seen(op.writer, op.key) + 1
             /\ record' = [record EXCEPT ![op.key] =
                   [value |-> record[op.key].value + 1,
                    seen |-> [record[op.key].seen EXCEPT ![op.writer] = op.seq]]]
    BY <1>1, <1>2, <1>4, <2>2, StoreAddsUp DEF Seen
  <2> QED BY <1>5, <2>1, <2>2
<1> QED BY <1>4, <1>7, <1>8, <1>9, <1>10 DEF Counted

\* A call that ends without an answer leaves its operations pending.
LEMMA LoseAnswerPreserves ==
    ASSUME IInv, NEW w \in Workers, LoseAnswer(w)
    PROVE  Counted'
<1>1. /\ pending' = [pending EXCEPT ![w] = @ \cup calling[w]]
      /\ executed' = [executed EXCEPT ![w] = {}]
      /\ UNCHANGED <<record, counts, phase>>
  BY DEF LoseAnswer, audit
<1>2. /\ pending \in [Workers -> SUBSET Keys] /\ executed \in [Workers -> SUBSET Keys]
      /\ executed[w] \subseteq calling[w]
  BY DEF IInv, Booked, TypeOK, OwnersOnly
<1>3. Bracketed /\ AheadIsKnown /\ ExecutedIsAhead /\ AddsUp
      /\ phase \notin {"wrong_sequence", "wrong_value"}
  BY DEF IInv, Counted
<1>4. \A v \in Workers, k \in Keys : Seen(v, k)' = Seen(v, k)
  BY <1>1 DEF Seen
<1>5. Bracketed'
  BY <1>1, <1>3, <1>4 DEF Bracketed
<1>6. AheadIsKnown'
  BY <1>1, <1>2, <1>3, <1>4 DEF AheadIsKnown
<1>7. ExecutedIsAhead'
  BY <1>1, <1>2, <1>3, <1>4 DEF ExecutedIsAhead
<1>8. AddsUp'
  BY <1>1, <1>3 DEF AddsUp
<1> QED BY <1>1, <1>3, <1>5, <1>6, <1>7, <1>8 DEF Counted

\* An answer acknowledges what took effect; what it settles cannot be applied
\* again, and what it leaves open is pending.
LEMMA AnswerPreserves ==
    ASSUME IInv, NEW w \in Workers, Answer(w)
    PROVE  Counted'
<1>0. PICK applied, unknown \in SUBSET Keys : Books(w, applied, unknown)
  BY AnswerEffect DEF IInv
<1>1. /\ applied \subseteq executed[w] /\ unknown \subseteq calling[w]
      /\ executed[w] \ applied \subseteq unknown /\ unknown \cap applied = {}
      /\ \A v \in Workers, k \in Keys : counts'[v][k] =
            IF v = w /\ k \in applied THEN counts[v][k] + 1 ELSE counts[v][k]
      /\ \A v \in Workers : pending'[v] =
            IF v = w THEN (pending[w] \cup unknown) \ applied ELSE pending[v]
      /\ loose' = loose \cup {Operation(w, k) : k \in unknown}
  BY <1>0 DEF Books
<1>2. executed' = [executed EXCEPT ![w] = {}] /\ UNCHANGED <<record, phase>>
  BY DEF Answer, audit
<1>3. /\ executed \in [Workers -> SUBSET Keys]
      /\ \A v \in Workers, k \in Keys : counts[v][k] \in Nat /\ Seen(v, k) \in Nat
  BY DEF IInv, Booked, TypeOK, Seen
<1>4. Bracketed /\ AheadIsKnown /\ ExecutedIsAhead /\ AddsUp
      /\ phase \notin {"wrong_sequence", "wrong_value"}
  BY DEF IInv, Counted
<1>5. \A v \in Workers, k \in Keys :
        /\ Seen(v, k)' = Seen(v, k)
        /\ (v = w /\ k \in applied) => Seen(v, k) = counts[v][k] + 1
  BY <1>1, <1>2, <1>4 DEF ExecutedIsAhead, Seen
<1>6. Bracketed'
  <2> SUFFICES ASSUME NEW v \in Workers, NEW k \in Keys
               PROVE  Seen(v, k)' \in counts'[v][k]..(counts'[v][k] + 1)
    BY DEF Bracketed
  <2>1. counts[v][k] \in Nat /\ Seen(v, k) \in counts[v][k]..(counts[v][k] + 1)
    BY <1>3, <1>4 DEF Bracketed
  <2> QED BY <1>1, <1>5, <2>1
<1>7. AheadIsKnown'
  <2> SUFFICES ASSUME NEW v \in Workers, NEW k \in Keys,
                      Seen(v, k)' = counts'[v][k] + 1
               PROVE  k \in pending'[v] \cup executed'[v]
    BY DEF AheadIsKnown
  <2>1. counts[v][k] \in Nat
    BY <1>3
  <2>2. ~(v = w /\ k \in applied) /\ Seen(v, k) = counts[v][k] + 1
    BY <1>1, <1>5, <2>1
  <2>3. k \in pending[v] \cup executed[v]
    BY <1>4, <2>2 DEF AheadIsKnown
  <2>4. v # w => executed'[v] = executed[v]
    BY <1>2, <1>3
  <2> QED BY <1>1, <2>2, <2>3, <2>4
<1>8. ExecutedIsAhead'
  <2> SUFFICES ASSUME NEW v \in Workers, NEW k \in executed'[v]
               PROVE  Seen(v, k)' = counts'[v][k] + 1
    BY DEF ExecutedIsAhead
  <2>1. v # w /\ k \in executed[v] /\ k \in Keys
    BY <1>2, <1>3
  <2> QED BY <1>1, <1>4, <1>5, <2>1 DEF ExecutedIsAhead
<1>9. AddsUp'
  BY <1>2, <1>4 DEF AddsUp
<1> QED BY <1>2, <1>4, <1>6, <1>7, <1>8, <1>9 DEF Counted

\* Once the workers have returned, every record's sequences are those
\* reconciliation expects.
LEMMA SequencesAgree ==
    ASSUME IInv, phase # "load", NEW k \in Keys, NEW w \in Workers
    PROVE  Seen(w, k) = Expected(w, k)
<1>1. counts[w][k] \in Nat /\ Seen(w, k) \in counts[w][k]..(counts[w][k] + 1)
  BY DEF IInv, Booked, TypeOK, Counted, Bracketed
<1>2. executed[w] = {}
  BY DEF IInv, Booked, QuietAfterLoad, OwnersOnly
<1>3. Seen(w, k) = counts[w][k] + 1 => k \in pending[w]
  BY <1>2 DEF IInv, Counted, AheadIsKnown
<1> QED BY <1>1, <1>3 DEF Expected, Recovered, Seen

\* And so are the values.
LEMMA ValuesAgree ==
    ASSUME IInv, phase # "load", NEW k \in Keys
    PROVE  SequencesMatch(k) /\ ValueMatches(k)
<1> DEFINE f == record[k].seen
           g == [w \in Workers |-> Expected(w, k)]
<1>1. Owners(k) \subseteq Workers /\ IsFiniteSet(Owners(k))
  BY FiniteOwners
<1>2. \A w \in Owners(k) : f[w] \in Int /\ f[w] = g[w]
  <2> SUFFICES ASSUME NEW w \in Owners(k) PROVE f[w] \in Int /\ f[w] = Expected(w, k)
    BY <1>1
  <2>1. w \in Workers /\ record[k].seen[w] \in Int
    BY <1>1 DEF IInv, Booked, TypeOK
  <2>2. Seen(w, k) = Expected(w, k)
    BY <2>1, SequencesAgree
  <2> QED BY <2>1, <2>2 DEF Seen
<1>3. SequencesMatch(k)
  BY <1>1, <1>2 DEF SequencesMatch
<1>4. record[k].value = SumFunctionOnSet(f, Owners(k))
  BY DEF IInv, Counted, AddsUp
<1>5. ValueMatches(k) <=> record[k].value = SumFunctionOnSet(g, Owners(k))
  BY DEF ValueMatches
<1> HIDE DEF f, g
<1>6. SumFunctionOnSet(f, Owners(k)) = SumFunctionOnSet(g, Owners(k))
  BY <1>1, <1>2, SumSame
<1> QED BY <1>3, <1>4, <1>5, <1>6

\* Every step of the generator and of a store that damages nothing keeps the
\* count.
LEMMA StepCounts ==
    ASSUME OnlyMergesLate, IInv, [Next]_vars
    PROVE  Counted'
<1>t. /\ executed \in [Workers -> SUBSET Keys] /\ calling \in [Workers -> SUBSET Keys]
      /\ loose \subseteq Ops /\ counts \in [Workers -> [Keys -> Nat]]
      /\ workload \in Workloads
  BY DEF IInv, Booked, TypeOK, Ops
<1>b. OwnersOnly /\ LooseIsPending /\ QuietAfterLoad
  BY DEF IInv, Booked
<1>c. Bracketed /\ AheadIsKnown /\ ExecutedIsAhead /\ AddsUp
      /\ phase \notin {"wrong_sequence", "wrong_value"}
  BY DEF IInv, Counted
<1>0. ASSUME UNCHANGED <<record, counts, pending, executed>>,
             phase' \notin {"wrong_sequence", "wrong_value"}
      PROVE  Counted'
  <2>1. Bracketed' /\ AheadIsKnown' /\ ExecutedIsAhead'
    BY <1>c, <1>0 DEF Bracketed, AheadIsKnown, ExecutedIsAhead, Seen
  <2>2. AddsUp'
    BY <1>c, <1>0 DEF AddsUp
  <2> QED BY <1>0, <2>1, <2>2 DEF Counted
<1>1. ASSUME NEW w \in Workers, NEW k \in Keys, Execute(w, k) PROVE Counted'
  <2> DEFINE op == Operation(w, k)
  <2>1. /\ op \in Ops /\ op.writer = w /\ op.key = k /\ op.seq = counts[w][k] + 1
        /\ counts[w][k] \in Nat
    BY <1>t, OperationType DEF Operation
  <2>2. /\ Store(op) /\ k \in calling[w]
        /\ executed' = [executed EXCEPT ![w] = @ \cup {k}]
        /\ UNCHANGED <<counts, pending, phase>>
    BY <1>1 DEF Execute, audit
  <2> HIDE DEF op
  <2>3. \A v \in Workers : executed[v] \subseteq executed'[v] /\ executed'[v] \subseteq Keys
    BY <1>t, <2>2
  <2>4. \A v \in Workers : \A j \in executed'[v] : j \in executed[v] \/ (v = w /\ j = k)
    BY <1>t, <2>2
  <2>5. k \in executed'[w] /\ k \in Owned(w)
    BY <1>b, <1>t, <2>2 DEF OwnersOnly
  <2> QED BY <2>1, <2>2, <2>3, <2>4, <2>5, StorePreserves
<1>2. ASSUME NEW op \in loose, Straggle(op) PROVE Counted'
  <2>1. op \in Ops /\ Store(op) /\ workload # "upsert" /\ op.key \in Owned(op.writer)
    BY <1>2, <1>b, <1>t DEF Straggle, OnlyMergesLate, OwnersOnly
  <2>2. UNCHANGED <<counts, pending, executed, phase>>
    BY <1>2 DEF Straggle, load, audit
  <2>3. op.seq <= counts[op.writer][op.key] + 1
        /\ (op.seq = counts[op.writer][op.key] + 1 => op.key \in pending[op.writer])
    BY <1>b DEF LooseIsPending
  <2> QED BY <1>t, <2>1, <2>2, <2>3, StorePreserves
<1>3. ASSUME NEW w \in Workers, LoseAnswer(w) PROVE Counted'
  BY <1>3, LoseAnswerPreserves
<1>4. ASSUME NEW w \in Workers, Answer(w) PROVE Counted'
  BY <1>4, AnswerPreserves
<1>5. ASSUME NEW w \in Workers, Issue(w) \/ Browse(w) \/ Leave(w) PROVE Counted'
  BY <1>0, <1>5, <1>c DEF Issue, Browse, Leave, load, audit
<1>6. CASE Reconcile
  BY <1>0, <1>6 DEF Reconcile, load
<1>7. CASE Verify /\ (ReadLess \/ ReadFails \/ ReadBatch)
  BY <1>0, <1>7, <1>c DEF Verify, ReadLess, ReadFails, ReadBatch, load
<1>8. ASSUME NEW k \in Keys, Verify, Disagree(k) PROVE FALSE
  BY <1>8, ValuesAgree DEF Verify, Disagree
<1>9. CASE UNCHANGED vars
  BY <1>0, <1>9, <1>c DEF vars, load, audit
<1> QED BY <1>1, <1>2, <1>3, <1>4, <1>5, <1>6, <1>7, <1>8, <1>9 DEF Next, Verify

\* A run begins with nothing acknowledged and nothing stored.
LEMMA InitCounts == ASSUME Init PROVE Counted
<1>1. \A w \in Workers, k \in Keys : Seen(w, k) = 0 /\ counts[w][k] = 0
  BY DEF Init, Seen
<1>2. Bracketed /\ AheadIsKnown
  BY <1>1 DEF Bracketed, AheadIsKnown
<1>3. ASSUME NEW k \in Keys
      PROVE  record[k].value = SumFunctionOnSet(record[k].seen, Owners(k))
  <2> DEFINE f == record[k].seen
  <2>1. record[k].value = 0 /\ \A w \in Workers : f[w] = 0
    BY DEF Init
  <2>2. Owners(k) \subseteq Workers /\ IsFiniteSet(Owners(k))
    BY FiniteOwners
  <2> HIDE DEF f
  <2>3. SumFunctionOnSet(f, Owners(k)) = 0
    <3>1. \A w \in Owners(k) : f[w] = IF w \in {} THEN 1 ELSE 0
      BY <2>1, <2>2
    <3> QED BY <2>2, <3>1, SumOfOnes, FS_EmptySet
  <2> QED BY <2>1, <2>3 DEF f
<1>4. AddsUp
  BY <1>3 DEF AddsUp
<1> QED BY <1>2, <1>4 DEF Init, Counted, ExecutedIsAhead

\* The invariant, on a store that damages nothing: however many answers are
\* lost and merges are late.
THEOREM Invariance ==
    ASSUME OnlyMergesLate
    PROVE  Spec => []IInv
<1>1. Init => Counted
  BY InitCounts
<1>2. Spec => []Booked
  <2>1. [Next]_vars => [Next \/ \E k \in Keys : Corrupt(k)]_vars
    OBVIOUS
  <2> QED BY <2>1, Bookkeeping, PTL DEF Spec, FaultySpec
<1>3. Init /\ Booked => IInv
  BY <1>1 DEF IInv
<1>4. IInv /\ [Next]_vars /\ Booked' => IInv'
  BY StepCounts DEF IInv
<1> QED BY <1>2, <1>3, <1>4, PTL DEF Spec

\* A writer's stored sequence is never behind what was acknowledged to it,
\* never more than one ahead, and then the worker knows of the write.
THEOREM NeverFurtherAhead ==
    ASSUME OnlyMergesLate
    PROVE  Spec => []AtMostOneAhead
<1>1. IInv => AtMostOneAhead
  <2> SUFFICES ASSUME IInv, NEW w \in Workers, NEW k \in Keys
               PROVE  LET ahead == record[k].seen[w] - counts[w][k] IN
                      ahead \in 0..1 /\ (ahead = 1 => k \in pending[w] \cup calling[w])
    BY DEF AtMostOneAhead
  <2>1. /\ counts[w][k] \in Nat
        /\ record[k].seen[w] \in counts[w][k]..(counts[w][k] + 1)
    BY DEF IInv, Booked, TypeOK, Counted, Bracketed, Seen
  <2>2. record[k].seen[w] = counts[w][k] + 1 => k \in pending[w] \cup calling[w]
    BY DEF IInv, Counted, AheadIsKnown, Booked, OwnersOnly, Seen
  <2> QED BY <2>1, <2>2
<1> QED BY <1>1, Invariance, PTL

\* Reconciliation never accuses a backend that kept its promises, neither of
\* a sequence nor of a value, however answers were lost and effects were late.
THEOREM NeverAccused ==
    ASSUME OnlyMergesLate
    PROVE  Spec => []NoFalseAlarm
<1>1. IInv => NoFalseAlarm
  BY DEF IInv, Counted, NoFalseAlarm
<1> QED BY <1>1, Invariance, PTL
-----------------------------------------------------------------------------
(* What a run that verifies has established, over a store that may damage   *)
(* records until the workers have returned.                                 *)

\* The writes of unknown outcome below record n that took effect.
Found(n) ==
    {wk \in Workers \X (0..(n - 1)) : wk[1] \in Owners(wk[2]) /\ Recovered(wk[1], wk[2])}

\* What has been read agrees, also with the merges that arrive after it was
\* read, and what was reconciled is there.
Audited ==
    /\ phase = "load" => begin = 0
    /\ phase = "verified" => begin = TotalKeys
    /\ \A k \in 0..(begin - 1) : SequencesMatch(k) /\ ValueMatches(k)
    /\ reconciled <= Cardinality(Found(begin))

\* Pairs of workers and records can be counted.
LEMMA CountPairs ==
    ASSUME NEW n \in Nat, NEW S \in SUBSET (Workers \X (0..(n - 1)))
    PROVE  IsFiniteSet(S) /\ Cardinality(S) \in Nat
<1>1. IsFiniteSet(Workers) /\ IsFiniteSet(0..(n - 1))
  BY FS_Interval, SettingsAssumption DEF Workers
<1>2. IsFiniteSet(Workers \X (0..(n - 1)))
  BY <1>1, FS_Product
<1>3. IsFiniteSet(S)
  BY <1>2, FS_Subset
<1> QED BY <1>3, FS_CardinalityType

\* What was read stays so while its records and the books do.
LEMMA AuditStays ==
    ASSUME Audited, begin \in Nat, UNCHANGED <<counts, pending, begin, reconciled>>,
           \A k \in 0..(begin - 1) : record'[k] = record[k],
           phase' = "load" => begin = 0, phase' = "verified" => begin = TotalKeys
    PROVE  Audited'
<1>1. \A w \in Workers, k \in 0..(begin - 1) :
        (Recovered(w, k)' <=> Recovered(w, k)) /\ Expected(w, k)' = Expected(w, k)
  BY DEF Recovered, Expected
<1>2. ASSUME NEW k \in 0..(begin - 1) PROVE SequencesMatch(k)' /\ ValueMatches(k)'
  <2>1. SequencesMatch(k) /\ ValueMatches(k) /\ record'[k] = record[k]
    BY DEF Audited
  <2>2. Owners(k)' = Owners(k) /\ Owners(k) \subseteq Workers
    BY DEF Owners, Owned, First, PerWorker, Workers
  <2>3. [w \in Workers |-> Expected(w, k)'] = [w \in Workers |-> Expected(w, k)]
    BY <1>1
  <2>4. SequencesMatch(k)'
    BY <1>1, <2>1, <2>2 DEF SequencesMatch
  <2> QED BY <2>1, <2>2, <2>3, <2>4 DEF ValueMatches
<1>3. Found(begin)' = Found(begin)
  BY <1>1 DEF Found, Owners, Owned, First, PerWorker, Workers
<1> QED BY <1>2, <1>3 DEF Audited, TotalKeys, PerWorker

\* A merge that arrives after its record was read is one more of the writes
\* that were known to be open.
LEMMA StraggleAudits ==
    ASSUME OnlyMergesLate, Booked, Audited, NEW op \in loose, Straggle(op)
    PROVE  Audited'
<1>1. /\ op \in Ops /\ Store(op) /\ workload # "upsert" /\ op.key \in Owned(op.writer)
      /\ op.key \in Keys /\ op.writer \in Workers /\ op.seq \in Nat
      /\ op.seq <= counts[op.writer][op.key] + 1
      /\ op.seq = counts[op.writer][op.key] + 1 => op.key \in pending[op.writer]
  BY DEF Straggle, OnlyMergesLate, Booked, TypeOK, OwnersOnly, LooseIsPending, Ops
<1>2. UNCHANGED <<counts, pending, phase, begin, reconciled>>
  BY DEF Straggle, load, audit
<1>3. /\ record \in [Keys -> Docs] /\ TypeOK /\ begin \in 0..TotalKeys /\ reconciled \in Nat
      /\ \A w \in Workers, k \in Keys : counts[w][k] \in Nat /\ Seen(w, k) \in Nat
  BY DEF Booked, TypeOK, Docs, Seen
<1>4. 0..(begin - 1) \subseteq Keys
  BY <1>3, Sizes DEF Keys
<1>5. \A w \in Workers, k \in Keys : Recovered(w, k) => Seen(w, k) = Expected(w, k)
  BY DEF Recovered, Expected, Seen
<1>6. ASSUME NEW k \in 0..(begin - 1), k # op.key
      PROVE  record'[k] = record[k]
  BY <1>1, <1>3, <1>4, <1>6 DEF Store
<1> DEFINE w == op.writer
           k == op.key
<1>7. ASSUME \A j \in 0..(begin - 1) : record'[j] = record[j] PROVE Audited'
  <2>1. begin \in Nat /\ (phase = "load" => begin = 0) /\ (phase = "verified" => begin = TotalKeys)
    BY <1>3, Sizes DEF Audited
  <2> QED BY <1>2, <1>7, <2>1, AuditStays
<1>8. CASE k \in 0..(begin - 1)
  <2>1. w \in Owners(k) /\ Owners(k) \subseteq Workers /\ IsFiniteSet(Owners(k))
    BY <1>1, FiniteOwners DEF Owners
  <2>2. Seen(w, k) = Expected(w, k) /\ SequencesMatch(k) /\ ValueMatches(k)
    BY <1>8, <2>1 DEF Audited, SequencesMatch, Seen
  <2>3. Seen(w, k) \in counts[w][k]..(counts[w][k] + 1)
    BY <1>1, <1>3, <2>2 DEF Expected
  <2>4. CASE record' = record
    BY <1>7, <2>4
  <2>5. CASE /\ op.seq = counts[w][k] + 1 /\ Seen(w, k) = counts[w][k]
             /\ record' = [record EXCEPT ![k] =
                   [value |-> record[k].value + 1,
                    seen |-> [record[k].seen EXCEPT ![w] = op.seq]]]
    <3>1. k \in pending[w]
      BY <1>1, <2>5
    <3>2. /\ record'[k].value = record[k].value + 1
          /\ \A v \in Workers : record'[k].seen[v] =
                IF v = w THEN counts[w][k] + 1 ELSE record[k].seen[v]
      <4>1. /\ record'[k].value = record[k].value + 1
            /\ record'[k].seen = [record[k].seen EXCEPT ![w] = op.seq]
        BY <1>1, <1>3, <2>5
      <4>2. record[k].seen \in [Workers -> Nat]
        BY <1>1, <1>3 DEF Docs
      <4> QED BY <2>5, <4>1, <4>2
    <3>3. Recovered(w, k)' /\ Expected(w, k)' = counts[w][k] + 1
          /\ ~Recovered(w, k) /\ Expected(w, k) = counts[w][k]
      BY <1>1, <1>2, <1>3, <2>5, <3>1, <3>2 DEF Recovered, Expected, Seen
    <3>4. \A v \in Workers, j \in 0..(begin - 1) : ~(v = w /\ j = k) =>
            /\ Recovered(v, j)' <=> Recovered(v, j)
            /\ Expected(v, j)' = Expected(v, j)
            /\ record'[j].seen[v] = record[j].seen[v]
      <4> SUFFICES ASSUME NEW v \in Workers, NEW j \in 0..(begin - 1), ~(v = w /\ j = k)
                   PROVE  /\ Recovered(v, j)' <=> Recovered(v, j)
                          /\ Expected(v, j)' = Expected(v, j)
                          /\ record'[j].seen[v] = record[j].seen[v]
        OBVIOUS
      <4>1. record'[j].seen[v] = record[j].seen[v]
        BY <1>6, <3>2
      <4> QED BY <1>2, <4>1 DEF Recovered, Expected
    <3>5. ASSUME NEW j \in 0..(begin - 1) PROVE SequencesMatch(j)' /\ ValueMatches(j)'
      <4>1. SequencesMatch(j) /\ ValueMatches(j) /\ j \in Keys
        BY <1>4 DEF Audited
      <4>2. Owners(j)' = Owners(j) /\ Owners(j) \subseteq Workers /\ IsFiniteSet(Owners(j))
        BY <4>1, FiniteOwners DEF Owners, Owned, First, PerWorker, Workers
      <4>3. SequencesMatch(j)'
        <5> SUFFICES ASSUME NEW v \in Owners(j) PROVE record'[j].seen[v] = Expected(v, j)'
          BY <4>2 DEF SequencesMatch
        <5>1. v \in Workers /\ record[j].seen[v] = Expected(v, j)
          BY <4>1, <4>2 DEF SequencesMatch
        <5> QED BY <3>2, <3>3, <3>4, <5>1
      <4> DEFINE f == [v \in Workers |-> Expected(v, j)]
                 g == [v \in Workers |-> Expected(v, j)']
      <4>4. record[j].value = SumFunctionOnSet(f, Owners(j))
            /\ (ValueMatches(j)' <=> record'[j].value = SumFunctionOnSet(g, Owners(j)))
        BY <4>1, <4>2 DEF ValueMatches
      <4>5. CASE j # k
        <5>1. f = g
          BY <3>4, <4>5
        <5>2. record'[j] = record[j]
          BY <1>6, <4>5
        <5> HIDE DEF f, g
        <5> QED BY <4>3, <4>4, <5>1, <5>2
      <4>6. CASE j = k
        <5>1. \A v \in Owners(j) : f[v] \in Int /\ g[v] \in Int /\ (v # w => f[v] = g[v])
          <6> SUFFICES ASSUME NEW v \in Owners(j)
                       PROVE  /\ Expected(v, j) \in Int /\ Expected(v, j)' \in Int
                              /\ v # w => Expected(v, j) = Expected(v, j)'
            BY <4>2
          <6>1. v \in Workers /\ counts[v][j] \in Nat /\ counts'[v][j] = counts[v][j]
            BY <1>2, <1>3, <4>1, <4>2
          <6>2. Expected(v, j) \in Int /\ Expected(v, j)' \in Int
            BY <6>1 DEF Expected
          <6> QED BY <3>4, <6>1, <6>2
        <5>2. f[w] = counts[w][k] /\ g[w] = counts[w][k] + 1 /\ counts[w][k] \in Nat
          BY <1>1, <1>3, <3>3, <4>6
        <5>3. record[j].value \in Int
          BY <1>3, <4>1 DEF Docs
        <5> HIDE DEF f, g
        <5>4. SumFunctionOnSet(g, Owners(j)) = SumFunctionOnSet(f, Owners(j)) + (g[w] - f[w])
          BY <2>1, <4>2, <4>6, <5>1, SumChanges
        <5>5. record'[j].value = SumFunctionOnSet(g, Owners(j))
          BY <3>2, <4>4, <4>6, <5>2, <5>3, <5>4
        <5> QED BY <4>3, <4>4, <5>5
      <4> QED BY <4>5, <4>6
    <3>6. Found(begin) \subseteq Found(begin)'
      BY <1>2, <3>3, <3>4 DEF Found, Owners, Owned, First, PerWorker, Workers
    <3>7. /\ Found(begin) \in SUBSET (Workers \X (0..(begin - 1)))
          /\ Found(begin)' \in SUBSET (Workers \X (0..(begin - 1)))
          /\ begin \in Nat
      BY <1>2, <1>3, Sizes DEF Found, Workers
    <3>8. /\ Cardinality(Found(begin)) \in Nat /\ Cardinality(Found(begin)') \in Nat
          /\ Cardinality(Found(begin)) <= Cardinality(Found(begin)')
      <4> DEFINE F == Found(begin)
                 G == Found(begin)'
      <4> HIDE DEF F, G
      <4>1. /\ F \in SUBSET (Workers \X (0..(begin - 1)))
            /\ G \in SUBSET (Workers \X (0..(begin - 1))) /\ F \subseteq G
        BY <3>6, <3>7 DEF F, G
      <4>2. IsFiniteSet(G) /\ Cardinality(G) \in Nat /\ Cardinality(F) \in Nat
        BY <3>7, <4>1, CountPairs
      <4>3. Cardinality(F) <= Cardinality(G)
        BY <4>1, <4>2, FS_Subset
      <4> QED BY <4>2, <4>3 DEF F, G
    <3>9. reconciled <= Cardinality(Found(begin))
      BY DEF Audited
    <3>10. reconciled' <= Cardinality(Found(begin)')
      BY <1>2, <1>3, <3>8, <3>9
    <3> QED BY <1>2, <3>5, <3>10 DEF Audited, TotalKeys, PerWorker
  <2> QED BY <1>1, <1>3, <2>3, <2>4, <2>5, StoreCounts
<1> QED BY <1>6, <1>7, <1>8

\* A batch that agrees joins what was read before.
LEMMA ReadBatchAudits ==
    ASSUME Booked, Audited, Verify, ReadBatch
    PROVE  Audited'
<1>1. /\ begin \in 0..TotalKeys /\ size \in Nat \ {0} /\ reconciled \in Nat /\ TotalKeys \in Nat
  BY Sizes DEF Booked, TypeOK
<1>2. BatchEnd \in Nat /\ begin <= BatchEnd
  BY <1>1 DEF BatchEnd, Least
<1>3. /\ phase = "verifying" /\ begin' = BatchEnd /\ UNCHANGED <<record, counts, pending>>
      /\ \A k \in Reading : SequencesMatch(k) /\ ValueMatches(k)
      /\ phase' = IF BatchEnd = TotalKeys THEN "verified" ELSE phase
  BY DEF Verify, ReadBatch, load
<1> DEFINE More == {wk \in Workers \X Reading : wk[1] \in Owners(wk[2]) /\ Recovered(wk[1], wk[2])}
<1>4. reconciled' = reconciled + Cardinality(More)
  BY DEF ReadBatch
<1>5. \A k \in 0..(BatchEnd - 1) : k \in 0..(begin - 1) \/ k \in Reading
  BY <1>1, <1>2 DEF Reading
<1>6. \A w \in Workers, k \in 0..(BatchEnd - 1) :
        (Recovered(w, k)' <=> Recovered(w, k)) /\ Expected(w, k)' = Expected(w, k)
  BY <1>3 DEF Recovered, Expected
<1>7. ASSUME NEW k \in 0..(BatchEnd - 1) PROVE SequencesMatch(k)' /\ ValueMatches(k)'
  <2>1. SequencesMatch(k) /\ ValueMatches(k)
    BY <1>3, <1>5 DEF Audited
  <2>2. Owners(k)' = Owners(k) /\ Owners(k) \subseteq Workers
    BY DEF Owners, Owned, First, PerWorker, Workers
  <2>3. [w \in Workers |-> Expected(w, k)'] = [w \in Workers |-> Expected(w, k)]
    BY <1>6
  <2>4. SequencesMatch(k)'
    BY <1>3, <1>6, <2>1, <2>2 DEF SequencesMatch
  <2> QED BY <1>3, <2>1, <2>2, <2>3, <2>4 DEF ValueMatches
<1>8. Found(begin)' = Found(begin) \cup More /\ Found(begin) \cap More = {}
  <2>1. Found(begin)' = Found(BatchEnd)
    BY <1>3, <1>6 DEF Found, Owners, Owned, First, PerWorker, Workers
  <2>2. Found(BatchEnd) = Found(begin) \cup More
    <3>1. 0..(BatchEnd - 1) = (0..(begin - 1)) \cup Reading
      BY <1>1, <1>2 DEF Reading
    <3> QED BY <3>1 DEF Found
  <2>3. (0..(begin - 1)) \cap Reading = {}
    BY <1>1, <1>2 DEF Reading
  <2> QED BY <2>1, <2>2, <2>3 DEF Found
<1>9. /\ IsFiniteSet(Found(begin)) /\ Cardinality(Found(begin)) \in Nat
      /\ IsFiniteSet(More) /\ Cardinality(More) \in Nat
  <2>1. Found(begin) \in SUBSET (Workers \X (0..(begin - 1))) /\ begin \in Nat
    BY <1>1 DEF Found
  <2>2. More \in SUBSET (Workers \X (0..(BatchEnd - 1)))
    BY <1>1, <1>2 DEF Reading
  <2> HIDE DEF More
  <2> QED BY <1>2, <2>1, <2>2, CountPairs
<1> HIDE DEF More
<1>10. Cardinality(Found(begin)') = Cardinality(Found(begin)) + Cardinality(More)
  <2> DEFINE F == Found(begin)
  <2> HIDE DEF F
  <2>1. Cardinality(F \cup More) = Cardinality(F) + Cardinality(More) - Cardinality(F \cap More)
    BY <1>9, FS_Union DEF F
  <2>2. Cardinality(F \cap More) = 0
    BY <1>8, FS_EmptySet DEF F
  <2> QED BY <1>8, <1>9, <2>1, <2>2 DEF F
<1>11. reconciled' <= Cardinality(Found(begin)')
  BY <1>1, <1>4, <1>9, <1>10 DEF Audited
<1>12. TotalKeys' = TotalKeys
  BY DEF TotalKeys, PerWorker
<1> QED BY <1>3, <1>7, <1>11, <1>12 DEF Audited

\* The audit, whatever the store did during the load.
LEMMA Auditing ==
    ASSUME OnlyMergesLate
    PROVE  FaultySpec => []Audited
<1>1. Init => Audited
  <2>1. 0..(0 - 1) = {} /\ Found(0) \in SUBSET (Workers \X (0..(0 - 1)))
    BY DEF Found
  <2>2. Cardinality(Found(0)) \in Nat
    BY <2>1, CountPairs
  <2> QED BY <2>1, <2>2 DEF Init, Audited
<1>2. Booked /\ Audited /\ [Next \/ \E k \in Keys : Corrupt(k)]_vars => Audited'
  <2> SUFFICES ASSUME Booked, Audited, [Next \/ \E k \in Keys : Corrupt(k)]_vars PROVE Audited'
    OBVIOUS
  <2>t. /\ begin \in Nat /\ left \subseteq Workers /\ QuietAfterLoad
        /\ (phase = "load" => begin = 0) /\ (phase = "verified" => begin = TotalKeys)
        /\ \A v \in Workers : executed[v] \subseteq calling[v]
    BY Sizes DEF Booked, TypeOK, Audited, OwnersOnly
  <2>0. ASSUME phase = "load", UNCHANGED audit PROVE Audited'
    <3>1. begin = 0 /\ begin' = 0 /\ 0..(0 - 1) = {}
      BY <2>t, <2>0 DEF audit
    <3>2. Found(begin) = {} /\ Found(begin)' = {}
      BY <3>1 DEF Found
    <3>3. reconciled <= Cardinality({})
      BY <3>2 DEF Audited
    <3> QED BY <2>0, <3>1, <3>2, <3>3 DEF Audited, audit
  <2>1. ASSUME NEW w \in Workers, Issue(w) \/ Browse(w) PROVE Audited'
    <3>1. phase = "load"
      BY <2>1, <2>t DEF Issue, Browse, QuietAfterLoad
    <3> QED BY <2>0, <2>1, <3>1 DEF Issue, Browse
  <2>2. ASSUME NEW w \in Workers, NEW k \in Keys, Execute(w, k) PROVE Audited'
    <3>1. phase = "load"
      BY <2>2, <2>t DEF Execute, QuietAfterLoad
    <3> QED BY <2>0, <2>2, <3>1 DEF Execute
  <2>3. ASSUME NEW w \in Workers, LoseAnswer(w) \/ Answer(w) PROVE Audited'
    <3>1. phase = "load" /\ UNCHANGED audit
      BY <2>3, <2>t DEF LoseAnswer, Answer, QuietAfterLoad
    <3> QED BY <2>0, <3>1
  <2>4. ASSUME NEW op \in loose, Straggle(op) PROVE Audited'
    BY <2>4, StraggleAudits
  <2>5. ASSUME NEW k \in Keys, Corrupt(k) PROVE Audited'
    BY <2>0, <2>5 DEF Corrupt
  <2>6. ASSUME NEW w \in Workers, Leave(w) PROVE Audited'
    BY <2>6, <2>t, AuditStays DEF Leave, load, audit
  <2>7. CASE Reconcile
    BY <2>7, <2>t, AuditStays DEF Reconcile, load
  <2>8. CASE Verify /\ (ReadLess \/ ReadFails)
    BY <2>8, <2>t, AuditStays DEF Verify, ReadLess, ReadFails, load
  <2>9. CASE Verify /\ ReadBatch
    BY <2>9, ReadBatchAudits
  <2>10. ASSUME NEW k \in Keys, Verify, Disagree(k) PROVE Audited'
    BY <2>10, <2>t, AuditStays DEF Verify, Disagree, load
  <2>11. CASE UNCHANGED vars
    BY <2>11, <2>t, AuditStays DEF vars, load, audit
  <2> QED
    BY <2>1, <2>2, <2>3, <2>4, <2>5, <2>6, <2>7, <2>8, <2>9, <2>10, <2>11 DEF Next, Verify
<1> QED BY <1>1, <1>2, Bookkeeping, PTL DEF FaultySpec

\* The sums of the report, taken over all pairs of a worker and a record.
Pairs == Workers \X Keys

\* There are finitely many.
LEMMA FinitePairs == IsFiniteSet(Workers) /\ IsFiniteSet(Keys) /\ IsFiniteSet(Pairs)
<1>1. Concurrency - 1 \in Int /\ TotalKeys - 1 \in Int
  BY Sizes, SettingsAssumption
<1>2. IsFiniteSet(Workers) /\ IsFiniteSet(Keys)
  BY <1>1, FS_Interval DEF Workers, Keys
<1> QED BY <1>2, FS_Product DEF Pairs

Pending == {wk \in Pairs : wk[2] \in pending[wk[1]]}

\* The acknowledged writes, pair by pair.
LEMMA AcknowledgedSum ==
    ASSUME TypeOK
    PROVE  /\ \A p \in Pairs : [wk \in Pairs |-> counts[wk[1]][wk[2]]][p] \in Int
           /\ Acknowledged = SumFunctionOnSet([wk \in Pairs |-> counts[wk[1]][wk[2]]], Pairs)
<1> DEFINE f == [wk \in Pairs |-> counts[wk[1]][wk[2]]]
           e == [w \in Workers |-> [k \in Keys |-> <<w, k>>]]
           rows == [w \in Workers |-> SumFunction(counts[w])]
<1>1. counts \in [Workers -> [Keys -> Nat]]
  BY DEF TypeOK
<1>2. IsFiniteSet(Workers) /\ IsFiniteSet(Keys) /\ IsFiniteSet(Pairs)
  BY FinitePairs
<1>3. \A w \in Workers : rows[w] = SumFunctionOnSet(counts[w], Keys)
  BY <1>1 DEF SumFunction
<1>4. \A p \in Pairs : f[p] \in Int
  BY <1>1 DEF Pairs
<1>5. \A w \in Workers, k \in Keys : e[w][k] = <<w, k>> /\ e[w][k] \in Pairs
                                     /\ counts[w][k] = f[e[w][k]]
  BY DEF Pairs
<1>6. \A p \in Pairs : \E w \in Workers, k \in Keys : p = e[w][k]
  BY <1>5 DEF Pairs
<1>7. \A v, w \in Workers, j, k \in Keys : e[v][j] = e[w][k] => v = w /\ j = k
  BY <1>5
<1>8. Acknowledged = SumFunctionOnSet(rows, Workers)
  BY DEF Acknowledged, SumFunction
<1> HIDE DEF f, e, rows
<1>9a. RowSums(Pairs, Workers, Keys, e, f, counts, rows)
  BY <1>3, <1>4, <1>5, <1>6, <1>7 DEF RowSums
<1>9. SumFunctionOnSet(f, Pairs) = SumFunctionOnSet(rows, Workers)
  BY <1>2, <1>9a, SumByRows
<1> QED BY <1>4, <1>8, <1>9 DEF f

\* The open writes, pair by pair.
LEMMA UnknownSum ==
    ASSUME TypeOK
    PROVE  Unknown = Cardinality(Pending)
<1> DEFINE f == [wk \in Pairs |-> IF wk \in Pending THEN 1 ELSE 0]
           e == [w \in Workers |-> [k \in Keys |-> <<w, k>>]]
           row == [w \in Workers |-> [k \in Keys |-> IF k \in pending[w] THEN 1 ELSE 0]]
           rows == [w \in Workers |-> Cardinality(pending[w])]
<1>1. pending \in [Workers -> SUBSET Keys]
  BY DEF TypeOK
<1>2. IsFiniteSet(Workers) /\ IsFiniteSet(Keys) /\ IsFiniteSet(Pairs)
  BY FinitePairs
<1>3. \A w \in Workers : rows[w] = SumFunctionOnSet(row[w], Keys)
  <2> SUFFICES ASSUME NEW w \in Workers PROVE Cardinality(pending[w]) = SumFunctionOnSet(row[w], Keys)
    OBVIOUS
  <2>1. pending[w] \in SUBSET Keys /\ \A k \in Keys : row[w][k] = IF k \in pending[w] THEN 1 ELSE 0
    BY <1>1
  <2> HIDE DEF row
  <2> QED BY <1>2, <2>1, SumOfOnes
<1>4. Pending \in SUBSET Pairs /\ \A p \in Pairs : f[p] = IF p \in Pending THEN 1 ELSE 0
  BY DEF Pending
<1>5. \A w \in Workers, k \in Keys : e[w][k] = <<w, k>> /\ e[w][k] \in Pairs
                                     /\ row[w][k] = f[e[w][k]]
  BY DEF Pairs, Pending
<1>6. \A p \in Pairs : \E w \in Workers, k \in Keys : p = e[w][k]
  BY <1>5 DEF Pairs
<1>7. \A v, w \in Workers, j, k \in Keys : e[v][j] = e[w][k] => v = w /\ j = k
  BY <1>5
<1>8. Unknown = SumFunctionOnSet(rows, Workers)
  BY DEF Unknown, SumFunction
<1> HIDE DEF f, e, row, rows
<1>9. \A p \in Pairs : f[p] \in Int
  BY <1>4
<1>10a. RowSums(Pairs, Workers, Keys, e, f, row, rows)
  BY <1>3, <1>5, <1>6, <1>7, <1>9 DEF RowSums
<1>10. SumFunctionOnSet(f, Pairs) = SumFunctionOnSet(rows, Workers)
  BY <1>2, <1>10a, SumByRows
<1>11. SumFunctionOnSet(f, Pairs) = Cardinality(Pending)
  BY <1>2, <1>4, SumOfOnes
<1> QED BY <1>8, <1>10, <1>11

\* The stored values, pair by pair, once every record has been read.
LEMMA StoredSum ==
    ASSUME Booked, \A k \in Keys : SequencesMatch(k) /\ ValueMatches(k)
    PROVE  LET f == [wk \in Pairs |-> IF wk[1] \in Owners(wk[2])
                                      THEN Expected(wk[1], wk[2]) ELSE 0]
           IN  (\A p \in Pairs : f[p] \in Int) /\ Stored = SumFunctionOnSet(f, Pairs)
<1> DEFINE f == [wk \in Pairs |-> IF wk[1] \in Owners(wk[2])
                                  THEN Expected(wk[1], wk[2]) ELSE 0]
           e == [k \in Keys |-> [w \in Workers |-> <<w, k>>]]
           row == [k \in Keys |-> [w \in Workers |-> IF w \in Owners(k) THEN Expected(w, k) ELSE 0]]
           rows == [k \in Keys |-> record[k].value]
<1>1. \A w \in Workers, k \in Keys : Expected(w, k) \in Int
  BY DEF Expected, Booked, TypeOK
<1>2. IsFiniteSet(Workers) /\ IsFiniteSet(Keys) /\ IsFiniteSet(Pairs)
  BY FinitePairs
<1>3. \A k \in Keys : rows[k] = SumFunctionOnSet(row[k], Workers)
  <2> SUFFICES ASSUME NEW k \in Keys PROVE record[k].value = SumFunctionOnSet(row[k], Workers)
    OBVIOUS
  <2> DEFINE g == [w \in Workers |-> Expected(w, k)]
  <2>1. Owners(k) \in SUBSET Workers
    BY DEF Owners
  <2>2. /\ \A w \in Workers : g[w] \in Int
        /\ \A w \in Workers : row[k][w] = IF w \in Owners(k) THEN g[w] ELSE 0
    BY <1>1
  <2>3. record[k].value = SumFunctionOnSet(g, Owners(k))
    BY DEF ValueMatches
  <2> HIDE DEF g, row
  <2> QED BY <1>2, <2>1, <2>2, <2>3, SumWhere
<1>4. \A p \in Pairs : f[p] \in Int
  BY <1>1 DEF Pairs
<1>5. \A k \in Keys, w \in Workers : e[k][w] = <<w, k>> /\ e[k][w] \in Pairs
                                     /\ row[k][w] = f[e[k][w]]
  BY DEF Pairs
<1>6. \A p \in Pairs : \E k \in Keys, w \in Workers : p = e[k][w]
  BY <1>5 DEF Pairs
<1>7. \A j, k \in Keys, v, w \in Workers : e[j][v] = e[k][w] => j = k /\ v = w
  BY <1>5
<1>8. Stored = SumFunctionOnSet(rows, Keys)
  BY DEF Stored, SumFunction
<1> HIDE DEF f, e, row, rows
<1>9a. RowSums(Pairs, Keys, Workers, e, f, row, rows)
  BY <1>3, <1>4, <1>5, <1>6, <1>7 DEF RowSums
<1>9. SumFunctionOnSet(f, Pairs) = SumFunctionOnSet(rows, Keys)
  BY <1>2, <1>9a, SumByRows
<1> QED BY <1>4, <1>8, <1>9 DEF f

\* Whatever the store did while the workers ran, a run that verifies has lost
\* and doubled no acknowledged write, and what it reconciled is stored.
THEOREM AccountsVerified ==
    ASSUME OnlyMergesLate
    PROVE  FaultySpec => []VerifiedAccounts
<1>1. Booked /\ Audited => VerifiedAccounts
  <2> SUFFICES ASSUME Booked, Audited, phase = "verified"
               PROVE  Acknowledged + reconciled <= Stored /\ Stored <= Acknowledged + Unknown
    BY DEF VerifiedAccounts
  <2>t. TypeOK /\ OwnersOnly /\ reconciled \in Nat
    BY DEF Booked, TypeOK
  <2>f. IsFiniteSet(Pairs)
    BY FinitePairs
  <2> DEFINE F == Found(begin)
             f == [wk \in Pairs |-> counts[wk[1]][wk[2]]]
             g == [wk \in Pairs |-> IF wk \in F THEN 1 ELSE 0]
             h == [wk \in Pairs |-> IF wk[1] \in Owners(wk[2])
                                    THEN Expected(wk[1], wk[2]) ELSE 0]
  <2>1. begin = TotalKeys /\ (\A k \in Keys : SequencesMatch(k) /\ ValueMatches(k))
        /\ reconciled <= Cardinality(F)
    BY DEF Audited, Keys
  <2>2. F \in SUBSET Pairs /\ Pending \in SUBSET Pairs
    BY <2>1 DEF Found, Pairs, Keys, Pending
  <2>3. F \subseteq Pending
    BY <2>1 DEF Found, Pending, Pairs, Keys, Recovered
  <2>4. IsFiniteSet(Pending)
    BY <2>2, <2>f, FS_Subset
  <2> HIDE DEF F
  <2>5. /\ Cardinality(F) \in Nat /\ Cardinality(Pending) \in Nat
        /\ Cardinality(F) <= Cardinality(Pending)
    BY <2>3, <2>4, FS_Subset, FS_CardinalityType
  <2>6. \A p \in Pairs : f[p] \in Int /\ g[p] \in Int /\ h[p] = f[p] + g[p]
    <3> SUFFICES ASSUME NEW p \in Pairs
                 PROVE  f[p] \in Int /\ g[p] \in Int /\ h[p] = f[p] + g[p]
      OBVIOUS
    <3>1. PICK w \in Workers, k \in Keys : p = <<w, k>>
      BY DEF Pairs
    <3>2. /\ f[p] = counts[w][k] /\ g[p] = IF p \in F THEN 1 ELSE 0
          /\ h[p] = IF w \in Owners(k) THEN Expected(w, k) ELSE 0
      BY <3>1
    <3>3. counts[w][k] \in Nat
      BY <2>t DEF TypeOK
    <3>4. p \in F <=> w \in Owners(k) /\ Recovered(w, k)
      BY <2>1, <3>1 DEF F, Found, Keys
    <3>5. w \notin Owners(k) => counts[w][k] = 0
      BY <2>t DEF Owners, OwnersOnly
    <3> HIDE DEF f, g, h
    <3> QED BY <3>2, <3>3, <3>4, <3>5 DEF Expected
  <2>7. Acknowledged = SumFunctionOnSet(f, Pairs)
    BY <2>t, AcknowledgedSum
  <2>8. Stored = SumFunctionOnSet(h, Pairs)
    BY <2>1, StoredSum
  <2>9. Unknown = Cardinality(Pending)
    BY <2>t, UnknownSum
  <2>10. \A p \in Pairs : g[p] = IF p \in F THEN 1 ELSE 0
    OBVIOUS
  <2> HIDE DEF f, g, h
  <2>11. SumFunctionOnSet(g, Pairs) = Cardinality(F)
    BY <2>2, <2>f, <2>10, SumOfOnes
  <2>12. SumFunctionOnSet(h, Pairs) = SumFunctionOnSet(f, Pairs) + SumFunctionOnSet(g, Pairs)
    BY <2>f, <2>6, SumPlus
  <2>13. SumFunctionOnSet(f, Pairs) \in Int
    BY <2>f, <2>6, SumFacts
  <2> QED BY <2>t, <2>1, <2>5, <2>7, <2>8, <2>9, <2>11, <2>12, <2>13
<1> QED BY <1>1, Bookkeeping, Auditing, PTL
-----------------------------------------------------------------------------
(* The refinement of ExactlyOnce. *)

\* Storing an operation is a Commit of the abstract counters, or a stutter.
LEMMA StoreCommits ==
    ASSUME IInv, NEW op \in Ops, Store(op), counts' = counts,
           op.key \in Owned(op.writer), op.seq <= counts[op.writer][op.key] + 1,
           workload = "upsert" => op.seq = counts[op.writer][op.key] + 1
    PROVE  \/ Ledger!Commit(op.writer, op.key)
           \/ record' = record
<1> DEFINE w == op.writer
           k == op.key
<1>1. k \in Keys /\ w \in Workers /\ op.seq \in Nat
  BY DEF Ops
<1>2. record \in [Keys -> Docs]
  BY DEF IInv, Booked, TypeOK, Docs
<1>3. \/ record' = record
      \/ /\ op.seq = counts[w][k] + 1 /\ record[k].seen[w] = counts[w][k]
         /\ record' = [record EXCEPT ![k] =
               [value |-> record[k].value + 1,
                seen |-> [record[k].seen EXCEPT ![w] = op.seq]]]
  BY <1>1, StoreCounts DEF IInv, Booked, Counted, Bracketed, Seen
<1> SUFFICES ASSUME /\ op.seq = counts[w][k] + 1 /\ record[k].seen[w] = counts[w][k]
                    /\ record' = [record EXCEPT ![k] =
                          [value |-> record[k].value + 1,
                           seen |-> [record[k].seen EXCEPT ![w] = op.seq]]]
             PROVE  Ledger!Commit(w, k)
  BY <1>3
<1> DEFINE done == [v \in Workers |-> [j \in Keys |-> record[j].seen[v]]]
           next == [v \in Workers |-> [j \in Keys |-> record'[j].seen[v]]]
<1>4. \A v \in Workers, j \in Keys :
         record'[j].seen[v] = IF j = k /\ v = w THEN record[k].seen[w] + 1 ELSE record[j].seen[v]
  <2> SUFFICES ASSUME NEW v \in Workers, NEW j \in Keys
               PROVE  record'[j].seen[v] =
                        IF j = k /\ v = w THEN record[k].seen[w] + 1 ELSE record[j].seen[v]
    OBVIOUS
  <2>1. CASE j # k
    BY <1>1, <1>2, <2>1
  <2>2. CASE j = k
    <3>1. record'[j].seen = [record[k].seen EXCEPT ![w] = op.seq]
      BY <1>1, <1>2, <2>2
    <3>2. record[k].seen \in [Workers -> Nat]
      BY <1>1, <1>2 DEF Docs
    <3> QED BY <1>1, <2>2, <3>1, <3>2
  <2> QED BY <2>1, <2>2
<1>5. next = [done EXCEPT ![w] = [done[w] EXCEPT ![k] = done[w][k] + 1]]
  <2>1. \A v \in Workers : next[v] = [done EXCEPT ![w] = [done[w] EXCEPT ![k] = done[w][k] + 1]][v]
    <3> SUFFICES ASSUME NEW v \in Workers
                 PROVE  [j \in Keys |-> record'[j].seen[v]] =
                          IF v = w THEN [done[w] EXCEPT ![k] = done[w][k] + 1] ELSE done[v]
      OBVIOUS
    <3>1. CASE v = w
      <4>1. \A j \in Keys : record'[j].seen[w] =
                               IF j = k THEN record[k].seen[w] + 1 ELSE record[j].seen[w]
        BY <1>1, <1>4
      <4>2. done[w] = [j \in Keys |-> record[j].seen[w]]
        BY <1>1
      <4> QED BY <1>1, <3>1, <4>1, <4>2
    <3>2. CASE v # w
      BY <1>1, <1>4, <3>2
    <3> QED BY <3>1, <3>2
  <2> QED BY <1>1, <2>1
<1>6. [j \in Keys |-> record'[j].value] =
         [[j \in Keys |-> record[j].value] EXCEPT ![k] = record[k].value + 1]
  BY <1>1, <1>2
<1>7. done[w][k] = counts[w][k] /\ [j \in Keys |-> record[j].value][k] = record[k].value
  BY <1>1
<1> QED BY <1>1, <1>5, <1>6, <1>7 DEF Ledger!Commit

\* An answer is an Acknowledge of the operations it reports as applied.
LEMMA AnswerAcknowledges ==
    ASSUME IInv, NEW w \in Workers, Answer(w)
    PROVE  \E S \in SUBSET Keys : Ledger!Acknowledge(w, S)
<1>1. PICK applied \in SUBSET executed[w] :
        counts' = [counts EXCEPT ![w] =
                     [k \in Keys |-> IF k \in applied THEN @[k] + 1 ELSE @[k]]]
  BY DEF Answer
<1>2. applied \in SUBSET Keys
  BY DEF IInv, Booked, TypeOK
<1>3. record' = record
  BY DEF Answer
<1>4. \A k \in applied : record[k].seen[w] = counts[w][k] + 1
  BY DEF IInv, Counted, ExecutedIsAhead, Seen
<1>5. Ledger!Acknowledge(w, applied)
  BY <1>1, <1>2, <1>3, <1>4 DEF Ledger!Acknowledge
<1> QED BY <1>2, <1>5

\* Retried, duplicated and late merges count exactly once: the load generator
\* and its backend implement the abstract counters.
THEOREM Refinement ==
    ASSUME OnlyMergesLate
    PROVE  Spec => CountsOnce
<1>1. Init => Ledger!Init
  BY DEF Init, Ledger!Init
<1>2. IInv /\ [Next]_vars
        => [Ledger!Next]_<<[w \in Workers |-> [k \in Keys |-> record[k].seen[w]]], counts,
                           [k \in Keys |-> record[k].value]>>
  <2> SUFFICES ASSUME IInv, [Next]_vars
               PROVE  Ledger!Next \/ UNCHANGED <<record, counts>>
    OBVIOUS
  <2>1. ASSUME NEW op \in Ops, Store(op), counts' = counts,
               op.key \in Owned(op.writer), op.seq <= counts[op.writer][op.key] + 1,
               workload = "upsert" => op.seq = counts[op.writer][op.key] + 1
        PROVE  Ledger!Next \/ UNCHANGED <<record, counts>>
    BY <2>1, StoreCommits DEF Ledger!Next, Ops
  <2>2. ASSUME NEW w \in Workers, NEW k \in Keys, Execute(w, k)
        PROVE  Ledger!Next \/ UNCHANGED <<record, counts>>
    <3> DEFINE op == Operation(w, k)
    <3>1. op \in Ops /\ counts[w][k] \in Nat
      BY OperationType DEF IInv, Booked, TypeOK
    <3>2. op.writer = w /\ op.key = k /\ op.seq = counts[w][k] + 1
      BY DEF Operation
    <3>3. Store(op) /\ counts' = counts /\ k \in Owned(w)
      BY <2>2 DEF Execute, IInv, Booked, OwnersOnly
    <3> HIDE DEF op
    <3> QED BY <2>1, <3>1, <3>2, <3>3
  <2>3. ASSUME NEW op \in loose, Straggle(op)
        PROVE  Ledger!Next \/ UNCHANGED <<record, counts>>
    <3>1. /\ op \in Ops /\ op.seq <= counts[op.writer][op.key] + 1
          /\ op.key \in Owned(op.writer)
      BY DEF IInv, Booked, TypeOK, Ops, OwnersOnly, LooseIsPending
    <3>2. workload # "upsert"
      BY <2>3 DEF Straggle, OnlyMergesLate, IInv, Booked, TypeOK
    <3> QED BY <2>1, <2>3, <3>1, <3>2 DEF Straggle, load
  <2>4. ASSUME NEW w \in Workers, Answer(w) PROVE Ledger!Next
    BY <2>4, AnswerAcknowledges DEF Ledger!Next
  <2>5. ASSUME NEW w \in Workers, Issue(w) \/ Browse(w) \/ LoseAnswer(w) \/ Leave(w)
        PROVE  UNCHANGED <<record, counts>>
    BY <2>5 DEF Issue, Browse, LoseAnswer, Leave, load
  <2>7. ASSUME Reconcile \/ Verify \/ UNCHANGED vars PROVE UNCHANGED <<record, counts>>
    BY <2>7 DEF Reconcile, Verify, ReadLess, ReadFails, ReadBatch, Disagree, load, vars
  <2> QED BY <2>2, <2>3, <2>4, <2>5, <2>7 DEF Next
<1>3. Spec => []IInv
  BY Invariance
<1> QED BY <1>1, <1>2, <1>3, PTL DEF Spec, CountsOnce, Ledger!Spec
=============================================================================
