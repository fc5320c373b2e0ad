---------------------------- MODULE PerfRunProofs ----------------------------
(***************************************************************************)
(* A whole run, for every number of workers, records and calls.  The       *)
(* argument: every step of the run is a step of the load generator of      *)
(* PerfLoad or leaves its state alone, so what is proved of PerfLoad holds *)
(* of the run; what the report adds rests on two counts, of the tickets    *)
(* and of the operations of the calls that went well.                      *)
(***************************************************************************)
EXTENDS PerfRun, FiniteSetTheorems, TLAPS

\* The theorems of PerfLoad, about the run's state.
LP == INSTANCE PerfLoadProofs WITH
    calling <- [w \in 0..(Concurrency - 1) |->
                  IF stage[w] = "writing" THEN ToSet(keys[w]) ELSE {}],
    left <- {w \in 0..(Concurrency - 1) : stage[w] = "left"}
-----------------------------------------------------------------------------
(* LP and Load instantiate the same definitions with the same state: what  *)
(* one says of the run the other does too.                                 *)

\* The settings of the run are settings of the load generator.
LEMMA Settings == LP!SettingsAssumption /\ LP!ValidAssumption
BY LoadAssumption DEF Load!SettingsAssumption, Load!ValidAssumption,
   LP!SettingsAssumption, LP!ValidAssumption, LP!PerWorker, Load!PerWorker

\* A set has one cardinality in all three modules.
LEMMA SameCardinality == ASSUME NEW S PROVE LP!Cardinality(S) = Load!Cardinality(S)
BY DEF LP!Cardinality, Load!Cardinality

\* The same, of the run itself.
LEMMA RunCardinality == ASSUME NEW S PROVE Cardinality(S) = Load!Cardinality(S)
BY DEF Cardinality, Load!Cardinality

\* Numbers have one sum in all three modules.
LEMMA SameSumFunction == ASSUME NEW f PROVE LP!SumFunction(f) = Load!SumFunction(f)
BY DEF LP!SumFunction, Load!SumFunction, LP!SumFunctionOnSet, Load!SumFunctionOnSet,
   LP!FoldFunctionOnSet, Load!FoldFunctionOnSet, LP!MapThenFoldSet, Load!MapThenFoldSet

\* The same, of the run itself.
LEMMA RunSumFunction == ASSUME NEW f PROVE SumFunction(f) = Load!SumFunction(f)
BY DEF SumFunction, Load!SumFunction, SumFunctionOnSet, Load!SumFunctionOnSet,
   FoldFunctionOnSet, Load!FoldFunctionOnSet, MapThenFoldSet, Load!MapThenFoldSet

\* The same for a part of a function.
LEMMA SameSumOnSet ==
    ASSUME NEW f, NEW S PROVE LP!SumFunctionOnSet(f, S) = Load!SumFunctionOnSet(f, S)
BY DEF LP!SumFunctionOnSet, Load!SumFunctionOnSet, LP!FoldFunctionOnSet, Load!FoldFunctionOnSet,
   LP!MapThenFoldSet, Load!MapThenFoldSet

\* The same of the run itself.
LEMMA RunSumOnSet ==
    ASSUME NEW f, NEW S PROVE SumFunctionOnSet(f, S) = LP!SumFunctionOnSet(f, S)
BY DEF LP!SumFunctionOnSet, SumFunctionOnSet, LP!FoldFunctionOnSet, FoldFunctionOnSet,
   LP!MapThenFoldSet, MapThenFoldSet

\* Finite is finite.
LEMMA RunFinite == ASSUME NEW S PROVE IsFiniteSet(S) <=> LP!IsFiniteSet(S)
BY DEF IsFiniteSet, LP!IsFiniteSet

\* What PerfLoadProofs shows of numbers and sums holds here as well.
LEMMA LeastNumber ==
    ASSUME NEW T, T \subseteq Nat, T # {}
    PROVE  \E m \in T : \A n \in T : m <= n
BY Settings, LP!LeastNumber

\* Adding up.
LEMMA SumFacts ==
    ASSUME NEW S, IsFiniteSet(S), NEW f, \A x \in S : f[x] \in Int
    PROVE  /\ SumFunctionOnSet(f, {}) = 0
           /\ \A U \in SUBSET S : SumFunctionOnSet(f, U) \in Int
           /\ \A U \in SUBSET S : \A x \in U :
                SumFunctionOnSet(f, U) = f[x] + SumFunctionOnSet(f, U \ {x})
           /\ \A U \in SUBSET S : \A x \in S \ U :
                SumFunctionOnSet(f, U \cup {x}) = f[x] + SumFunctionOnSet(f, U)
BY Settings, LP!SumFacts, RunSumOnSet, RunFinite

\* One summand changes.
LEMMA SumChanges ==
    ASSUME NEW S, IsFiniteSet(S), NEW f, NEW g, NEW x \in S,
           \A y \in S : f[y] \in Int /\ g[y] \in Int /\ (y # x => f[y] = g[y])
    PROVE  SumFunctionOnSet(g, S) = SumFunctionOnSet(f, S) + (g[x] - f[x])
BY Settings, LP!SumChanges, RunSumOnSet, RunFinite

\* Sums are added.
LEMMA SumPlus ==
    ASSUME NEW S, IsFiniteSet(S), NEW f, NEW g, NEW h,
           \A x \in S : f[x] \in Int /\ g[x] \in Int /\ h[x] = f[x] + g[x]
    PROVE  SumFunctionOnSet(h, S) = SumFunctionOnSet(f, S) + SumFunctionOnSet(g, S)
BY Settings, LP!SumPlus, RunSumOnSet, RunFinite

\* Ones are counted.
LEMMA SumOfOnes ==
    ASSUME NEW S, IsFiniteSet(S), NEW f, NEW P \in SUBSET S,
           \A x \in S : f[x] = IF x \in P THEN 1 ELSE 0
    PROVE  SumFunctionOnSet(f, S) = Cardinality(P)
BY Settings, LP!SumOfOnes, RunSumOnSet, RunFinite, RunCardinality, SameCardinality

\* A common factor.
LEMMA SumTimes ==
    ASSUME NEW S, IsFiniteSet(S), NEW f, NEW g, NEW c \in Int,
           \A x \in S : f[x] \in Int /\ g[x] = c * f[x]
    PROVE  SumFunctionOnSet(g, S) = c * SumFunctionOnSet(f, S)
BY Settings, LP!SumTimes, RunSumOnSet, RunFinite

\* The same workers and records.
LEMMA SameSets ==
    /\ LP!Workers = Load!Workers /\ LP!PerWorker = Load!PerWorker
    /\ LP!TotalKeys = Load!TotalKeys /\ LP!Keys = Load!Keys /\ LP!vars = Load!vars
    /\ \A w : LP!First(w) = Load!First(w) /\ LP!Owned(w) = Load!Owned(w)
    /\ \A k : LP!Owners(k) = Load!Owners(k)
BY DEF LP!Workers, Load!Workers, LP!PerWorker, Load!PerWorker, LP!TotalKeys, Load!TotalKeys,
   LP!Keys, Load!Keys, LP!First, Load!First, LP!Owned, Load!Owned, LP!Owners, Load!Owners,
   LP!vars, Load!vars, LP!load, Load!load, LP!run, Load!run, LP!audit, Load!audit

\* The same initial states.
LEMMA SameInit == LP!Init <=> Load!Init
BY DEF LP!Init, Load!Init, LP!Workers, Load!Workers, LP!PerWorker, Load!PerWorker, LP!TotalKeys, Load!TotalKeys,
   LP!Keys, Load!Keys

\* The same accounts.
LEMMA SameSums == LP!VerifiedAccounts <=> Load!VerifiedAccounts
<1>1. LP!Acknowledged = Load!Acknowledged
  BY SameSumFunction DEF LP!Acknowledged, Load!Acknowledged, LP!Workers, Load!Workers
<1>2. LP!Stored = Load!Stored
  BY SameSumFunction DEF LP!Stored, Load!Stored, LP!Keys, Load!Keys, LP!TotalKeys, Load!TotalKeys,
         LP!PerWorker, Load!PerWorker
<1>3. LP!Unknown = Load!Unknown
  BY SameSumFunction, SameCardinality DEF LP!Unknown, Load!Unknown, LP!Workers, Load!Workers
<1> QED BY <1>1, <1>2, <1>3 DEF LP!VerifiedAccounts, Load!VerifiedAccounts

\* The same steps.
LEMMA SameNext == LP!Next <=> Load!Next
<1> USE DEF LP!load, Load!load, LP!run, Load!run, LP!audit, Load!audit, 
         LP!Workers, Load!Workers, LP!PerWorker, Load!PerWorker, LP!TotalKeys, Load!TotalKeys,
         LP!Keys, Load!Keys, LP!First, Load!First
<1>1. ASSUME NEW w PROVE LP!Issue(w) <=> Load!Issue(w)
  BY DEF LP!Issue, Load!Issue, LP!BatchOf, Load!BatchOf, LP!Advanced, Load!Advanced
<1>2. ASSUME NEW w PROVE LP!Browse(w) <=> Load!Browse(w)
  BY DEF LP!Browse, Load!Browse, LP!Advanced, Load!Advanced
<1>3. ASSUME NEW op PROVE LP!Store(op) <=> Load!Store(op)
  BY DEF LP!Store, Load!Store, LP!Written, Load!Written
<1>4. ASSUME NEW w, NEW k PROVE LP!Operation(w, k) = Load!Operation(w, k)
  BY DEF LP!Operation, Load!Operation
<1>5. ASSUME NEW w, NEW k PROVE LP!Execute(w, k) <=> Load!Execute(w, k)
  BY <1>3, <1>4 DEF LP!Execute, Load!Execute
<1>6. ASSUME NEW op PROVE LP!Straggle(op) <=> Load!Straggle(op)
  BY <1>3 DEF LP!Straggle, Load!Straggle
<1>7. ASSUME NEW w PROVE LP!LoseAnswer(w) <=> Load!LoseAnswer(w)
  BY DEF LP!LoseAnswer, Load!LoseAnswer, LP!Operation, Load!Operation
<1>8. ASSUME NEW w PROVE LP!Answer(w) <=> Load!Answer(w)
  BY DEF LP!Answer, Load!Answer, LP!Operation, Load!Operation, LP!Settled, Load!Settled
<1>9. ASSUME NEW w PROVE LP!Leave(w) <=> Load!Leave(w)
  BY DEF LP!Leave, Load!Leave
<1>10. LP!Reconcile <=> Load!Reconcile
  BY DEF LP!Reconcile, Load!Reconcile
<1>11. ASSUME NEW k PROVE (LP!SequencesMatch(k) <=> Load!SequencesMatch(k))
                           /\ (LP!ValueMatches(k) <=> Load!ValueMatches(k))
  <2>1. LP!SequencesMatch(k) <=> Load!SequencesMatch(k)
    BY DEF LP!SequencesMatch, Load!SequencesMatch, LP!Expected, Load!Expected, LP!Recovered,
           Load!Recovered, LP!Owners, Load!Owners, LP!Owned, Load!Owned
  <2>2. LP!ValueMatches(k) <=> Load!ValueMatches(k)
    <3> DEFINE f == [w \in Load!Workers |-> Load!Expected(w, k)]
    <3>1. f = [w \in LP!Workers |-> LP!Expected(w, k)]
      BY DEF LP!Expected, Load!Expected, LP!Recovered, Load!Recovered
    <3>2. LP!Owners(k) = Load!Owners(k)
      BY SameSets
    <3> HIDE DEF f
    <3>3. LP!SumFunctionOnSet(f, LP!Owners(k)) = Load!SumFunctionOnSet(f, Load!Owners(k))
      BY <3>2, SameSumOnSet
    <3>4. LP!ValueMatches(k) <=> record[k].value = LP!SumFunctionOnSet(f, LP!Owners(k))
      BY ONLY <3>1 DEF LP!ValueMatches
    <3>5. Load!ValueMatches(k) <=> record[k].value = Load!SumFunctionOnSet(f, Load!Owners(k))
      BY DEF Load!ValueMatches, f
    <3> QED BY <3>3, <3>4, <3>5
  <2> QED BY <2>1, <2>2
<1>12. LP!Reading = Load!Reading /\ LP!BatchEnd = Load!BatchEnd
  BY DEF LP!Reading, Load!Reading, LP!BatchEnd, Load!BatchEnd, LP!Least, Load!Least
<1>13. LP!ReadLess <=> Load!ReadLess
  BY DEF LP!ReadLess, Load!ReadLess, LP!BatchEnd, Load!BatchEnd, LP!Least, Load!Least
<1>14. LP!ReadFails <=> Load!ReadFails
  BY DEF LP!ReadFails, Load!ReadFails
<1>15. LP!ReadBatch <=> Load!ReadBatch
  <2>1. {wk \in LP!Workers \X LP!Reading : wk[1] \in LP!Owners(wk[2]) /\ LP!Recovered(wk[1], wk[2])}
         = {wk \in Load!Workers \X Load!Reading : wk[1] \in Load!Owners(wk[2]) /\ Load!Recovered(wk[1], wk[2])}
    BY DEF LP!Reading, Load!Reading, LP!BatchEnd, Load!BatchEnd, LP!Least, Load!Least, LP!Recovered,
           Load!Recovered, LP!Owners, Load!Owners, LP!Owned, Load!Owned
  <2> QED BY <1>11, <1>12, <2>1, SameCardinality DEF LP!ReadBatch, Load!ReadBatch
<1>16. ASSUME NEW k PROVE LP!Disagree(k) <=> Load!Disagree(k)
  BY <1>11, <1>12 DEF LP!Disagree, Load!Disagree
<1>17. LP!Verify <=> Load!Verify
  BY <1>13, <1>14, <1>15, <1>16 DEF LP!Verify, Load!Verify
<1> QED BY <1>1, <1>2, <1>5, <1>6, <1>7, <1>8, <1>9, <1>10, <1>17 DEF LP!Next, Load!Next

\* The same damage.
LEMMA SameCorrupt == ASSUME NEW k PROVE LP!Corrupt(k) <=> Load!Corrupt(k)
BY DEF LP!Corrupt, Load!Corrupt, LP!load, Load!load, LP!run, Load!run, LP!audit, Load!audit, 
         LP!Workers, Load!Workers
-----------------------------------------------------------------------------
(* Types, and what a worker knows of its call.                             *)

Results == [index : 1..Batch, status : Statuses]

RunTypeOK ==
    /\ stage \in [Workers -> {"loop", "waiting", "writing", "reading", "left"}]
    /\ tickets \in Nat /\ rpcs \in [Workers -> Nat]
    /\ keys \in [Workers -> Seq(Load!Keys)] /\ results \in [Workers -> Seq(Results)]
    /\ erred \subseteq Workers
    /\ ended \in {"no", "deadline", "interrupted"} /\ damaged \in BOOLEAN
    /\ position \in [Workers -> 0..(Load!PerWorker - 1)]
    /\ executed \in [Workers -> SUBSET Load!Keys]

\* A call names different records, all of them the worker's; an operation has
\* one result, which is true.
InCall(w) ==
    /\ stage[w] \in {"writing", "reading"} =>
         /\ keys[w] \in [1..Batch -> Load!Owned(w)]
         /\ \A i, j \in 1..Batch : keys[w][i] = keys[w][j] => i = j
    /\ stage[w] = "writing" => ~IsRead(rpcs[w])
    /\ stage[w] = "reading" => IsRead(rpcs[w])
    /\ stage[w] # "writing" => results[w] = <<>>
    /\ \A i, j \in 1..Len(results[w]) :
         results[w][i].index = results[w][j].index => i = j
    /\ \A i \in 1..Len(results[w]) :
         /\ results[w][i].status = "applied" => keys[w][results[w][i].index] \in executed[w]
         /\ results[w][i].status = "refused" => keys[w][results[w][i].index] \notin executed[w]

RunInv == RunTypeOK /\ \A w \in Workers : InCall(w)

\* The partitions of the run are those of the load generator.
LEMMA RunSizes ==
    /\ Load!PerWorker \in Nat \ {0} /\ Batch \in Nat \ {0} /\ Batch <= Load!PerWorker
    /\ Workers = 0..(Concurrency - 1) /\ Concurrency \in Nat \ {0} /\ IsFiniteSet(Workers)
    /\ \A w \in Workers : Load!First(w) \in Nat /\ Load!Owned(w) \subseteq Load!Keys
<1>1. LP!PerWorker \in Nat \ {0}
      /\ \A w \in LP!Workers : LP!First(w) \in Nat /\ LP!Owned(w) \subseteq LP!Keys
  BY Settings, LP!Sizes
<1>2. Workers = 0..(Concurrency - 1) /\ Concurrency \in Nat \ {0} /\ Batch \in Nat \ {0}
      /\ Batch <= Load!PerWorker
  BY LoadAssumption DEF Workers, Load!Workers, Load!SettingsAssumption, Load!ValidAssumption
<1>3. IsFiniteSet(Workers)
  BY <1>2, FS_Interval
<1> QED BY <1>1, <1>2, <1>3, SameSets DEF Workers

\* A number below twice the divisor.
LEMMA Wraps ==
    ASSUME NEW n \in Nat \ {0}, NEW x \in 0..(n + n - 1)
    PROVE  x % n = IF x < n THEN x ELSE x - n
OBVIOUS

\* The records of the next call: the load generator's batch, each once.
LEMMA NextKeys ==
    ASSUME NEW w \in Workers, position[w] \in 0..(Load!PerWorker - 1)
    PROVE  LET call == [i \in 1..Batch |->
                          Load!First(w) + ((position[w] + i - 1) % Load!PerWorker)]
           IN  /\ call \in [1..Batch -> Load!Owned(w)] /\ call \in Seq(Load!Keys)
               /\ ToSet(call) = Load!BatchOf(w)
               /\ \A i, j \in 1..Batch : call[i] = call[j] => i = j
               /\ Load!Advanced(w) \in 0..(Load!PerWorker - 1)
<1> DEFINE P == Load!PerWorker
           first == Load!First(w)
           call == [i \in 1..Batch |-> first + ((position[w] + i - 1) % P)]
<1>1. P \in Nat \ {0} /\ Batch \in Nat \ {0} /\ Batch <= P /\ first \in Nat
      /\ Load!Owned(w) \subseteq Load!Keys
  BY RunSizes
<1>2. Load!Owned(w) = first..(first + P - 1)
  BY DEF Load!Owned
<1>3. position[w] \in 0..(P - 1)
  OBVIOUS
<1>4. Load!BatchOf(w) = {first + ((position[w] + i) % P) : i \in 0..(Batch - 1)}
      /\ Load!Advanced(w) = (position[w] + Batch) % P
  BY DEF Load!BatchOf, Load!Advanced
<1> HIDE DEF P, first
<1>5. \A i \in 1..Batch : LET x == position[w] + i - 1 IN
        x \in 0..(P + P - 1) /\ x % P = IF x < P THEN x ELSE x - P
  <2> SUFFICES ASSUME NEW i \in 1..Batch
               PROVE  LET x == position[w] + i - 1 IN
                      x \in 0..(P + P - 1) /\ x % P = IF x < P THEN x ELSE x - P
    OBVIOUS
  <2> DEFINE x == position[w] + i - 1
  <2>1. x \in 0..(P + P - 1)
    BY <1>1, <1>3
  <2> HIDE DEF x
  <2>2. x % P = IF x < P THEN x ELSE x - P
    BY <1>1, <2>1, Wraps
  <2> QED BY <2>1, <2>2 DEF x
<1>6. \A i \in 1..Batch : call[i] \in first..(first + P - 1)
  BY <1>1, <1>3, <1>5
<1>7. \A i, j \in 1..Batch : call[i] = call[j] => i = j
  BY <1>1, <1>3, <1>5
<1>8. ToSet(call) = Load!BatchOf(w)
  <2>1. ToSet(call) = {call[i] : i \in 1..Batch}
    BY DEF ToSet
  <2>2. ASSUME NEW i \in 1..Batch PROVE call[i] \in Load!BatchOf(w)
    <3>1. i - 1 \in 0..(Batch - 1) /\ call[i] = first + ((position[w] + (i - 1)) % P)
      BY <1>1, <1>3
    <3> QED BY <3>1, <1>4
  <2>3. ASSUME NEW i \in 0..(Batch - 1)
        PROVE  first + ((position[w] + i) % P) \in {call[j] : j \in 1..Batch}
    <3>1. i + 1 \in 1..Batch /\ call[i + 1] = first + ((position[w] + i) % P)
      BY <1>1, <1>3
    <3> QED BY <3>1
  <2> QED BY <1>4, <2>1, <2>2, <2>3
<1>9. Load!Advanced(w) \in 0..(P - 1)
  BY <1>1, <1>3, <1>4
<1>10. call \in [1..Batch -> Load!Owned(w)] /\ call \in Seq(Load!Keys)
  BY <1>1, <1>2, <1>6
<1> QED BY <1>7, <1>8, <1>9, <1>10 DEF P, first

\* Increasing numbers from 1 to n, n of them, are 1 to n.
LEMMA Increasing ==
    ASSUME NEW n \in Nat, NEW p \in [1..n -> 1..n], \A i, j \in 1..n : i < j => p[i] < p[j]
    PROVE  \A i \in 1..n : p[i] = i
<1>1. \A i \in 1..n : p[i] \in 1..n
  OBVIOUS
<1>2. \A i \in 1..n : p[i] >= i
  <2> DEFINE T == {i \in 1..n : p[i] < i}
  <2> SUFFICES ASSUME T # {} PROVE FALSE
    BY <1>1
  <2>1. T \subseteq Nat
    OBVIOUS
  <2>2. PICK m \in T : \A i \in T : m <= i
    BY <2>1, LeastNumber
  <2>3. m \in 1..n /\ p[m] < m /\ p[m] \in 1..n
    BY <1>1
  <2>4. p[p[m]] < p[m] /\ p[m] \in T
    BY <1>1, <2>3
  <2> HIDE DEF T
  <2>5. m <= p[m]
    BY <2>2, <2>4
  <2> QED BY <2>3, <2>5
<1>3. \A i \in 1..n : p[i] <= i
  <2> DEFINE T == {k \in 0..n : \E i \in 1..n : i + k = n /\ p[i] > i}
  <2> SUFFICES ASSUME T # {} PROVE FALSE
    <3> SUFFICES ASSUME NEW i \in 1..n, p[i] > i PROVE T # {}
      BY <1>1
    <3>1. n - i \in 0..n /\ i + (n - i) = n
      OBVIOUS
    <3> QED BY <3>1
  <2>1. T \subseteq Nat
    OBVIOUS
  <2>2. PICK m \in T : \A k \in T : m <= k
    BY <2>1, LeastNumber
  <2>3. PICK i \in 1..n : i + m = n /\ p[i] > i
    OBVIOUS
  <2> DEFINE q == p[i]
             k == n - q
  <2>4. q \in 1..n /\ q > i /\ p[q] > q
    BY <1>1, <2>3
  <2>5. m \in Nat
    BY <2>1
  <2> HIDE DEF q
  <2>6. k \in 0..n /\ q + k = n /\ k < m
    BY <2>3, <2>4, <2>5
  <2>7. k \in T
    BY <2>4, <2>6
  <2> HIDE DEF T, k
  <2>8. m <= k
    BY <2>2, <2>7
  <2> QED BY <2>5, <2>6, <2>8
<1>4. \A i \in 1..n : i \in Int /\ p[i] \in Int
  BY <1>1
<1> QED BY <1>2, <1>3, <1>4

\* Results that stand for different operations can be put in order: as many of
\* them as there are operations are one for each.
LEMMA SortedResults ==
    ASSUME NEW s \in Seq(Results), Len(s) = Batch,
           \A i, j \in 1..Len(s) : s[i].index = s[j].index => i = j
    PROVE  /\ \A i \in 1..Batch : Sorted(s)[i] \in ToSet(s) /\ Sorted(s)[i].index = i
<1> DEFINE n == Batch
           index == [i \in 1..n |-> s[i].index]
           sorted(answer) == /\ ToSet(answer) = ToSet(s)
                             /\ \A i, j \in DOMAIN s : i < j => answer[i].index < answer[j].index
<1>1. n \in Nat \ {0} /\ DOMAIN s = 1..n /\ \A i \in 1..n : s[i] \in Results
  BY RunSizes
<1>2. ToSet(s) = {s[i] : i \in 1..n}
  BY <1>1 DEF ToSet
<1>3. index \in Injection(1..n, 1..n)
  BY <1>1 DEF Injection, Results, IsInjective
<1>4. \A i \in 1..n : \E j \in 1..n : s[j].index = i
  <2>1. IsFiniteSet(1..n) /\ Cardinality(1..n) = n
    BY <1>1, FS_Interval
  <2>2. index \in Surjection(1..n, 1..n)
    BY <1>3, <2>1, FS_Injection
  <2> QED BY <2>2 DEF Surjection
<1>5. PICK of \in [1..n -> 1..n] : \A i \in 1..n : s[of[i]].index = i
  <2> DEFINE f == [i \in 1..n |-> CHOOSE j \in 1..n : s[j].index = i]
  <2>1. f \in [1..n -> 1..n] /\ \A i \in 1..n : s[f[i]].index = i
    BY <1>4
  <2> QED BY <2>1
<1>6. \E answer \in [DOMAIN s -> ToSet(s)] : sorted(answer)
  <2> DEFINE answer == [i \in 1..n |-> s[of[i]]]
  <2>1. answer \in [DOMAIN s -> ToSet(s)]
    BY <1>1, <1>2, <1>5
  <2>2. \A i \in 1..n : answer[s[i].index] = s[i] /\ s[i].index \in 1..n
    BY <1>1, <1>5 DEF Results
  <2>3. ToSet(answer) = {answer[i] : i \in 1..n}
    BY DEF ToSet
  <2>4. ToSet(answer) = ToSet(s)
    <3> DEFINE A == {answer[j] : j \in 1..n}
               B == {s[j] : j \in 1..n}
    <3>1. ASSUME NEW x \in B PROVE x \in A
      <4>1. PICK i \in 1..n : x = s[i]
        OBVIOUS
      <4> DEFINE j == s[i].index
      <4>2. j \in 1..n /\ answer[j] = x
        BY <2>2, <4>1
      <4> HIDE DEF answer, j, n, B
      <4> QED BY <4>2
    <3>2. ASSUME NEW x \in A PROVE x \in B
      BY <1>5
    <3>3. ToSet(answer) = A /\ ToSet(s) = B
      BY <1>2, <2>3
    <3> HIDE DEF answer, A, B
    <3> QED BY <3>1, <3>2, <3>3
  <2>5. \A i, j \in DOMAIN s : i < j => answer[i].index < answer[j].index
    BY <1>1, <1>5
  <2> QED BY <2>1, <2>4, <2>5
<1> DEFINE a == Sorted(s)
<1>7. a \in [1..n -> ToSet(s)] /\ sorted(a)
  BY <1>1, <1>6 DEF Sorted
<1> HIDE DEF a, index
<1>8. \A i \in 1..n : a[i] \in ToSet(s) /\ a[i].index \in 1..n
  <2>1. ToSet(s) \subseteq Results
    BY <1>1, <1>2
  <2>2. \A i \in 1..n : a[i] \in ToSet(s)
    BY <1>7
  <2> QED BY <2>1, <2>2 DEF Results
<1>9. \A i, j \in 1..n : i < j => a[i].index < a[j].index
  BY <1>1, <1>7
<1>10. \A i \in 1..n : a[i].index = i
  <2> DEFINE p == [i \in 1..n |-> a[i].index]
  <2>1. p \in [1..n -> 1..n] /\ \A i \in 1..n : p[i] = a[i].index
    BY <1>8
  <2>2. \A i, j \in 1..n : i < j => p[i] < p[j]
    BY <1>9
  <2> HIDE DEF p
  <2>3. \A i \in 1..n : p[i] = i
    BY <1>1, <2>1, <2>2, Increasing
  <2> QED BY <2>1, <2>3
<1> QED BY <1>8, <1>10 DEF a

\* What a worker knows of its call depends on its own state only.
LEMMA SameCall ==
    ASSUME NEW w \in Workers, InCall(w), workload' = workload,
           stage'[w] = stage[w], keys'[w] = keys[w], results'[w] = results[w],
           rpcs'[w] = rpcs[w], executed'[w] = executed[w]
    PROVE  InCall(w)'
BY DEF InCall, IsRead

\* A worker that is not in a call has nothing to know.
LEMMA NoCall ==
    ASSUME NEW w \in Workers, stage'[w] \in {"loop", "waiting", "left"}, results'[w] = <<>>
    PROVE  InCall(w)'
<1>1. Len(results'[w]) = 0 /\ 1..0 = {}
  OBVIOUS
<1> QED BY <1>1 DEF InCall

\* The invariant holds before the first call.
LEMMA InitRuns == ASSUME Init PROVE RunInv
<1>1. Load!PerWorker \in Nat \ {0} /\ Workers = Load!Workers
  BY RunSizes DEF Workers
<1>2. RunTypeOK
  <2>1. position = [v \in Workers |-> 0] /\ executed = [v \in Workers |-> {}]
    BY <1>1 DEF Init, Load!Init
  <2>2. 0 \in 0..(Load!PerWorker - 1) /\ <<>> \in Seq(Load!Keys) /\ <<>> \in Seq(Results)
    BY <1>1
  <2>3. /\ stage = [w \in Workers |-> "loop"] /\ keys = [w \in Workers |-> <<>>]
        /\ results = [w \in Workers |-> <<>>] /\ rpcs = [w \in Workers |-> 0]
        /\ tickets = 0 /\ erred = {} /\ ended = "no" /\ damaged = FALSE
    BY DEF Init
  <2> QED BY <2>1, <2>2, <2>3 DEF RunTypeOK
<1>3. ASSUME NEW w \in Workers PROVE InCall(w)
  <2>1. stage[w] = "loop" /\ results[w] = <<>> /\ Len(<<>>) = 0
    BY DEF Init
  <2> QED BY <2>1 DEF InCall
<1> QED BY <1>2, <1>3 DEF RunInv

\* A call that is over leaves its worker at the head of its loop.
LEMMA FinishRuns ==
    ASSUME RunInv, NEW w \in Workers, NEW success \in BOOLEAN, Finish(w, success),
           executed' \in [Workers -> SUBSET Load!Keys],
           \A v \in Workers \ {w} : executed'[v] = executed[v]
    PROVE  RunInv'
<1>1. /\ stage' = [stage EXCEPT ![w] = "loop"]
      /\ keys' = [keys EXCEPT ![w] = <<>>] /\ results' = [results EXCEPT ![w] = <<>>]
      /\ rpcs' = [rpcs EXCEPT ![w] = @ + 1] /\ erred' \subseteq erred \cup {w}
      /\ workload' = workload /\ tickets' = tickets /\ ended' = ended
      /\ damaged' = damaged /\ position' = position
  BY DEF Finish, audit, prepared, environment
<1>2. RunTypeOK /\ \A v \in Workers : InCall(v)
  BY DEF RunInv
<1>3. RunTypeOK'
  BY <1>1, <1>2 DEF RunTypeOK
<1>4. ASSUME NEW v \in Workers PROVE InCall(v)'
  <2>1. CASE v = w
    <3>1. stage'[w] = "loop" /\ results'[w] = <<>>
      BY <1>1, <1>2 DEF RunTypeOK
    <3> QED BY <2>1, <3>1, NoCall
  <2>2. CASE v # w
    <3>1. stage'[v] = stage[v] /\ keys'[v] = keys[v] /\ results'[v] = results[v]
          /\ rpcs'[v] = rpcs[v] /\ executed'[v] = executed[v]
      BY <1>1, <1>2, <2>2 DEF RunTypeOK
    <3> QED BY <1>1, <1>2, <3>1, SameCall
  <2> QED BY <2>1, <2>2
<1> QED BY <1>3, <1>4 DEF RunInv

\* A call names its records.
LEMMA CallRuns ==
    ASSUME RunInv, NEW w \in Workers, Call(w)
    PROVE  RunInv'
<1> DEFINE call == [i \in 1..Batch |->
                      Load!First(w) + ((position[w] + i - 1) % Load!PerWorker)]
<1>1. /\ stage[w] = "waiting"
      /\ stage' = [stage EXCEPT ![w] = IF IsRead(rpcs[w]) THEN "reading" ELSE "writing"]
      /\ keys' = [keys EXCEPT ![w] = call]
      /\ position' = [position EXCEPT ![w] = Load!Advanced(w)]
      /\ UNCHANGED <<executed, workload, tickets, results, rpcs, erred, ended, damaged>>
  BY DEF Call, Move, store, environment
<1>2. RunTypeOK /\ \A v \in Workers : InCall(v)
  BY DEF RunInv
<1>3. /\ call \in [1..Batch -> Load!Owned(w)] /\ call \in Seq(Load!Keys)
      /\ \A i, j \in 1..Batch : call[i] = call[j] => i = j
      /\ Load!Advanced(w) \in 0..(Load!PerWorker - 1)
  <2>1. position[w] \in 0..(Load!PerWorker - 1)
    BY <1>2 DEF RunTypeOK
  <2> QED BY <2>1, NextKeys
<1> HIDE DEF call
<1>4. RunTypeOK'
  BY <1>1, <1>2, <1>3 DEF RunTypeOK
<1>5. ASSUME NEW v \in Workers PROVE InCall(v)'
  <2>1. CASE v = w
    <3>1. stage'[w] = (IF IsRead(rpcs[w]) THEN "reading" ELSE "writing") /\ keys'[w] = call
          /\ results'[w] = <<>> /\ rpcs'[w] = rpcs[w] /\ workload' = workload
      BY <1>1, <1>2 DEF RunTypeOK, InCall
    <3>2. Len(results'[w]) = 0 /\ IsRead(rpcs[w])' = IsRead(rpcs[w])
      BY <3>1 DEF IsRead
    <3> QED BY <1>3, <2>1, <3>1, <3>2 DEF InCall
  <2>2. CASE v # w
    <3>1. stage'[v] = stage[v] /\ keys'[v] = keys[v] /\ results'[v] = results[v]
          /\ rpcs'[v] = rpcs[v] /\ executed'[v] = executed[v]
      BY <1>1, <1>2, <2>2 DEF RunTypeOK
    <3> QED BY <1>1, <1>2, <3>1, SameCall
  <2> QED BY <2>1, <2>2
<1> QED BY <1>4, <1>5 DEF RunInv

\* A result that arrives is true and is the first of its operation.
LEMMA ReceiveRuns ==
    ASSUME RunInv, NEW w \in Workers, Receive(w)
    PROVE  RunInv'
<1>1. PICK i \in (1..Batch) \ Received(w), status \in Statuses :
          /\ status = "applied" => keys[w][i] \in executed[w]
          /\ status = "refused" => keys[w][i] \notin executed[w]
          /\ results' = [results EXCEPT ![w] = Append(@, [index |-> i, status |-> status])]
  BY DEF Receive
<1>2. /\ stage[w] = "writing"
      /\ UNCHANGED <<executed, workload, tickets, stage, keys, rpcs, erred, ended, damaged, position>>
  BY DEF Receive, store, ledger, environment
<1>3. RunTypeOK /\ \A v \in Workers : InCall(v)
  BY DEF RunInv
<1> DEFINE r == [index |-> i, status |-> status]
           n == Len(results[w])
<1>4. r \in Results /\ results[w] \in Seq(Results) /\ results'[w] = Append(results[w], r)
  BY <1>1, <1>3 DEF Results, RunTypeOK
<1>5. RunTypeOK'
  <2>1. results' = [results EXCEPT ![w] = Append(results[w], r)]
        /\ Append(results[w], r) \in Seq(Results)
    BY <1>1, <1>4
  <2> HIDE DEF r
  <2> QED BY <1>2, <1>3, <2>1 DEF RunTypeOK
<1>6. InCall(w)'
  <2>1. n \in Nat /\ Len(results'[w]) = n + 1 /\ results'[w][n + 1] = r
        /\ \A j \in 1..n : results'[w][j] = results[w][j]
    BY <1>4
  <2>2. \A j \in 1..n : results[w][j].index # i
    <3>1. \A j \in 1..n : results[w][j] \in ToSet(results[w])
      BY <1>4 DEF ToSet
    <3> QED BY <1>1, <3>1 DEF Received
  <2>3. \A j \in 1..(n + 1) : j = n + 1 \/ j \in 1..n
    BY <2>1
  <2>4. \A j, k \in 1..Len(results'[w]) : results'[w][j].index = results'[w][k].index => j = k
    <3>1. \A j, k \in 1..n : results'[w][j].index = results'[w][k].index => j = k
      BY <1>3, <2>1 DEF InCall
    <3>2. results'[w][n + 1].index = i /\ \A j \in 1..n : results'[w][j].index # i
      BY <2>1, <2>2
    <3> HIDE DEF n, r
    <3> QED BY <2>1, <2>3, <3>1, <3>2
  <2>5. \A j \in 1..Len(results'[w]) :
          /\ results'[w][j].status = "applied" => keys[w][results'[w][j].index] \in executed[w]
          /\ results'[w][j].status = "refused" => keys[w][results'[w][j].index] \notin executed[w]
    BY <1>1, <1>3, <2>1, <2>3 DEF InCall
  <2> HIDE DEF r, n
  <2>6. IsRead(rpcs[w])' = IsRead(rpcs[w])
    BY <1>2 DEF IsRead
  <2> QED BY <1>2, <1>3, <2>4, <2>5, <2>6 DEF InCall
<1>7. ASSUME NEW v \in Workers, v # w PROVE InCall(v)'
  <2>1. results'[v] = results[v]
    BY <1>1, <1>3, <1>7 DEF RunTypeOK
  <2> QED BY <1>2, <1>3, <2>1, SameCall
<1> QED BY <1>5, <1>6, <1>7 DEF RunInv

\* An operation that takes effect makes no result false.
LEMMA ExecuteRuns ==
    ASSUME RunInv, NEW w \in Workers, NEW k \in Load!Keys, Execute(w, k)
    PROVE  RunInv'
<1>1. /\ executed' = [executed EXCEPT ![w] = @ \cup {k}]
      /\ UNCHANGED <<workload, tickets, stage, keys, results, rpcs, erred, ended, damaged, position>>
  BY DEF Execute, Load!Execute, ledger, calls, environment
<1>2. RunTypeOK /\ \A v \in Workers : InCall(v)
  BY DEF RunInv
<1>3. RunTypeOK'
  BY <1>1, <1>2 DEF RunTypeOK
<1>4. InCall(w)'
  <2>1. executed'[w] = executed[w] \cup {k} /\ results[w] \in Seq(Results)
    BY <1>1, <1>2 DEF RunTypeOK
  <2>2. \A i \in 1..Len(results[w]) :
          results[w][i].status = "refused" => keys[w][results[w][i].index] # k
    BY <2>1 DEF Execute, ToSet, KeyOf
  <2>3. IsRead(rpcs[w])' = IsRead(rpcs[w])
    BY <1>1 DEF IsRead
  <2> QED BY <1>1, <1>2, <2>1, <2>2, <2>3 DEF InCall
<1>5. ASSUME NEW v \in Workers, v # w PROVE InCall(v)'
  <2>1. executed'[v] = executed[v]
    BY <1>1, <1>2, <1>5 DEF RunTypeOK
  <2> QED BY <1>1, <1>2, <2>1, SameCall
<1> QED BY <1>3, <1>4, <1>5 DEF RunInv

\* Every step of the run keeps the invariant.
LEMMA StepRuns ==
    ASSUME RunInv, [Next]_vars
    PROVE  RunInv'
<1>0. RunTypeOK /\ \A v \in Workers : InCall(v)
  BY DEF RunInv
<1>1. ASSUME UNCHANGED <<ledger, executed, stage, keys, results, rpcs, erred>>,
             tickets' \in Nat, ended' \in {"no", "deadline", "interrupted"}, damaged' \in BOOLEAN
      PROVE  RunInv'
  <2>1. RunTypeOK'
    BY <1>0, <1>1 DEF RunTypeOK, ledger
  <2>2. \A v \in Workers : InCall(v)'
    BY <1>0, <1>1, SameCall DEF ledger
  <2> QED BY <2>1, <2>2 DEF RunInv
<1>2. ASSUME NEW w \in Workers, NEW to \in {"loop", "waiting", "left"},
             stage[w] \in {"loop", "waiting"}, stage' = [stage EXCEPT ![w] = to],
             UNCHANGED <<store, ledger, keys, results, rpcs, erred, environment>>, tickets' \in Nat
      PROVE  RunInv'
  <2>1. RunTypeOK'
    BY <1>0, <1>2 DEF RunTypeOK, store, ledger, environment
  <2>2. ASSUME NEW v \in Workers PROVE InCall(v)'
    <3>1. CASE v = w
      BY <1>0, <1>2, <3>1, NoCall DEF RunTypeOK, InCall
    <3>2. CASE v # w
      BY <1>0, <1>2, <3>2, SameCall DEF RunTypeOK, store, ledger
    <3> QED BY <3>1, <3>2
  <2> QED BY <2>1, <2>2 DEF RunInv
<1>3. CASE Prepare
  BY <1>0, <1>1, <1>3 DEF Prepare, Seed, Warm, SetupFails, store, calls, environment, RunTypeOK
<1>4. CASE Deadline
  BY <1>0, <1>1, <1>4 DEF Deadline, store, calls, RunTypeOK
<1>5. CASE Interrupt
  BY <1>0, <1>1, <1>5 DEF Interrupt, store, calls, RunTypeOK
<1>6. CASE Conclude
  BY <1>0, <1>1, <1>6 DEF Conclude, store, calls, environment, RunTypeOK
<1>7. CASE \E k \in Load!Keys : Damage(k)
  BY <1>0, <1>1, <1>7 DEF Damage, Load!Corrupt, Load!load, calls, RunTypeOK
<1>8. ASSUME NEW w \in Workers, Claim(w) PROVE RunInv'
  <2> DEFINE to == IF tickets < Tickets THEN "waiting" ELSE "left"
  <2>1. to \in {"loop", "waiting", "left"} /\ tickets + 1 \in Nat
    BY <1>0 DEF RunTypeOK
  <2>2. stage[w] = "loop" /\ stage' = [stage EXCEPT ![w] = to] /\ tickets' = tickets + 1
        /\ UNCHANGED <<store, ledger, keys, results, rpcs, erred, environment>>
    BY <1>8 DEF Claim, Move
  <2> HIDE DEF to
  <2> QED BY <1>2, <2>1, <2>2
<1>9. ASSUME NEW w \in Workers, Leave(w) PROVE RunInv'
  BY <1>0, <1>2, <1>9 DEF Leave, Move, RunTypeOK
<1>10. ASSUME NEW w \in Workers, ReadReturns(w) PROVE RunInv'
  BY <1>0, <1>10, FinishRuns DEF ReadReturns, RunTypeOK
<1>11. ASSUME NEW w \in Workers, Account(w) \/ LoseAnswer(w) PROVE RunInv'
  <2>1. executed' = [executed EXCEPT ![w] = {}]
    BY <1>11 DEF Account, LoseAnswer
  <2>2. \E success \in BOOLEAN : Finish(w, success)
    <3>1. CASE Account(w)
      BY <3>1 DEF Account
    <3>2. CASE LoseAnswer(w)
      BY <3>2 DEF LoseAnswer
    <3> QED BY <1>11, <3>1, <3>2
  <2> QED BY <1>0, <2>1, <2>2, FinishRuns DEF RunTypeOK
<1>12. CASE UNCHANGED vars
  BY <1>0, <1>1, <1>12 DEF vars, store, calls, environment, RunTypeOK
<1> QED
  BY <1>3, <1>4, <1>5, <1>6, <1>7, <1>8, <1>9, <1>10, <1>11, <1>12,
     CallRuns, ReceiveRuns, ExecuteRuns DEF Next

\* The invariant of the run.
LEMMA Runs == Spec => []RunInv
BY InitRuns, StepRuns, PTL DEF Spec
-----------------------------------------------------------------------------
(* Every step of the run is one of the load generator's, or none.          *)

CallingNow ==
    [w \in 0..(Concurrency - 1) |-> IF stage[w] = "writing" THEN ToSet(keys[w]) ELSE {}]
LeftNow == {w \in 0..(Concurrency - 1) : stage[w] = "left"}

\* A worker's step, as the load generator sees it.
LEMMA Moved ==
    ASSUME NEW w \in Workers,
           \A v \in Workers \ {w} : stage'[v] = stage[v] /\ keys'[v] = keys[v]
    PROVE  /\ CallingNow' = [CallingNow EXCEPT ![w] =
                               IF stage'[w] = "writing" THEN ToSet(keys'[w]) ELSE {}]
           /\ LeftNow' = IF stage'[w] = "left" THEN LeftNow \cup {w} ELSE LeftNow \ {w}
BY RunSizes DEF CallingNow, LeftNow

\* What the load generator sees of a worker before its step.
LEMMA At ==
    ASSUME NEW w \in Workers
    PROVE  /\ CallingNow[w] = IF stage[w] = "writing" THEN ToSet(keys[w]) ELSE {}
           /\ w \in LeftNow <=> stage[w] = "left"
           /\ DOMAIN CallingNow = Workers
BY RunSizes DEF CallingNow, LeftNow

\* Making a call is issuing a batch, or browsing.
LEMMA CallIssues ==
    ASSUME RunInv, NEW w \in Workers, Call(w)
    PROVE  Load!Issue(w) \/ Load!Browse(w)
<1> DEFINE call == [i \in 1..Batch |->
                      Load!First(w) + ((position[w] + i - 1) % Load!PerWorker)]
           to == IF IsRead(rpcs[w]) THEN "reading" ELSE "writing"
<1>1. /\ stage[w] = "waiting" /\ stage' = [stage EXCEPT ![w] = to]
      /\ keys' = [keys EXCEPT ![w] = call]
      /\ \A i \in 1..Batch : counts[w][keys'[w][i]] < MaxSeq
      /\ position' = [position EXCEPT ![w] = Load!Advanced(w)]
      /\ UNCHANGED <<record, loose, executed, counts, pending, workload, audit>>
  BY DEF Call, Move, store
<1>2. RunTypeOK
  BY DEF RunInv
<1>3. ToSet(call) = Load!BatchOf(w)
  BY <1>2, NextKeys DEF RunTypeOK
<1>4. ToSet(call) = {call[i] : i \in 1..Batch}
  BY DEF ToSet
<1> HIDE DEF call
<1>5. stage'[w] = to /\ keys'[w] = call
      /\ \A v \in Workers \ {w} : stage'[v] = stage[v] /\ keys'[v] = keys[v]
  BY <1>1, <1>2 DEF RunTypeOK
<1>6. /\ CallingNow' = [CallingNow EXCEPT ![w] = IF to = "writing" THEN ToSet(call) ELSE {}]
      /\ LeftNow' = LeftNow \ {w}
  <2>1. to # "left"
    OBVIOUS
  <2> HIDE DEF to
  <2> QED BY <1>5, <2>1, Moved
<1>7. CallingNow[w] = {} /\ w \notin LeftNow /\ DOMAIN CallingNow = Workers
      /\ CallingNow = [v \in Workers |-> CallingNow[v]]
  BY <1>1, At, RunSizes DEF CallingNow
<1>8. CASE IsRead(rpcs[w])
  <2>1. CallingNow' = CallingNow /\ LeftNow' = LeftNow
    BY <1>6, <1>7, <1>8
  <2> QED BY <1>1, <1>7, <2>1
        DEF Load!Browse, Load!run, Load!audit, audit, CallingNow, LeftNow
<1>9. CASE ~IsRead(rpcs[w])
  <2>1. CallingNow' = [CallingNow EXCEPT ![w] = Load!BatchOf(w)] /\ LeftNow' = LeftNow
    BY <1>3, <1>6, <1>7, <1>9
  <2>2. \A k \in Load!BatchOf(w) : counts[w][k] < MaxSeq
    BY <1>1, <1>3, <1>4, <1>5
  <2> QED BY <1>1, <1>7, <2>1, <2>2
        DEF Load!Issue, Load!run, Load!audit, audit, CallingNow, LeftNow
<1> QED BY <1>8, <1>9

\* Accounting for the results is an answer that names what is known.
LEMMA AccountAnswers ==
    ASSUME RunInv, NEW w \in Workers, Account(w)
    PROVE  Load!Answer(w)
<1> DEFINE With(status) == {keys[w][i] : i \in {j \in 1..Batch : Sorted(results[w])[j].status = status}}
           applied == With("applied")
           refused == With("refused")
           unknown == With("unknown")
           all == ToSet(keys[w])
<1>1. /\ stage[w] = "writing" /\ Len(results[w]) = Batch
      /\ counts' = [counts EXCEPT ![w] =
           [k \in Load!Keys |-> IF k \in applied THEN @[k] + 1 ELSE @[k]]]
      /\ pending' = [pending EXCEPT ![w] = (pending[w] \cup unknown) \ applied]
      /\ loose' = loose \cup {Load!Operation(w, k) : k \in unknown}
      /\ executed' = [executed EXCEPT ![w] = {}]
      /\ stage' = [stage EXCEPT ![w] = "loop"] /\ keys' = [keys EXCEPT ![w] = <<>>]
      /\ UNCHANGED <<record, position, workload, audit>>
  BY DEF Account, Finish
<1>2. RunTypeOK /\ InCall(w)
  BY DEF RunInv
<1>3. /\ keys[w] \in [1..Batch -> Load!Owned(w)] /\ Batch \in Nat \ {0}
      /\ \A i, j \in 1..Batch : keys[w][i] = keys[w][j] => i = j
  BY <1>1, <1>2, RunSizes DEF InCall
<1>4. \A i \in 1..Batch : \E j \in 1..Batch :
        Sorted(results[w])[i] = results[w][j] /\ results[w][j].index = i
        /\ results[w][j].status \in Statuses
  <2>1. results[w] \in Seq(Results)
    BY <1>2 DEF RunTypeOK
  <2>2. \A i \in 1..Batch : Sorted(results[w])[i] \in ToSet(results[w])
                            /\ Sorted(results[w])[i].index = i
    BY <1>1, <1>2, <2>1, SortedResults DEF InCall
  <2>3. ToSet(results[w]) = {results[w][j] : j \in 1..Batch}
        /\ \A j \in 1..Batch : results[w][j] \in Results
    BY <1>1, <2>1 DEF ToSet
  <2> QED BY <2>2, <2>3 DEF Results
<1>5. \A i \in 1..Batch :
        /\ Sorted(results[w])[i].status \in Statuses
        /\ Sorted(results[w])[i].status = "applied" => keys[w][i] \in executed[w]
        /\ Sorted(results[w])[i].status = "refused" => keys[w][i] \notin executed[w]
  <2> SUFFICES ASSUME NEW i \in 1..Batch
               PROVE  LET status == Sorted(results[w])[i].status IN
                      /\ status \in Statuses
                      /\ status = "applied" => keys[w][i] \in executed[w]
                      /\ status = "refused" => keys[w][i] \notin executed[w]
    OBVIOUS
  <2>1. PICK j \in 1..Batch : Sorted(results[w])[i] = results[w][j]
          /\ results[w][j].index = i /\ results[w][j].status \in Statuses
    BY <1>4
  <2> QED BY <1>1, <1>2, <2>1 DEF InCall
<1>6. all = {keys[w][i] : i \in 1..Batch}
  BY <1>3 DEF ToSet
<1>7. applied \subseteq executed[w] /\ refused \subseteq all \ executed[w]
  BY <1>5, <1>6
<1>8. unknown = all \ (applied \cup refused)
  <2>1. ASSUME NEW i \in 1..Batch
        PROVE  \A status \in Statuses :
                 keys[w][i] \in With(status) <=> Sorted(results[w])[i].status = status
    BY <1>3
  <2>2. \A status \in Statuses : With(status) \subseteq all
    BY <1>6
  <2> HIDE DEF With
  <2> QED BY <1>5, <1>6, <2>1, <2>2 DEF Statuses
<1> HIDE DEF applied, refused, unknown, With
<1>9. all # {} /\ CallingNow[w] = all
  BY <1>1, <1>3, <1>6, At
<1>10. CallingNow' = [CallingNow EXCEPT ![w] = {}] /\ LeftNow' = LeftNow
  <2>1. stage'[w] = "loop" /\ \A v \in Workers \ {w} : stage'[v] = stage[v] /\ keys'[v] = keys[v]
    BY <1>1, <1>2 DEF RunTypeOK
  <2>2. w \notin LeftNow
    BY <1>1, At
  <2> QED BY <2>1, <2>2, Moved
<1>11. \E a \in SUBSET executed[w] :
       \E r \in SUBSET (CallingNow[w] \ executed[w]) :
          LET u == CallingNow[w] \ (a \cup r) IN
          /\ counts' = [counts EXCEPT ![w] =
                [k \in Load!Keys |-> IF k \in a THEN @[k] + 1 ELSE @[k]]]
          /\ pending' = [pending EXCEPT ![w] = (@ \cup u) \ a]
          /\ loose' = loose \cup {Load!Operation(w, k) : k \in u}
  <2>1. applied \in SUBSET executed[w] /\ refused \in SUBSET (CallingNow[w] \ executed[w])
    BY <1>7, <1>9
  <2>2. unknown = CallingNow[w] \ (applied \cup refused)
    BY <1>8, <1>9
  <2>3. pending' = [pending EXCEPT ![w] = (@ \cup unknown) \ applied]
    BY <1>1
  <2> QED BY <1>1, <2>1, <2>2, <2>3
<1> QED BY <1>1, <1>9, <1>10, <1>11
        DEF Load!Answer, Load!Settled, Load!run, Load!audit, audit, CallingNow, LeftNow

\* A call that fails leaves all its operations unknown.
LEMMA LossLoses ==
    ASSUME RunInv, NEW w \in Workers, LoseAnswer(w)
    PROVE  Load!LoseAnswer(w)
<1> DEFINE all == ToSet(keys[w])
<1>1. /\ stage[w] = "writing"
      /\ pending' = [pending EXCEPT ![w] = @ \cup all]
      /\ loose' = loose \cup {Load!Operation(w, k) : k \in all}
      /\ executed' = [executed EXCEPT ![w] = {}]
      /\ stage' = [stage EXCEPT ![w] = "loop"] /\ keys' = [keys EXCEPT ![w] = <<>>]
      /\ UNCHANGED <<record, counts, position, workload, audit>>
  BY DEF LoseAnswer, Finish
<1>2. RunTypeOK /\ InCall(w)
  BY DEF RunInv
<1>3. all # {}
  <2>1. keys[w] \in [1..Batch -> Load!Owned(w)] /\ 1 \in 1..Batch
    BY <1>1, <1>2, RunSizes DEF InCall
  <2> QED BY <2>1 DEF ToSet
<1>4. CallingNow[w] = all
  BY <1>1, At
<1>5. CallingNow' = [CallingNow EXCEPT ![w] = {}] /\ LeftNow' = LeftNow
  <2>1. stage'[w] = "loop" /\ \A v \in Workers \ {w} : stage'[v] = stage[v] /\ keys'[v] = keys[v]
    BY <1>1, <1>2 DEF RunTypeOK
  <2>2. w \notin LeftNow
    BY <1>1, At
  <2> QED BY <2>1, <2>2, Moved
<1> HIDE DEF all
<1>6. /\ pending' = [pending EXCEPT ![w] = @ \cup CallingNow[w]]
      /\ loose' = loose \cup {Load!Operation(w, k) : k \in CallingNow[w]}
  BY <1>1, <1>4
<1> QED BY <1>1, <1>3, <1>4, <1>5, <1>6
        DEF Load!LoseAnswer, Load!run, Load!audit, audit, CallingNow, LeftNow

\* A step that neither begins nor ends a call and touches no record is no step
\* of the load generator.
LEMMA Unseen ==
    ASSUME UNCHANGED <<store, ledger, audit, keys>>,
           \A w \in Workers : /\ stage'[w] = "writing" <=> stage[w] = "writing"
                              /\ stage'[w] = "left" <=> stage[w] = "left"
    PROVE  UNCHANGED Load!vars
<1>1. CallingNow' = CallingNow /\ LeftNow' = LeftNow
  BY RunSizes DEF CallingNow, LeftNow
<1> QED BY <1>1 DEF store, ledger, audit, Load!vars, Load!load, Load!run, Load!audit,
           CallingNow, LeftNow

\* What a step of the run is to the load generator.
LoadStep ==
    \/ Load!Next \/ UNCHANGED Load!vars
    \/ damaged' /\ \E k \in Load!Keys : Load!Corrupt(k)

\* A worker outside of a call leaves, or goes on unseen.
LEMMA MoveLoads ==
    ASSUME RunInv, NEW w \in Workers, stage[w] \in {"loop", "waiting"},
           stage'[w] \in {"loop", "waiting", "left"},
           \A v \in Workers \ {w} : stage'[v] = stage[v],
           UNCHANGED <<store, ledger, audit, keys>>
    PROVE  Load!Leave(w) \/ UNCHANGED Load!vars
<1>1. CASE stage'[w] = "left"
  <2>1. /\ CallingNow' = [CallingNow EXCEPT ![w] = {}]
        /\ LeftNow' = LeftNow \cup {w}
    BY <1>1, Moved
  <2>2. CallingNow[w] = {} /\ CallingNow = [v \in Workers |-> CallingNow[v]]
    BY At, RunSizes DEF CallingNow
  <2>3. CallingNow' = CallingNow
    BY <2>1, <2>2
  <2> QED BY <2>1, <2>2, <2>3
          DEF Load!Leave, Load!load, Load!audit, store, ledger, audit, CallingNow, LeftNow
<1>2. CASE stage'[w] # "left"
  <2>1. \A v \in Workers : /\ stage'[v] = "writing" <=> stage[v] = "writing"
                           /\ stage'[v] = "left" <=> stage[v] = "left"
    BY <1>2
  <2> QED BY <2>1, Unseen
<1> QED BY <1>1, <1>2

\* Every step of the run is one of the load generator, or none.
LEMMA StepLoads ==
    ASSUME RunInv, [Next]_vars
    PROVE  LoadStep
<1>0. RunTypeOK /\ \A v \in Workers : InCall(v)
  BY DEF RunInv
<1>1. CASE Prepare \/ Deadline \/ Interrupt \/ UNCHANGED vars
  <2>1. UNCHANGED <<store, ledger, audit, keys, stage>>
    BY <1>1 DEF Prepare, Seed, Warm, SetupFails, Deadline, Interrupt, vars, calls
  <2> QED BY <2>1, Unseen DEF LoadStep
<1>2. CASE Conclude
  <2>1. UNCHANGED <<store, ledger, keys, stage>> /\ (Load!Reconcile \/ Load!Verify)
    BY <1>2 DEF Conclude, calls
  <2> QED BY <2>1 DEF LoadStep, Load!Next
<1>3. CASE \E k \in Load!Keys : Damage(k)
  BY <1>3 DEF Damage, LoadStep
<1>4. ASSUME NEW w \in Workers, NEW k \in Load!Keys, Execute(w, k) PROVE LoadStep
  BY <1>4 DEF Execute, LoadStep, Load!Next, Workers
<1>5. ASSUME NEW w \in Workers, Claim(w) \/ Leave(w) PROVE LoadStep
  <2>1. Load!Leave(w) \/ UNCHANGED Load!vars
    <3>1. UNCHANGED <<store, ledger, audit, keys>> /\ stage[w] \in {"loop", "waiting"}
      BY <1>5 DEF Claim, Leave, Move
    <3>2. \/ stage' = [stage EXCEPT ![w] = "waiting"]
          \/ stage' = [stage EXCEPT ![w] = "left"]
      BY <1>5 DEF Claim, Leave, Move
    <3>3. stage'[w] \in {"waiting", "left"} /\ \A v \in Workers \ {w} : stage'[v] = stage[v]
      BY <1>0, <3>2 DEF RunTypeOK
    <3> QED BY <3>1, <3>3, MoveLoads
  <2> QED BY <2>1 DEF LoadStep, Load!Next, Workers
<1>6. ASSUME NEW w \in Workers, Call(w) PROVE LoadStep
  BY <1>6, CallIssues DEF LoadStep, Load!Next, Workers
<1>7. ASSUME NEW w \in Workers, Account(w) PROVE LoadStep
  BY <1>7, AccountAnswers DEF LoadStep, Load!Next, Workers
<1>8. ASSUME NEW w \in Workers, LoseAnswer(w) PROVE LoadStep
  BY <1>8, LossLoses DEF LoadStep, Load!Next, Workers
<1>9. ASSUME NEW w \in Workers, Receive(w) PROVE LoadStep
  <2>1. UNCHANGED <<store, ledger, audit, keys, stage>>
    BY <1>9 DEF Receive
  <2> QED BY <2>1, Unseen DEF LoadStep
<1>10. ASSUME NEW w \in Workers, ReadReturns(w) PROVE LoadStep
  <2>1. /\ stage[w] = "reading" /\ stage' = [stage EXCEPT ![w] = "loop"]
        /\ keys' = [keys EXCEPT ![w] = <<>>]
        /\ UNCHANGED <<store, ledger, audit>>
    BY <1>10 DEF ReadReturns, Finish, store, ledger
  <2>2. stage'[w] = "loop" /\ \A v \in Workers \ {w} : stage'[v] = stage[v] /\ keys'[v] = keys[v]
    BY <1>0, <2>1 DEF RunTypeOK
  <2>3. CallingNow' = [CallingNow EXCEPT ![w] = {}] /\ LeftNow' = LeftNow \ {w}
    BY <2>2, Moved
  <2>4. CallingNow[w] = {} /\ w \notin LeftNow /\ CallingNow = [v \in Workers |-> CallingNow[v]]
    BY <2>1, At, RunSizes DEF CallingNow
  <2>5. CallingNow' = CallingNow /\ LeftNow' = LeftNow
    BY <2>3, <2>4
  <2>6. UNCHANGED Load!vars
    BY <2>1, <2>5 DEF store, ledger, audit, Load!vars, Load!load, Load!run, Load!audit,
       CallingNow, LeftNow
  <2> QED BY <2>6 DEF LoadStep
<1> QED
  BY <1>1, <1>2, <1>3, <1>4, <1>5, <1>6, <1>7, <1>8, <1>9, <1>10 DEF Next

\* Frames in any order, tickets, reads, timeouts and interruptions only ever do
\* what the load generator may do over a store that may damage records.
THEOREM RunImplementsLoad == Spec => Implements
<1>1. Init => Load!Init
  BY DEF Init
<1>2. RunInv /\ [Next]_vars => [Load!Next \/ \E k \in Load!Keys : Load!Corrupt(k)]_(Load!vars)
  BY StepLoads DEF LoadStep
<1> QED BY <1>1, <1>2, Runs, PTL DEF Spec, Implements, Load!FaultySpec

\* The same of the copy the theorems of PerfLoad are about.
LEMMA RunLoads == Spec => LP!FaultySpec
<1>1. Init => LP!Init
  BY SameInit DEF Init
<1>2. LoadStep => [LP!Next \/ \E k \in LP!Keys : LP!Corrupt(k)]_(LP!vars)
  <2>1. UNCHANGED Load!vars => UNCHANGED LP!vars
    BY DEF LP!vars, Load!vars, LP!load, Load!load, LP!run, Load!run, LP!audit, Load!audit
  <2>2. (\E k \in Load!Keys : Load!Corrupt(k)) => \E k \in LP!Keys : LP!Corrupt(k)
    BY SameCorrupt, SameSets
  <2> QED BY <2>1, <2>2, SameNext DEF LoadStep
<1>3. RunInv /\ [Next]_vars => [LP!Next \/ \E k \in LP!Keys : LP!Corrupt(k)]_(LP!vars)
  BY <1>2, StepLoads
<1> QED BY <1>1, <1>3, Runs, PTL DEF Spec, LP!FaultySpec
-----------------------------------------------------------------------------
(* The verdict.                                                            *)

\* A run that verifies has lost and doubled no acknowledged write, whatever
\* the store did during the load.
THEOREM RunVerifiesAccounts ==
    ASSUME LateEffects => "upsert" \notin Workloads
    PROVE  Spec => []VerifiedAccounts
<1>1. LP!OnlyMergesLate
  BY DEF LP!OnlyMergesLate
<1>2. LP!FaultySpec => []LP!VerifiedAccounts
  BY <1>1, Settings, LP!AccountsVerified
<1>3. LP!VerifiedAccounts => VerifiedAccounts
  BY SameSums DEF VerifiedAccounts
<1> QED BY <1>2, <1>3, RunLoads, PTL

\* What the bookkeeping of the load generator says of the run.
LEMMA RunBooks == Spec => []LP!Booked
<1>1. LP!FaultySpec => []LP!Booked
  BY Settings, LP!Bookkeeping
<1> QED BY <1>1, RunLoads, PTL

\* As long as nothing was damaged, the store holds what was acknowledged.
Honest == ~damaged => LP!Counted

\* It holds of every run whose late effects are merges.
LEMMA HonestRuns ==
    ASSUME LateEffects => "upsert" \notin Workloads
    PROVE  Spec => []Honest
<1>1. LP!OnlyMergesLate
  BY DEF LP!OnlyMergesLate
<1>2. Init => Honest
  BY Settings, SameInit, LP!InitCounts DEF Init, Honest
<1>3. RunInv /\ LP!Booked /\ Honest /\ [Next]_vars => Honest'
  <2> SUFFICES ASSUME RunInv, LP!Booked, Honest, [Next]_vars, ~damaged' PROVE LP!Counted'
    BY DEF Honest
  <2>1. damaged \in BOOLEAN /\ (damaged' = damaged \/ damaged' = TRUE)
    BY DEF RunInv, RunTypeOK, Next, vars, environment, Prepare, Seed, Warm, SetupFails, Deadline,
       Interrupt, Conclude, Damage, Claim, Leave, Call, ReadReturns, Receive, Account,
       LoseAnswer, Execute, Finish
  <2>2. LP!IInv
    BY <2>1 DEF Honest, LP!IInv
  <2>3. [LP!Next]_(LP!vars)
    <3>1. Load!Next \/ UNCHANGED Load!vars
      BY StepLoads DEF LoadStep
    <3>2. UNCHANGED Load!vars => UNCHANGED LP!vars
      BY DEF LP!vars, Load!vars, LP!load, Load!load, LP!run, Load!run, LP!audit, Load!audit
    <3> QED BY <3>1, <3>2, SameNext
  <2> QED BY <1>1, <2>2, <2>3, Settings, LP!StepCounts
<1> QED BY <1>2, <1>3, Runs, RunBooks, PTL DEF Spec

\* The calls of a worker that was in none, and of all workers.
LEMMA CountCalls ==
    ASSUME RunInv
    PROVE  RPCs = SumFunctionOnSet(rpcs, Workers) /\ RPCs \in Int
<1>1. DOMAIN rpcs = Workers /\ \A w \in Workers : rpcs[w] \in Int
  BY DEF RunInv, RunTypeOK
<1>2. RPCs = SumFunctionOnSet(rpcs, Workers)
  BY <1>1 DEF RPCs, SumFunction
<1> QED BY <1>1, <1>2, RunSizes, SumFacts

Busy == {w \in Workers : stage[w] \in {"waiting", "writing", "reading"}}

\* There are finitely many workers in a call.
LEMMA CountBusy == IsFiniteSet(Busy) /\ Cardinality(Busy) \in Nat
BY RunSizes, FS_Subset, FS_CardinalityType DEF Busy

\* Until the end of the time, every call that fell due has been made or is
\* being made, and workers leave only when no call is left.
Paced ==
    ended = "no" =>
        /\ Load!Least(tickets, Tickets) = RPCs + Cardinality(Busy)
        /\ \A w \in Workers : stage[w] = "left" => tickets > Tickets

\* A call that is over is counted once.
LEMMA FinishCounts ==
    ASSUME RunInv, RunInv', NEW w \in Workers, stage[w] \in {"writing", "reading"},
           stage' = [stage EXCEPT ![w] = "loop"], rpcs' = [rpcs EXCEPT ![w] = @ + 1]
    PROVE  RPCs' + Cardinality(Busy') = RPCs + Cardinality(Busy)
<1>1. RunTypeOK
  BY DEF RunInv
<1>2. RPCs = SumFunctionOnSet(rpcs, Workers) /\ RPCs' = SumFunctionOnSet(rpcs', Workers)
      /\ RPCs \in Int
  BY CountCalls, RunSizes DEF RPCs, SumFunction, RunInv, RunTypeOK
<1>3. RPCs' = RPCs + 1
  <2> DEFINE f == rpcs
             g == rpcs'
             S == Workers
  <2>1. \A v \in S : f[v] \in Int /\ g[v] \in Int /\ (v # w => f[v] = g[v])
    BY <1>1 DEF RunTypeOK
  <2>2. g[w] = f[w] + 1 /\ RPCs' = SumFunctionOnSet(g, S) /\ RPCs = SumFunctionOnSet(f, S)
    BY <1>1, <1>2 DEF RunTypeOK
  <2>3. IsFiniteSet(S) /\ w \in S
    BY RunSizes
  <2> HIDE DEF f, g, S
  <2>4. SumFunctionOnSet(g, S) = SumFunctionOnSet(f, S) + (g[w] - f[w])
    BY <2>1, <2>3, SumChanges
  <2>5. g[w] - f[w] = 1
    BY <2>1, <2>2, <2>3
  <2> QED BY <2>2, <2>4, <2>5
<1>4. Cardinality(Busy') = Cardinality(Busy) - 1
  <2>1. Busy' = Busy \ {w} /\ w \in Busy
    BY <1>1 DEF Busy, RunTypeOK
  <2> QED BY <2>1, CountBusy, FS_RemoveElement
<1> QED BY <1>2, <1>3, <1>4, CountBusy

\* The invariant of the pace.
LEMMA Paces == Spec => []Paced
<1>1. Init => Paced
  <2> SUFFICES ASSUME Init PROVE Paced
    OBVIOUS
  <2>1. RunInv
    BY InitRuns
  <2>2. Busy = {} /\ \A w \in Workers : stage[w] = "loop" /\ rpcs[w] = 0
    BY DEF Init, Busy
  <2>3. RPCs = 0
    <3>1. \A w \in Workers : rpcs[w] = IF w \in {} THEN 1 ELSE 0
      BY <2>2
    <3> QED BY <2>1, <3>1, CountCalls, RunSizes, SumOfOnes, FS_EmptySet
  <2>4. Load!Least(tickets, Tickets) = 0
    BY PaceAssumption DEF Init, Load!Least
  <2> QED BY <2>2, <2>3, <2>4, FS_EmptySet DEF Paced
<1>2. RunInv /\ RunInv' /\ Paced /\ [Next]_vars => Paced'
  <2> SUFFICES ASSUME RunInv, RunInv', Paced, [Next]_vars, ended' = "no" PROVE Paced'
    BY DEF Paced
  <2>0. RunTypeOK /\ RunTypeOK' /\ Tickets \in Nat \ {0}
    BY PaceAssumption DEF RunInv
  <2>1. ASSUME UNCHANGED <<tickets, ended, rpcs>>,
               \A w \in Workers : /\ w \in Busy' <=> w \in Busy
                                  /\ stage'[w] = "left" => stage[w] = "left"
        PROVE  Paced'
    <3>1. Busy' = Busy
      BY <2>1 DEF Busy
    <3>2. RPCs' = RPCs
      BY <2>1 DEF RPCs
    <3> QED BY <2>1, <3>1, <3>2 DEF Paced, Load!Least
  <2>2. ASSUME UNCHANGED <<tickets, ended, rpcs, stage>> PROVE Paced'
    BY <2>1, <2>2 DEF Busy
  <2>3. CASE Prepare \/ Conclude \/ UNCHANGED vars
    BY <2>2, <2>3 DEF Prepare, Seed, Warm, SetupFails, Conclude, vars, calls, environment
  <2>4. CASE Deadline \/ Interrupt
    BY <2>4 DEF Deadline, Interrupt
  <2>5. CASE \E k \in Load!Keys : Damage(k)
    BY <2>2, <2>5 DEF Damage, calls
  <2>6. ASSUME NEW w \in Workers, NEW k \in Load!Keys, Execute(w, k) PROVE Paced'
    BY <2>2, <2>6 DEF Execute, calls, environment
  <2>7. ASSUME NEW w \in Workers, Receive(w) PROVE Paced'
    BY <2>2, <2>7 DEF Receive, environment
  <2>8. ASSUME NEW w \in Workers, Leave(w) PROVE Paced'
    BY <2>8 DEF Leave, environment
  <2>9. ASSUME NEW w \in Workers, Call(w) PROVE Paced'
    <3>1. stage[w] = "waiting" /\ stage'[w] \in {"reading", "writing"}
          /\ UNCHANGED <<tickets, rpcs, ended>>
          /\ \A v \in Workers \ {w} : stage'[v] = stage[v]
      BY <2>0, <2>9 DEF Call, Move, environment, RunTypeOK
    <3> QED BY <2>1, <3>1 DEF Busy
  <2>10. ASSUME NEW w \in Workers, stage[w] \in {"writing", "reading"},
                \E success \in BOOLEAN : Finish(w, success)
         PROVE  Paced'
    <3>1. stage' = [stage EXCEPT ![w] = "loop"] /\ rpcs' = [rpcs EXCEPT ![w] = @ + 1]
          /\ tickets' = tickets /\ ended' = ended
      BY <2>10 DEF Finish, environment
    <3>2. RPCs' + Cardinality(Busy') = RPCs + Cardinality(Busy)
      BY <2>10, <3>1, FinishCounts
    <3>3. \A v \in Workers : stage'[v] = "left" => stage[v] = "left"
      BY <2>0, <3>1 DEF RunTypeOK
    <3> QED BY <3>1, <3>2, <3>3 DEF Paced, Load!Least
  <2>11. ASSUME NEW w \in Workers, ReadReturns(w) \/ Account(w) \/ LoseAnswer(w) PROVE Paced'
    <3>1. \E success \in BOOLEAN : Finish(w, success)
      <4>1. CASE Account(w)
        BY <4>1 DEF Account
      <4>2. CASE LoseAnswer(w) \/ ReadReturns(w)
        BY <4>2 DEF LoseAnswer, ReadReturns
      <4> QED BY <2>11, <4>1, <4>2
    <3> QED BY <2>10, <2>11, <3>1 DEF ReadReturns, Account, LoseAnswer
  <2>12. ASSUME NEW w \in Workers, Claim(w) PROVE Paced'
    <3>1. /\ stage[w] = "loop" /\ tickets' = tickets + 1 /\ UNCHANGED <<rpcs, ended>>
          /\ stage'[w] = IF tickets < Tickets THEN "waiting" ELSE "left"
          /\ \A v \in Workers \ {w} : stage'[v] = stage[v]
      BY <2>0, <2>12 DEF Claim, Move, environment, RunTypeOK
    <3>2. RPCs' = RPCs /\ RPCs \in Int
      BY <3>1, CountCalls DEF RPCs
    <3>3. Load!Least(tickets, Tickets) = RPCs + Cardinality(Busy)
          /\ \A v \in Workers : stage[v] = "left" => tickets > Tickets
      BY <3>1 DEF Paced
    <3>4. tickets \in Nat
      BY <2>0 DEF RunTypeOK
    <3>5. CASE tickets < Tickets
      <4>1. Busy' = Busy \cup {w} /\ w \notin Busy
        BY <3>1, <3>5 DEF Busy
      <4>2. Cardinality(Busy') = Cardinality(Busy) + 1
        BY <4>1, CountBusy, FS_AddElement
      <4>3. \A v \in Workers : stage'[v] = "left" => stage[v] = "left"
        BY <3>1, <3>5
      <4>4. Load!Least(tickets, Tickets) = tickets /\ Load!Least(tickets', Tickets) = tickets + 1
        BY <2>0, <3>1, <3>4, <3>5 DEF Load!Least
      <4>5. Load!Least(tickets', Tickets) = RPCs' + Cardinality(Busy')
        BY <3>2, <3>3, <4>2, <4>4, CountBusy
      <4>6. \A v \in Workers : stage'[v] = "left" => tickets' > Tickets
        BY <2>0, <3>1, <3>3, <3>4, <4>3
      <4> QED BY <4>5, <4>6 DEF Paced, Load!Least
    <3>6. CASE ~(tickets < Tickets)
      <4>1. Busy' = Busy
        BY <3>1, <3>6 DEF Busy
      <4>2. Load!Least(tickets, Tickets) = Tickets /\ Load!Least(tickets', Tickets) = Tickets
            /\ tickets' > Tickets
        BY <2>0, <3>1, <3>4, <3>6 DEF Load!Least
      <4>3. Load!Least(tickets', Tickets) = RPCs' + Cardinality(Busy')
        BY <3>2, <3>3, <4>1, <4>2
      <4> QED BY <4>2, <4>3 DEF Paced, Load!Least
    <3> QED BY <3>5, <3>6
  <2> QED
    BY <2>3, <2>4, <2>5, <2>6, <2>7, <2>8, <2>9, <2>11, <2>12 DEF Next
<1> QED BY <1>1, <1>2, Runs, PTL DEF Spec

\* A run accuses the store only of damage it did, and reports calls as not
\* issued only when the deadline or an interruption cut it short.
THEOREM RunBlamesFairly ==
    ASSUME LateEffects => "upsert" \notin Workloads
    PROVE  Spec => []UnhealthyIsGenuine
<1>1. RunInv /\ LP!Booked /\ Honest /\ Paced => UnhealthyIsGenuine
  <2> SUFFICES ASSUME RunInv, LP!Booked, Honest, Paced PROVE UnhealthyIsGenuine
    OBVIOUS
  <2>1. phase \in {"wrong_sequence", "wrong_value"} => damaged
    BY DEF Honest, LP!Counted
  <2>2. ASSUME phase # "load", NotIssued > 0, ended = "no" PROVE FALSE
    <3>1. \A w \in Workers : stage[w] = "left"
      BY <2>2, SameSets, RunSizes DEF LP!Booked, LP!QuietAfterLoad, Workers
    <3>2. 0 \in Workers /\ tickets \in Nat /\ Tickets \in Nat
      BY RunSizes, PaceAssumption DEF RunInv, RunTypeOK
    <3>3. tickets > Tickets /\ Load!Least(tickets, Tickets) = RPCs + Cardinality(Busy)
      BY <2>2, <3>1, <3>2 DEF Paced
    <3>4. Busy = {}
      BY <3>1 DEF Busy
    <3>5. RPCs = Tickets
      BY <3>2, <3>3, <3>4, CountCalls, FS_EmptySet DEF Load!Least
    <3>6. Offered <= Tickets /\ Offered \in Int
      BY PaceAssumption
    <3> QED BY <2>2, <3>2, <3>5, <3>6 DEF NotIssued
  <2> QED BY <2>1, <2>2 DEF UnhealthyIsGenuine
<1> QED BY <1>1, Runs, RunBooks, HonestRuns, Paces, PTL

\* A worker without an error has had every operation acknowledged that its
\* calls asked for.
Tallied ==
    \A w \in Workers \ erred :
        pending[w] = {} /\ SumFunction(counts[w]) = Batch * Writes(w)

\* The writes among n + 1 calls.
LEMMA NextWrite ==
    ASSUME NEW n \in Nat
    PROVE  /\ Cardinality({i \in 0..(n - 1) : ~IsRead(i)}) \in Nat
           /\ Cardinality({i \in 0..n : ~IsRead(i)}) =
                Cardinality({i \in 0..(n - 1) : ~IsRead(i)}) + IF IsRead(n) THEN 0 ELSE 1
<1> DEFINE V == {i \in 0..(n - 1) : ~IsRead(i)}
           W == {i \in 0..n : ~IsRead(i)}
<1>1. IsFiniteSet(V) /\ Cardinality(V) \in Nat /\ n \notin V
  <2>1. IsFiniteSet(0..(n - 1)) /\ V \subseteq 0..(n - 1)
    BY FS_Interval
  <2>2. n \notin V
    OBVIOUS
  <2> HIDE DEF V
  <2> QED BY <2>1, <2>2, FS_Subset, FS_CardinalityType
<1>2. W = IF IsRead(n) THEN V ELSE V \cup {n}
  <2>1. \A i : i \in 0..n <=> i \in 0..(n - 1) \/ i = n
    OBVIOUS
  <2> QED BY <2>1
<1> HIDE DEF V, W
<1>3. Cardinality(V) \in Nat /\ Cardinality(W) = Cardinality(V) + IF IsRead(n) THEN 0 ELSE 1
  <2>1. CASE IsRead(n)
    BY <1>1, <1>2, <2>1
  <2>2. CASE ~IsRead(n)
    BY <1>1, <1>2, <2>2, FS_AddElement
  <2> QED BY <2>1, <2>2
<1> QED BY <1>3 DEF V, W

\* As many operations as a call has.
LEMMA CallSize ==
    ASSUME RunInv, NEW w \in Workers, stage[w] = "writing"
    PROVE  ToSet(keys[w]) \subseteq Load!Keys /\ Cardinality(ToSet(keys[w])) = Batch
<1>1. /\ keys[w] \in [1..Batch -> Load!Owned(w)] /\ Load!Owned(w) \subseteq Load!Keys
      /\ \A i, j \in 1..Batch : keys[w][i] = keys[w][j] => i = j
  BY RunSizes DEF RunInv, InCall
<1> DEFINE K == ToSet(keys[w])
<1>2. K = {keys[w][i] : i \in 1..Batch} /\ K \subseteq Load!Keys
  BY <1>1 DEF ToSet
<1>3. keys[w] \in Bijection(1..Batch, K)
  <2>1. keys[w] \in [1..Batch -> K]
    BY <1>1, <1>2
  <2> QED BY <1>1, <1>2, <2>1 DEF Bijection, Injection, Surjection, IsInjective
<1>4. IsFiniteSet(1..Batch) /\ Cardinality(1..Batch) = Batch
  <2>1. 1 \in Int /\ Batch \in Int /\ 1 <= Batch
    BY RunSizes
  <2> QED BY <2>1, FS_Interval
<1> HIDE DEF K
<1>5. Cardinality(1..Batch) = Cardinality(K)
  BY <1>3, <1>4, FS_Bijection DEF ExistsBijection
<1> QED BY <1>2, <1>4, <1>5 DEF K

\* One more acknowledged write to each of some records.
LEMMA OneMoreEach ==
    ASSUME NEW S, IsFiniteSet(S), NEW K \in SUBSET S, NEW f, \A k \in S : f[k] \in Int
    PROVE  SumFunction([k \in S |-> IF k \in K THEN f[k] + 1 ELSE f[k]])
             = SumFunctionOnSet(f, S) + Cardinality(K)
<1> DEFINE h == [k \in S |-> IF k \in K THEN f[k] + 1 ELSE f[k]]
           ones == [k \in S |-> IF k \in K THEN 1 ELSE 0]
<1>1. DOMAIN h = S /\ \A k \in S : f[k] \in Int /\ ones[k] \in Int /\ h[k] = f[k] + ones[k]
  OBVIOUS
<1>2. \A k \in S : ones[k] = IF k \in K THEN 1 ELSE 0
  OBVIOUS
<1> HIDE DEF h, ones
<1>3. SumFunctionOnSet(h, S) = SumFunctionOnSet(f, S) + SumFunctionOnSet(ones, S)
  BY <1>1, SumPlus
<1>4. SumFunctionOnSet(ones, S) = Cardinality(K)
  BY <1>2, SumOfOnes
<1>5. SumFunction(h) = SumFunctionOnSet(h, S)
  BY <1>1 DEF SumFunction
<1> QED BY <1>3, <1>4, <1>5 DEF h

\* There are finitely many records.
LEMMA FiniteKeys == IsFiniteSet(Load!Keys)
<1>1. LP!TotalKeys \in Nat
  BY Settings, LP!Sizes
<1>2. Load!Keys = 0..(Load!TotalKeys - 1) /\ 0 \in Int /\ Load!TotalKeys - 1 \in Int
  BY <1>1, SameSets DEF Load!Keys
<1> QED BY <1>2, FS_Interval

\* The types of the load generator's bookkeeping.
LEMMA LedgerType ==
    ASSUME LP!Booked
    PROVE  /\ counts \in [Workers -> [Load!Keys -> Nat]]
           /\ pending \in [Workers -> SUBSET Load!Keys]
           /\ reconciled \in Nat /\ IsFiniteSet(Load!Keys)
           /\ \A k \in Load!Keys : record[k].value \in Int
<1>1. LP!TypeOK /\ LP!Workers = Workers /\ LP!Keys = Load!Keys
  BY SameSets DEF LP!Booked, Workers
<1>2. /\ counts \in [Workers -> [Load!Keys -> Nat]]
      /\ pending \in [Workers -> SUBSET Load!Keys] /\ reconciled \in Nat
      /\ record \in [Load!Keys -> [value : Int, seen : [Workers -> Nat]]]
  BY <1>1 DEF LP!TypeOK
<1> QED BY <1>2, FiniteKeys

\* An answer that applied everything is one for every operation of the call.
LEMMA AccountTallies ==
    ASSUME RunInv, LP!Booked, NEW w \in Workers, Account(w), w \notin erred', Tallied
    PROVE  /\ w \notin erred /\ pending'[w] = {}
           /\ SumFunction(counts'[w]) = SumFunction(counts[w]) + Batch
<1> DEFINE With(status) == {keys[w][i] : i \in {j \in 1..Batch : Sorted(results[w])[j].status = status}}
           applied == With("applied")
           unknown == With("unknown")
           K == ToSet(keys[w])
           f == counts[w]
<1>1. /\ stage[w] = "writing"
      /\ counts' = [counts EXCEPT ![w] =
           [k \in Load!Keys |-> IF k \in applied THEN f[k] + 1 ELSE f[k]]]
      /\ pending' = [pending EXCEPT ![w] = (pending[w] \cup unknown) \ applied]
      /\ erred' = IF applied = K THEN erred ELSE erred \cup {w}
  BY DEF Account, Finish
<1>2. unknown \subseteq K
  <2>1. keys[w] \in [1..Batch -> Load!Owned(w)]
    BY <1>1 DEF RunInv, InCall
  <2> QED BY <2>1 DEF ToSet
<1> HIDE DEF With, applied, unknown, K
<1>3. applied = K /\ w \notin erred /\ pending[w] = {}
  BY <1>1 DEF Tallied
<1>4. pending'[w] = {}
  BY <1>1, <1>2, <1>3, LedgerType
<1>5. counts'[w] = [k \in Load!Keys |-> IF k \in K THEN f[k] + 1 ELSE f[k]]
  BY <1>1, <1>3, LedgerType
<1>6. /\ \A k \in Load!Keys : f[k] \in Int
      /\ SumFunction(f) = SumFunctionOnSet(f, Load!Keys) /\ IsFiniteSet(Load!Keys)
  BY LedgerType DEF SumFunction
<1>7. K \in SUBSET Load!Keys /\ Cardinality(K) = Batch
  BY <1>1, CallSize DEF K
<1> HIDE DEF f
<1>8. SumFunction(counts'[w]) = SumFunctionOnSet(f, Load!Keys) + Cardinality(K)
  BY <1>5, <1>6, <1>7, OneMoreEach
<1>9. SumFunction(counts'[w]) = SumFunction(f) + Batch
  BY <1>6, <1>7, <1>8
<1> QED BY <1>3, <1>4, <1>9 DEF f

\* The invariant of the tallies.
LEMMA Tallies == Spec => []Tallied
<1>1. Init => Tallied
  <2> SUFFICES ASSUME Init, NEW w \in Workers
               PROVE  pending[w] = {} /\ SumFunction(counts[w]) = Batch * Writes(w)
    BY DEF Tallied
  <2>1. /\ pending[w] = {} /\ rpcs[w] = 0
        /\ counts[w] = [k \in Load!Keys |-> 0]
    BY DEF Init, Load!Init, Workers
  <2>2. Writes(w) = 0 /\ Batch \in Int
    <3>1. {i \in 0..(rpcs[w] - 1) : ~IsRead(i)} = {}
      BY <2>1
    <3>2. Writes(w) = Cardinality({})
      BY <3>1, Zenon DEF Writes
    <3> QED BY <3>2, FS_EmptySet, RunSizes
  <2>3. SumFunction(counts[w]) = 0
    <3> DEFINE f == counts[w]
    <3>1. \A k \in Load!Keys : f[k] = IF k \in {} THEN 1 ELSE 0
      BY <2>1
    <3>2. SumFunction(f) = SumFunctionOnSet(f, Load!Keys)
      BY <2>1 DEF SumFunction
    <3>3. IsFiniteSet(Load!Keys)
      BY FiniteKeys
    <3> HIDE DEF f
    <3>4. SumFunctionOnSet(f, Load!Keys) = 0
      BY <3>1, <3>3, SumOfOnes, FS_EmptySet
    <3> QED BY <3>2, <3>4 DEF f
  <2> QED BY <2>1, <2>2, <2>3
<1>2. RunInv /\ LP!Booked /\ Tallied /\ [Next]_vars => Tallied'
  <2> SUFFICES ASSUME RunInv, LP!Booked, Tallied, [Next]_vars, NEW w \in Workers \ erred'
               PROVE  pending'[w] = {} /\ SumFunction(counts'[w]) = Batch * Writes(w)'
    BY DEF Tallied
  <2>0. RunTypeOK /\ w \in Workers /\ InCall(w)
    BY DEF RunInv
  <2>1. ASSUME w \notin erred, pending'[w] = pending[w], counts'[w] = counts[w],
               rpcs'[w] = rpcs[w], workload' = workload
        PROVE  pending'[w] = {} /\ SumFunction(counts'[w]) = Batch * Writes(w)'
    BY <2>1 DEF Tallied, Writes, IsRead
  <2>2. CASE \/ Prepare \/ Deadline \/ Interrupt \/ Conclude \/ UNCHANGED vars
             \/ \E k \in Load!Keys : Damage(k)
    BY <2>1, <2>2 DEF Prepare, Seed, Warm, SetupFails, Deadline, Interrupt, Conclude, vars,
       Damage, ledger, calls
  <2>3. ASSUME NEW v \in Workers,
               \/ Claim(v) \/ Leave(v) \/ Call(v) \/ Receive(v)
               \/ \E k \in Load!Keys : Execute(v, k)
        PROVE  pending'[w] = {} /\ SumFunction(counts'[w]) = Batch * Writes(w)'
    BY <2>1, <2>3 DEF Claim, Leave, Call, Receive, Execute, ledger, calls
  <2>4. ASSUME NEW v \in Workers, ReadReturns(v) \/ Account(v) \/ LoseAnswer(v), v # w
        PROVE  pending'[w] = {} /\ SumFunction(counts'[w]) = Batch * Writes(w)'
    <3>1. PICK success \in BOOLEAN : Finish(v, success)
      <4>1. CASE Account(v)
        BY <4>1 DEF Account
      <4>2. CASE LoseAnswer(v) \/ ReadReturns(v)
        BY <4>2 DEF LoseAnswer, ReadReturns
      <4> QED BY <2>4, <4>1, <4>2
    <3>2. w \notin erred /\ rpcs'[w] = rpcs[w] /\ workload' = workload
      BY <2>0, <2>4, <3>1 DEF Finish, RunTypeOK
    <3>3. \/ UNCHANGED <<counts, pending>>
          \/ counts' = counts /\ \E P : pending' = [pending EXCEPT ![v] = P]
          \/ \E C, P : counts' = [counts EXCEPT ![v] = C] /\ pending' = [pending EXCEPT ![v] = P]
      <4>1. CASE Account(v)
        BY <4>1 DEF Account
      <4>2. CASE LoseAnswer(v)
        BY <4>2 DEF LoseAnswer
      <4>3. CASE ReadReturns(v)
        BY <4>3 DEF ReadReturns
      <4> QED BY <2>4, <4>1, <4>2, <4>3
    <3>4. counts'[w] = counts[w] /\ pending'[w] = pending[w]
      BY <2>0, <2>4, <3>3, LedgerType
    <3> QED BY <2>1, <3>2, <3>4
  <2>5. ASSUME rpcs'[w] = rpcs[w] + 1, workload' = workload
        PROVE  /\ Writes(w) \in Nat
               /\ Writes(w)' = Writes(w) + IF IsRead(rpcs[w]) THEN 0 ELSE 1
    <3>1. rpcs[w] \in Nat /\ rpcs'[w] - 1 = rpcs[w]
      BY <2>0, <2>5 DEF RunTypeOK
    <3>2. Writes(w) = Cardinality({i \in 0..(rpcs[w] - 1) : ~IsRead(i)})
      BY DEF Writes
    <3>3. Writes(w)' = Cardinality({i \in 0..rpcs[w] : ~IsRead(i)})
      BY <2>5, <3>1 DEF Writes, IsRead
    <3> QED BY <3>1, <3>2, <3>3, NextWrite
  <2>6. ASSUME ReadReturns(w)
        PROVE  pending'[w] = {} /\ SumFunction(counts'[w]) = Batch * Writes(w)'
    <3>1. /\ rpcs'[w] = rpcs[w] + 1 /\ workload' = workload /\ w \notin erred
          /\ UNCHANGED <<counts, pending>> /\ IsRead(rpcs[w])
      BY <2>0, <2>6 DEF ReadReturns, Finish, RunTypeOK, InCall
    <3>2. Writes(w)' = Writes(w)
      BY <2>5, <3>1
    <3> QED BY <3>1, <3>2 DEF Tallied
  <2>7. ASSUME LoseAnswer(w) PROVE FALSE
    BY <2>0, <2>7 DEF LoseAnswer, Finish
  <2>8. ASSUME Account(w)
        PROVE  pending'[w] = {} /\ SumFunction(counts'[w]) = Batch * Writes(w)'
    <3>1. rpcs'[w] = rpcs[w] + 1 /\ workload' = workload /\ ~IsRead(rpcs[w])
      BY <2>0, <2>8 DEF Account, Finish, RunTypeOK, InCall
    <3>2. /\ w \notin erred /\ pending'[w] = {}
          /\ SumFunction(counts'[w]) = SumFunction(counts[w]) + Batch
      BY <2>0, <2>8, AccountTallies
    <3>3. Writes(w) \in Nat /\ Writes(w)' = Writes(w) + 1
      BY <2>5, <3>1
    <3>4. SumFunction(counts[w]) = Batch * Writes(w) /\ Batch \in Nat
      BY <3>2, RunSizes DEF Tallied
    <3>5. Batch * (Writes(w) + 1) = Batch * Writes(w) + Batch
      BY <3>3, <3>4
    <3> QED BY <3>2, <3>3, <3>4, <3>5
  <2> QED
    BY <2>2, <2>3, <2>4, <2>6, <2>7, <2>8 DEF Next
<1> QED BY <1>1, <1>2, Runs, RunBooks, PTL DEF Spec

\* A run that reports itself healthy made every call it offered, had every
\* operation it issued acknowledged, left none open, and the store holds
\* exactly those, damage or not.
THEOREM RunEarnsHealth ==
    ASSUME LateEffects => "upsert" \notin Workloads
    PROVE  Spec => []HealthyIsEarned
<1>1. RunInv /\ LP!Booked /\ Tallied /\ VerifiedAccounts => HealthyIsEarned
  <2> SUFFICES ASSUME RunInv, LP!Booked, Tallied, VerifiedAccounts, Healthy
               PROVE  /\ RPCs >= Offered
                      /\ \A w \in Workers : pending[w] = {}
                      /\ Load!Acknowledged = Batch * SumFunction([w \in Workers |-> Writes(w)])
                      /\ Load!Stored = Load!Acknowledged
    BY DEF HealthyIsEarned
  <2>1. phase = "verified" /\ erred = {} /\ NotIssued = 0
    BY DEF Healthy
  <2>2. RPCs >= Offered
    <3>1. RPCs \in Int /\ Offered \in Int
      BY CountCalls, PaceAssumption
    <3> QED BY <2>1, <3>1 DEF NotIssued
  <2>3. \A w \in Workers : pending[w] = {} /\ SumFunction(counts[w]) = Batch * Writes(w)
    BY <2>1 DEF Tallied
  <2> DEFINE f == [w \in Workers |-> Writes(w)]
             g == [w \in Workers |-> SumFunction(counts[w])]
             h == [w \in Workers |-> Cardinality(pending[w])]
             v == [k \in Load!Keys |-> record[k].value]
  <2>4. Load!Acknowledged = SumFunctionOnSet(g, Workers)
    <3>1. g = [w \in Load!Workers |-> Load!SumFunction(counts[w])]
      BY RunSumFunction DEF Workers
    <3>2. DOMAIN g = Workers
      OBVIOUS
    <3> HIDE DEF g
    <3>3. Load!Acknowledged = Load!SumFunction(g)
      BY <3>1 DEF Load!Acknowledged
    <3> QED BY <3>2, <3>3, RunSumFunction DEF SumFunction
  <2>5. Load!Unknown = SumFunctionOnSet(h, Workers)
    <3>1. h = [w \in Load!Workers |-> Load!Cardinality(pending[w])]
      BY RunCardinality DEF Workers
    <3>2. DOMAIN h = Workers
      OBVIOUS
    <3> HIDE DEF h
    <3>3. Load!Unknown = Load!SumFunction(h)
      BY <3>1 DEF Load!Unknown
    <3> QED BY <3>2, <3>3, RunSumFunction DEF SumFunction
  <2>6. Load!Stored = SumFunctionOnSet(v, Load!Keys)
    <3>1. DOMAIN v = Load!Keys
      OBVIOUS
    <3>2. Load!Stored = Load!SumFunction(v)
      BY DEF Load!Stored
    <3> HIDE DEF v
    <3> QED BY <3>1, <3>2, RunSumFunction DEF SumFunction
  <2>7. SumFunction(f) = SumFunctionOnSet(f, Workers)
    BY DEF SumFunction
  <2>8. \A w \in Workers : f[w] \in Int /\ g[w] = Batch * f[w]
    <3>1. ASSUME NEW w \in Workers PROVE Writes(w) \in Nat
      <4>1. rpcs[w] \in Nat
        BY <3>1 DEF RunInv, RunTypeOK
      <4>2. Cardinality({i \in 0..(rpcs[w] - 1) : ~IsRead(i)}) \in Nat
        BY <4>1, NextWrite
      <4> QED BY <4>2, Zenon DEF Writes
    <3> QED BY <2>3, <3>1
  <2>9. \A w \in Workers : h[w] = IF w \in {} THEN 1 ELSE 0
    BY <2>3, FS_EmptySet
  <2>10. \A k \in Load!Keys : v[k] \in Int
    BY LedgerType
  <2> HIDE DEF f, g, h, v
  <2>11. Load!Acknowledged = Batch * SumFunction(f)
    <3>1. Batch \in Int /\ IsFiniteSet(Workers)
      BY RunSizes
    <3> QED BY <2>4, <2>7, <2>8, <3>1, SumTimes
  <2>12. Load!Unknown = 0
    BY <2>5, <2>9, RunSizes, SumOfOnes, FS_EmptySet
  <2>13. Load!Stored \in Int
    BY <2>6, <2>10, FiniteKeys, SumFacts
  <2>14. Load!Acknowledged \in Int
    <3>1. SumFunctionOnSet(f, Workers) \in Int /\ Batch \in Int
      BY <2>8, RunSizes, SumFacts
    <3> QED BY <2>7, <2>11, <3>1
  <2>15. Load!Stored = Load!Acknowledged
    <3>1. /\ Load!Acknowledged + reconciled <= Load!Stored
          /\ Load!Stored <= Load!Acknowledged + Load!Unknown
      BY <2>1 DEF VerifiedAccounts, Load!VerifiedAccounts
    <3>2. reconciled \in Nat
      BY LedgerType
    <3> QED BY <2>12, <2>13, <2>14, <3>1, <3>2
  <2> QED BY <2>2, <2>3, <2>11, <2>15 DEF f
<1> QED BY <1>1, Runs, RunBooks, Tallies, RunVerifiesAccounts, PTL
=============================================================================
