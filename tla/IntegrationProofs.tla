-------------------------- MODULE IntegrationProofs --------------------------
(***************************************************************************)
(* The integration tests' own control: one cycle of the storage soak, the  *)
(* workers of the soak and their end, and the feeder, workers and verdict  *)
(* of the load test.  Each is a specification of its own; the variables of *)
(* the others do not occur in it.                                          *)
(***************************************************************************)
EXTENDS SoakCycle, SoakPool, LoadPool, TLAPS

(***************************************************************************)
(* A cycle against every server.  Two facts carry the argument.  A step    *)
(* of the cycle never gets ahead of the document, so a completed cycle has *)
(* been through all of its states.  And as long as the server repeats or   *)
(* delays no more than one effect, all it still holds is the mutation      *)
(* applied last, which changes nothing, or the cycle's own, after it.      *)
(***************************************************************************)

Modes == Ended \cup {"calling", "awaiting", "observing", "verifying"}
Attempts == [kind : Steps, latest : BOOLEAN]

\* Whatever the server does, the document is one of the three the cycle knows,
\* and it has come that far in the right order.
Earned ==
  /\ doc \in {Absent, Created, Merged}
  /\ doc = Absent => reached \in {"absent", "deleted"}
  /\ doc = Created => reached # "absent"
  /\ doc = Merged => reached \in {"merged", "deleted"}
  /\ step = "merge" => reached # "absent"
  /\ step = "delete" => reached \in {"merged", "deleted"}
  /\ mode = "done" => reached = "deleted"
  /\ \A i \in 1..Len(pending) : pending[i].kind = "delete" => reached \in {"merged", "deleted"}
  /\ \A i \in 1..Len(repeated) : repeated[i] = "delete" => reached \in {"merged", "deleted"}

Base == TypeOK /\ Earned
-----------------------------------------------------------------------------
\* A sequence without one of its elements.
LEMMA Dropped ==
  ASSUME NEW S, NEW s \in Seq(S), NEW i \in 1..Len(s)
  PROVE  /\ Drop(s, i) \in Seq(S) /\ Len(Drop(s, i)) = Len(s) - 1
         /\ \A j \in 1..Len(Drop(s, i)) : Drop(s, i)[j] = IF j < i THEN s[j] ELSE s[j + 1]
<1> DEFINE a == SubSeq(s, 1, i - 1)
           b == SubSeq(s, i + 1, Len(s))
<1>1. /\ a \in Seq(S) /\ Len(a) = i - 1 /\ \A j \in 1..(i - 1) : a[j] = s[j]
      /\ b \in Seq(S) /\ Len(b) = Len(s) - i /\ \A j \in 1..(Len(s) - i) : b[j] = s[i + j]
  OBVIOUS
<1> HIDE DEF a, b
<1>2. a \o b \in Seq(S) /\ Len(a \o b) = Len(s) - 1
  <2>1. a \in Seq(S) /\ b \in Seq(S) /\ Len(a) + Len(b) = Len(s) - 1
    BY <1>1
  <2>2. a \o b \in Seq(S) /\ Len(a \o b) = Len(a) + Len(b)
    BY <2>1
  <2> QED BY <2>1, <2>2
<1>4. \A j \in 1..(Len(s) - 1) : (a \o b)[j] = IF j < i THEN s[j] ELSE s[j + 1]
  <2> SUFFICES ASSUME NEW j \in 1..(Len(s) - 1)
               PROVE  (a \o b)[j] = IF j < i THEN s[j] ELSE s[j + 1]
    OBVIOUS
  <2>1. CASE j < i
    BY <1>1, <2>1
  <2>2. CASE ~(j < i)
    <3> DEFINE m == j - (i - 1)
    <3>1. m \in 1..(Len(s) - i) /\ i + m = j + 1 /\ j \in 1..(Len(a) + Len(b)) /\ j > Len(a)
      BY <1>1, <2>2
    <3>2. (a \o b)[j] = b[m]
      BY <1>1, <3>1
    <3> QED BY <1>1, <2>2, <3>1, <3>2
  <2> QED BY <2>1, <2>2
<1>3. Drop(s, i) = a \o b
  BY DEF Drop, a, b
<1> QED BY <1>2, <1>3, <1>4

\* What a restart may repeat is the end of the effects, no longer than allowed.
LEMMA Recalled ==
  ASSUME TypeOK, NEW k \in Steps, server.replayable \in Nat, repeated' = Remembered(Append(repeated, k))
  PROVE  /\ repeated' \in Seq(Steps) /\ Len(repeated') <= server.replayable
         /\ \A j \in 1..Len(repeated') : repeated'[j] = k \/ \E m \in 1..Len(repeated) : repeated'[j] = repeated[m]
         /\ server.replayable <= 1 => \A j \in 1..Len(repeated') : repeated'[j] = k
<1> DEFINE q == Append(repeated, k)
           from == IF Len(q) > server.replayable THEN Len(q) - server.replayable + 1 ELSE 1
<1>0. repeated \in Seq(Steps)
  BY DEF TypeOK
<1>1. /\ q \in Seq(Steps) /\ Len(q) = Len(repeated) + 1 /\ q[Len(q)] = k
      /\ \A m \in 1..Len(repeated) : q[m] = repeated[m]
  BY <1>0
<1>7. repeated' = SubSeq(q, from, Len(q))
  BY DEF Remembered
<1> HIDE DEF q
<1>2. from \in 1..(Len(q) + 1) /\ Len(q) - from + 1 <= server.replayable
  BY <1>1
<1> HIDE DEF from
<1>3. /\ repeated' \in Seq(Steps) /\ Len(repeated') = Len(q) - from + 1
      /\ \A j \in 1..Len(repeated') : repeated'[j] = q[from + j - 1]
  BY <1>1, <1>2, <1>7
<1>4. \A j \in 1..Len(repeated') : from + j - 1 \in 1..Len(q)
  BY <1>1, <1>2, <1>3
<1>5. \A j \in 1..Len(repeated') : repeated'[j] = k \/ \E m \in 1..Len(repeated) : repeated'[j] = repeated[m]
  <2> SUFFICES ASSUME NEW j \in 1..Len(repeated') PROVE repeated'[j] = k \/ \E m \in 1..Len(repeated) : repeated'[j] = repeated[m]
    OBVIOUS
  <2>1. repeated'[j] = q[from + j - 1] /\ from + j - 1 \in 1..Len(q)
    BY <1>3, <1>4
  <2>2. CASE from + j - 1 = Len(q)
    BY <1>1, <2>1, <2>2
  <2>3. CASE from + j - 1 \in 1..Len(repeated)
    BY <1>0, <1>1, <2>1, <2>3
  <2> QED BY <1>0, <1>1, <2>1, <2>2, <2>3
<1>6. server.replayable <= 1 => \A j \in 1..Len(repeated') : repeated'[j] = k
  BY <1>1, <1>2, <1>3
<1> QED BY <1>2, <1>3, <1>5, <1>6

\* What the server holds.
LEMMA Held ==
  ASSUME TypeOK
  PROVE  /\ pending \in Seq(Attempts) /\ repeated \in Seq(Steps)
         /\ \A i \in 1..Len(pending) :
               /\ pending[i] \in Attempts /\ pending[i].kind \in Steps /\ pending[i].latest \in BOOLEAN
               /\ [pending[i] EXCEPT !.latest = FALSE] = [kind |-> pending[i].kind, latest |-> FALSE]
         /\ \A i \in 1..Len(repeated) : repeated[i] \in Steps
         /\ \A k \in Steps, l \in BOOLEAN : [kind |-> k, latest |-> l] \in Attempts
<1>1. pending \in Seq(Attempts) /\ repeated \in Seq(Steps)
  BY DEF TypeOK, Attempts
<1>2. \A i \in 1..Len(pending) : pending[i] \in Attempts
  BY <1>1
<1>3. \A a \in Attempts :
        /\ a.kind \in Steps /\ a.latest \in BOOLEAN
        /\ [a EXCEPT !.latest = FALSE] = [kind |-> a.kind, latest |-> FALSE]
  <2> SUFFICES ASSUME NEW a \in Attempts
               PROVE  /\ a.kind \in Steps /\ a.latest \in BOOLEAN
                      /\ [a EXCEPT !.latest = FALSE] = [kind |-> a.kind, latest |-> FALSE]
    OBVIOUS
  <2>1. /\ a.kind \in Steps /\ a.latest \in BOOLEAN
        /\ [a EXCEPT !.latest = FALSE] \in Attempts
    BY DEF Attempts
  <2>2. [a EXCEPT !.latest = FALSE].kind = a.kind /\ [a EXCEPT !.latest = FALSE].latest = FALSE
    BY DEF Attempts
  <2>3. \A b, c \in Attempts : b.kind = c.kind /\ b.latest = c.latest => b = c
    BY DEF Attempts
  <2>4. /\ [kind |-> a.kind, latest |-> FALSE] \in Attempts
        /\ [kind |-> a.kind, latest |-> FALSE].kind = a.kind
        /\ [kind |-> a.kind, latest |-> FALSE].latest = FALSE
    BY <2>1 DEF Attempts
  <2> QED BY <2>1, <2>2, <2>3, <2>4
<1>4. \A i \in 1..Len(repeated) : repeated[i] \in Steps
  BY <1>1
<1>5. \A k \in Steps, l \in BOOLEAN : [kind |-> k, latest |-> l] \in Attempts
  BY DEF Attempts
<1> QED BY <1>1, <1>2, <1>3, <1>4, <1>5

\* What the held attempts are after a restart.
LEMMA Repeating ==
  ASSUME TypeOK, Restart
  PROVE  /\ pending' \in Seq(Attempts) /\ Len(pending') = Len(repeated) + Len(pending)
         /\ \A i \in 1..Len(repeated) : pending'[i] = [kind |-> repeated[i], latest |-> FALSE]
         /\ \A i \in 1..Len(pending) : pending'[Len(repeated) + i] = pending[i]
<1> DEFINE a == [i \in 1..Len(repeated) |-> [kind |-> repeated[i], latest |-> FALSE]]
<1>1. repeated \in Seq(Steps) /\ pending \in Seq(Attempts)
  BY DEF TypeOK, Attempts
<1>2. a \in Seq(Attempts) /\ Len(a) = Len(repeated)
  BY <1>1 DEF Attempts
<1>3. pending' = a \o pending
  BY DEF Restart
<1> QED BY <1>1, <1>2, <1>3

\* What they are after a call.
LEMMA Calling ==
  ASSUME TypeOK, Call
  PROVE  /\ pending' \in Seq(Attempts) /\ Len(pending') = Len(pending) + 1
         /\ \A i \in 1..Len(pending) : pending'[i] = [kind |-> pending[i].kind, latest |-> FALSE]
         /\ pending'[Len(pending) + 1] = [kind |-> step, latest |-> TRUE]
<1> DEFINE a == [i \in 1..Len(pending) |-> [pending[i] EXCEPT !.latest = FALSE]]
<1>1. pending \in Seq(Attempts) /\ step \in Steps
  BY DEF TypeOK, Attempts
<1>2. /\ a \in Seq(Attempts) /\ Len(a) = Len(pending)
      /\ \A i \in 1..Len(pending) : a[i] = [kind |-> pending[i].kind, latest |-> FALSE]
  <2>1. \A i \in 1..Len(pending) :
          /\ [pending[i] EXCEPT !.latest = FALSE] = [kind |-> pending[i].kind, latest |-> FALSE]
          /\ [kind |-> pending[i].kind, latest |-> FALSE] \in Attempts
    BY Held
  <2>2. a = [i \in 1..Len(pending) |-> [kind |-> pending[i].kind, latest |-> FALSE]]
    BY <2>1
  <2>3. Len(pending) \in Nat
    BY <1>1
  <2>5. a = [i \in 1..Len(pending) |-> a[i]]
    OBVIOUS
  <2> HIDE DEF a
  <2>6. \A i \in 1..Len(pending) : a[i] \in Attempts
    BY <2>1, <2>2
  <2>4. a \in Seq(Attempts) /\ Len(a) = Len(pending)
    BY <2>3, <2>5, <2>6
  <2> QED BY <2>2, <2>4
<1>3. pending' = Append(a, [kind |-> step, latest |-> TRUE])
  BY DEF Call
<1>4. [kind |-> step, latest |-> TRUE] \in Attempts
  BY <1>1 DEF Attempts
<1> HIDE DEF a
<1>5. /\ pending' \in Seq(Attempts) /\ Len(pending') = Len(pending) + 1
      /\ pending'[Len(pending) + 1] = [kind |-> step, latest |-> TRUE]
      /\ \A i \in 1..Len(pending) : pending'[i] = a[i]
  BY <1>2, <1>3, <1>4
<1> QED BY <1>2, <1>5
-----------------------------------------------------------------------------
\* The three documents differ, and only one of them is not there.
LEMMA Distinct ==
  /\ Absent # Created /\ Absent # Merged /\ Created # Merged
  /\ ~Absent.found /\ Created.found /\ Merged.found
  /\ {Absent, Created, Merged} \subseteq Documents
BY DEF Absent, Created, Merged, Documents

\* What each mutation does to each of them, and what the cycle takes them for.
LEMMA Effects ==
  /\ \A d : Effect("create", d) = Created /\ Effect("delete", d) = Absent
  /\ Effect("merge", Absent) = Absent /\ Effect("merge", Created) = Merged
  /\ Effect("merge", Merged) = Merged
  /\ \A k \in Steps, d \in {Absent, Created, Merged} :
        /\ Refuses(k, d) <=> k = "merge" /\ d = Absent
        /\ Matches(d, Desired(k)) <=> d = Desired(k)
        /\ Matches(d, Previous(k)) <=> d = Previous(k)
  /\ Desired("create") = Created /\ Desired("merge") = Merged /\ Desired("delete") = Absent
  /\ Previous("create") = Absent /\ Previous("merge") = Created /\ Previous("delete") = Merged
<1>1. /\ \A d : Effect("create", d) = Created /\ Effect("delete", d) = Absent
      /\ Desired("create") = Created /\ Desired("merge") = Merged /\ Desired("delete") = Absent
      /\ Previous("create") = Absent /\ Previous("merge") = Created /\ Previous("delete") = Merged
  BY DEF Effect, Desired, Previous
<1>2. Refuses("merge", Absent) /\ ~Refuses("merge", Created) /\ ~Refuses("merge", Merged)
  BY DEF Refuses, Absent, Created, Merged
<1>3. CounterMerge(Created) = Merged /\ CounterMerge(Merged) = Merged
  <2>1. Merged.operation_id = "merge" /\ Created.operation_id # "merge"
    BY DEF Merged, Created
  <2> DEFINE e == [Created EXCEPT !.counter = @ + 1, !.operation_id = "merge"]
  <2>2. Created \in Documents /\ Merged \in Documents /\ Created.counter + 1 = 1
    BY DEF Created, Merged, Documents
  <2>3. e \in Documents
    <3>1. [Created EXCEPT !.counter = @ + 1] \in Documents
      BY <2>2 DEF Documents
    <3>2. e = [[Created EXCEPT !.counter = @ + 1] EXCEPT !.operation_id = "merge"]
      OBVIOUS
    <3> HIDE DEF e
    <3> QED BY <3>1, <3>2 DEF Documents
  <2>4. e.found = Created.found /\ e.counter = 1 /\ e.operation_id = "merge"
    BY <2>2 DEF Documents
  <2>5. Merged.found = Created.found /\ Merged.counter = 1 /\ Merged.operation_id = "merge"
    BY DEF Created, Merged
  <2>6. \A c, d \in Documents :
          c.found = d.found /\ c.counter = d.counter /\ c.operation_id = d.operation_id => c = d
    BY DEF Documents
  <2>7. e = Merged
    BY <2>2, <2>3, <2>4, <2>5, <2>6
  <2> QED BY <2>1, <2>7 DEF CounterMerge
<1>4. /\ Effect("merge", Absent) = Absent /\ Effect("merge", Created) = Merged
      /\ Effect("merge", Merged) = Merged
  BY <1>2, <1>3 DEF Effect
<1>5. \A k \in Steps, d \in {Absent, Created, Merged} :
        /\ Refuses(k, d) <=> k = "merge" /\ d = Absent
        /\ Matches(d, Desired(k)) <=> d = Desired(k)
        /\ Matches(d, Previous(k)) <=> d = Previous(k)
  <2>1. \A d, e \in {Absent, Created, Merged} : Matches(d, e) <=> d = e
    BY DEF Matches, Absent, Created, Merged
  <2>2. \A k \in Steps : {Desired(k), Previous(k)} \subseteq {Absent, Created, Merged}
    BY <1>1 DEF Steps
  <2>3. \A k \in Steps, d \in {Absent, Created, Merged} : Refuses(k, d) <=> k = "merge" /\ d = Absent
    BY <1>2 DEF Refuses, Steps
  <2> QED BY <2>1, <2>2, <2>3
<1> QED BY <1>1, <1>4, <1>5

\* The first state.
LEMMA InitBase == Init => Base
<1> SUFFICES ASSUME Init PROVE Base
  OBVIOUS
<1>1. server.replayable \in Nat /\ server.faults \in Nat /\ server.restarts \in Nat
  BY SoakConstants DEF Init
<1>2. TypeOK
  <2>1. doc \in Documents /\ step \in Steps /\ mode \in Ended \cup {"calling", "awaiting", "observing", "verifying"}
    BY Distinct DEF Init, Steps
  <2>2. pending \in Seq([kind : Steps, latest : BOOLEAN]) /\ repeated \in Seq(Steps) /\ Len(repeated) = 0
    BY DEF Init
  <2>3. Len(repeated) <= server.replayable /\ faults \in 0..server.faults /\ restarts \in 0..server.restarts
    BY <1>1, <2>2 DEF Init
  <2> QED BY <2>1, <2>2, <2>3 DEF Init, TypeOK
<1>3. Earned
  BY Distinct DEF Init, Earned
<1> QED BY <1>2, <1>3 DEF Base

\* What a mutation that takes effect does to the document and its life.
LEMMA Landing ==
  ASSUME TypeOK, Earned, NEW i \in 1..Len(pending), Land(i)
  PROVE  /\ doc' \in {Absent, Created, Merged}
         /\ doc' = Absent => reached' \in {"absent", "deleted"}
         /\ doc' = Created => reached' # "absent"
         /\ doc' = Merged => reached' \in {"merged", "deleted"}
         /\ reached # "absent" => reached' # "absent"
         /\ reached \in {"merged", "deleted"} => reached' \in {"merged", "deleted"}
         /\ reached = "deleted" => reached' = "deleted"
         /\ reached' \in {"absent", "created", "merged", "deleted"}
<1> DEFINE kind == pending[i].kind
<1>1. kind \in Steps /\ reached \in {"absent", "created", "merged", "deleted"}
  BY Held DEF TypeOK
<1>2. doc' = Effect(kind, doc) /\ reached' = NextReached(doc')
  BY DEF Land
<1>3. kind = "delete" => reached \in {"merged", "deleted"}
  BY DEF Earned
<1>4. /\ doc \in {Absent, Created, Merged}
      /\ doc = Absent => reached \in {"absent", "deleted"}
      /\ doc = Created => reached # "absent"
      /\ doc = Merged => reached \in {"merged", "deleted"}
  BY DEF Earned
<1>5. /\ reached = "absent" => reached' = IF doc' = Created THEN "created" ELSE reached
      /\ reached = "created" => reached' = IF doc' = Merged THEN "merged" ELSE reached
      /\ reached = "merged" => reached' = IF doc' = Absent THEN "deleted" ELSE reached
      /\ reached = "deleted" => reached' = reached
  BY <1>1, <1>2 DEF NextReached
<1> HIDE DEF kind
<1>6. CASE kind = "create"
  BY <1>1, <1>2, <1>4, <1>5, <1>6, Effects, Distinct
<1>7. CASE kind = "merge"
  BY <1>1, <1>2, <1>4, <1>5, <1>7, Effects, Distinct
<1>8. CASE kind = "delete"
  BY <1>1, <1>2, <1>3, <1>4, <1>5, <1>8, Effects, Distinct
<1> QED BY <1>1, <1>6, <1>7, <1>8 DEF Steps

\* The attempts that stay held when one is taken away.
LEMMA Others ==
  ASSUME TypeOK, NEW i \in 1..Len(pending), pending' = Drop(pending, i)
  PROVE  /\ pending' \in Seq(Attempts) /\ Len(pending') = Len(pending) - 1
         /\ \A j \in 1..Len(pending') :
              /\ (IF j < i THEN j ELSE j + 1) \in 1..Len(pending) \ {i}
              /\ pending'[j] = pending[IF j < i THEN j ELSE j + 1]
<1>1. pending \in Seq(Attempts)
  BY DEF TypeOK, Attempts
<1>2. \A j \in 1..(Len(pending) - 1) : (IF j < i THEN j ELSE j + 1) \in 1..Len(pending) \ {i}
  BY <1>1
<1> QED BY <1>1, <1>2, Dropped

\* No step takes the cycle out of its types, or ahead of the document.
LEMMA StepBase == Base /\ [Next]_vars => Base'
<1> SUFFICES ASSUME Base, [Next]_vars PROVE Base'
  OBVIOUS
<1>a. /\ server.replayable \in Nat /\ server.faults \in Nat /\ server.restarts \in Nat
      /\ faults \in 0..server.faults /\ restarts \in 0..server.restarts
  BY SoakConstants DEF Base, TypeOK
<1>b. pending \in Seq(Attempts) /\ repeated \in Seq(Steps) /\ TypeOK /\ Earned
  BY DEF Base, TypeOK, Attempts
<1>1. ASSUME NEW i \in 1..Len(pending), Land(i) PROVE Base'
  <2> DEFINE kind == pending[i].kind
  <2>1. kind \in Steps
    BY <1>b, Held
  <2>2. pending' = Drop(pending, i)
    BY <1>1 DEF Land
  <2>3. /\ pending' \in Seq(Attempts)
        /\ \A j \in 1..Len(pending') : \E m \in 1..Len(pending) : pending'[j] = pending[m]
    BY <1>b, <2>2, Others
  <2>4. /\ repeated' \in Seq(Steps) /\ Len(repeated') <= server.replayable
        /\ \A j \in 1..Len(repeated') :
              repeated'[j] = kind \/ \E m \in 1..Len(repeated) : repeated'[j] = repeated[m]
    <3>1. repeated' = Remembered(Append(repeated, kind))
      BY <1>1 DEF Land
    <3> QED BY <1>a, <1>b, <2>1, <3>1, Recalled
  <2>5. kind = "delete" => reached \in {"merged", "deleted"}
    BY <1>b DEF Earned
  <2>7. TypeOK'
    BY <1>1, <1>b, <2>3, <2>4, Landing, Distinct DEF Land, TypeOK, Attempts
  <2>8. /\ \A j \in 1..Len(pending') : pending'[j].kind = "delete" => reached' \in {"merged", "deleted"}
        /\ \A j \in 1..Len(repeated') : repeated'[j] = "delete" => reached' \in {"merged", "deleted"}
    BY <1>1, <1>b, <2>3, <2>4, <2>5, Landing DEF Earned
  <2>9. step' = step /\ mode' = mode
    BY <1>1 DEF Land
  <2> QED BY <1>1, <1>b, <2>7, <2>8, <2>9, Landing DEF Base, Earned
<1>2. ASSUME NEW i \in 1..Len(pending), Forget(i) PROVE Base'
  <2>2. pending' = Drop(pending, i)
    BY <1>2 DEF Forget
  <2>3. /\ pending' \in Seq(Attempts)
        /\ \A j \in 1..Len(pending') : \E m \in 1..Len(pending) : pending'[j] = pending[m]
    BY <1>b, <2>2, Others
  <2>4. TypeOK'
    BY <1>2, <1>a, <1>b, <2>3 DEF Forget, TypeOK, Attempts
  <2>5. Earned'
    BY <1>2, <1>b, <2>3 DEF Forget, Earned
  <2> QED BY <2>4, <2>5 DEF Base
<1>3. CASE Restart
  <2>1. TypeOK'
    BY <1>3, <1>a, <1>b, Repeating DEF Restart, TypeOK, Attempts
  <2>2. ASSUME NEW j \in 1..Len(pending'), pending'[j].kind = "delete"
        PROVE  reached \in {"merged", "deleted"}
    <3>1. CASE j \in 1..Len(repeated)
      <4>1. repeated[j] = "delete"
        <5>1. pending'[j] = [kind |-> repeated[j], latest |-> FALSE]
          BY <1>3, <1>b, <3>1, Repeating
        <5> QED BY <2>2, <5>1
      <4> QED BY <1>b, <3>1, <4>1 DEF Earned
    <3>2. CASE j > Len(repeated)
      <4>1. j - Len(repeated) \in 1..Len(pending) /\ pending'[j] = pending[j - Len(repeated)]
        BY <1>3, <1>b, <3>2, Repeating
      <4> QED BY <1>b, <2>2, <4>1 DEF Earned
    <3> QED BY <1>b, <3>1, <3>2
  <2>3. Earned'
    BY <1>3, <1>b, <2>2 DEF Restart, Earned
  <2> QED BY <2>1, <2>3 DEF Base
<1>4. CASE Call
  <2>1. TypeOK'
    BY <1>4, <1>b, Calling DEF Call, Cycle, TypeOK, Attempts, Ended
  <2>2. ASSUME NEW j \in 1..Len(pending'), pending'[j].kind = "delete"
        PROVE  reached \in {"merged", "deleted"}
    <3>1. CASE j \in 1..Len(pending)
      <4>1. pending[j].kind = "delete"
        <5>1. pending'[j] = [kind |-> pending[j].kind, latest |-> FALSE]
          BY <1>4, <1>b, <3>1, Calling
        <5> QED BY <2>2, <5>1
      <4> QED BY <1>b, <3>1, <4>1 DEF Earned
    <3>2. CASE j = Len(pending) + 1
      BY <1>4, <1>b, <2>2, <3>2, Calling DEF Earned
    <3> QED BY <1>4, <1>b, <3>1, <3>2, Calling
  <2>3. Earned'
    BY <1>4, <1>b, <2>2 DEF Call, Cycle, Earned
  <2> QED BY <2>1, <2>3 DEF Base
<1>5. ASSUME Advance, Matches(doc, Desired(step)), overdue' \in BOOLEAN,
             UNCHANGED <<pending, outcome, faults, Cycle>>
      PROVE  Base'
  <2>1. step \in Steps /\ doc = Desired(step)
    BY <1>5, <1>b, Effects DEF TypeOK, Earned
  <2>2. TypeOK'
    BY <1>5, <1>b, <2>1 DEF TypeOK, Advance, Cycle, Following, Steps, Ended
  <2>3. Earned'
    BY <1>5, <1>b, <2>1, Effects, Distinct DEF Earned, Advance, Cycle, Following, Steps
  <2> QED BY <2>2, <2>3 DEF Base
<1>6. CASE Observe
  <2>a. overdue' \in BOOLEAN
    BY <1>6, <1>b DEF Observe, TypeOK, CreateHeld
  <2>1. CASE Matches(doc, Desired(step)) /\ Advance
    BY <1>5, <1>6, <2>a, <2>1 DEF Observe
  <2>2. CASE mode' \in {"observing", "failed"} /\ timer' \in BOOLEAN /\ step' = step
    BY <1>6, <1>b, <2>a, <2>2 DEF Observe, Base, TypeOK, Earned, Cycle, Ended
  <2> QED BY <2>1, <2>2, <1>6, <1>b DEF Observe, TypeOK
<1>7. CASE Verify
  <2>1. CASE Matches(doc, Desired(step)) /\ Advance
    BY <1>5, <1>7, <1>b, <2>1 DEF Verify, TypeOK
  <2>2. CASE ~Matches(doc, Desired(step))
    BY <1>7, <1>b, <2>2 DEF Verify, Base, TypeOK, Earned, Cycle, Ended
  <2> QED BY <2>1, <2>2, <1>7 DEF Verify
<1>8. CASE Unreachable \/ LoseAnswer
  BY <1>8, <1>a, <1>b DEF Unreachable, LoseAnswer, Base, TypeOK, Earned, Cycle, Ended
<1>9. CASE Answer \/ TimeOut \/ Retry \/ Expire
  BY <1>9, <1>b DEF Answer, TimeOut, Retry, Expire, Base, TypeOK, Earned, Cycle, Ended, CreateHeld
<1>10. CASE UNCHANGED vars
  BY <1>10, <1>b DEF vars, Base, TypeOK, Earned
<1> QED BY <1>1, <1>2, <1>3, <1>4, <1>6, <1>7, <1>8, <1>9, <1>10 DEF Next, Server, Worker
-----------------------------------------------------------------------------
\* The cycle's state has its types, and no step of server or cycle gets ahead
\* of the document, whatever the server does.
THEOREM CycleTypes == Spec => [](TypeOK /\ Earned)
BY InitBase, StepBase, PTL DEF Spec, Base

\* A cycle that counts as completed has really created, merged and deleted the
\* document, even against a server that loses what it acknowledged.
THEOREM CompletionIsEarned == Spec => []DoneIsEarned
<1>1. TypeOK /\ Earned => DoneIsEarned
  BY DEF Earned, DoneIsEarned
<1> QED BY <1>1, CycleTypes, PTL
-----------------------------------------------------------------------------
(* What a correct server's answers and effects look like to the cycle. *)

\* The server's repetitions stay within what the cycle absorbs: a restarted
\* Worker repeats at most one record.
Absorbed(s) == s.asynchronous => s.replayable <= 1

\* The mutation applied last, the next one, and the document between them.
Applied == CASE reached = "absent" -> "none" [] reached = "created" -> "create"
             [] reached = "merged" -> "merge" [] reached = "deleted" -> "delete"
Coming == CASE reached = "absent" -> "create" [] reached = "created" -> "merge"
            [] reached = "merged" -> "delete" [] reached = "deleted" -> "none"
Stored == CASE reached = "absent" -> Absent [] reached = "created" -> Created
            [] reached = "merged" -> Merged [] reached = "deleted" -> Absent

\* The document is the one the cycle's life has led to, and the cycle is at the
\* mutation applied last or at the next.
AtStep == doc = Stored /\ step \in {Applied, Coming}

\* Asynchronous: everything held or repeatable is the mutation applied last or
\* the cycle's own, the former before the latter.
InOrder ==
  /\ \A i \in 1..Len(pending) : pending[i].kind \in {Applied, step}
  /\ \A i, j \in 1..Len(pending) :
       i < j /\ pending[j].kind = Applied => pending[i].kind = Applied
  /\ \A i \in 1..Len(repeated) : repeated[i] = Applied

\* Synchronous: merges and deletes may be held in any number and order, but none
\* of a step to come; the cycle waits for one of its own step; and a create is
\* held alone, while the cycle waits for it or observes.
Harmless ==
  /\ \A i \in 1..Len(pending) :
       /\ pending[i].kind = "create" => step = "create"
       /\ pending[i].kind = "merge"  => step # "create"
       /\ pending[i].kind = "delete" => step = "delete"
       /\ Awaited(pending[i]) => pending[i].kind = step
  /\ step = "create" /\ pending # <<>> =>
       /\ Len(pending) = 1 /\ mode \notin {"calling", "verifying", "done"}
       /\ mode = "awaiting" => outcome = "unknown"

Obedient ==
  /\ AtStep
  /\ outcome # "refused" /\ (mode = "failed" => server.faulty)
  /\ mode = "done" => reached = "deleted"
  /\ server.asynchronous => InOrder /\ (mode = "awaiting" => outcome = "applied")
  /\ ~server.asynchronous => Harmless

\* What follows of the three.
LEMMA Order ==
  ASSUME TypeOK
  PROVE  /\ Applied \in Steps \cup {"none"} /\ Coming \in Steps \cup {"none"} /\ Applied # Coming
         /\ Stored \in {Absent, Created, Merged}
         /\ \A k \in Steps : k = Applied => Effect(k, Stored) = Stored /\ Desired(k) = Stored
         /\ \A k \in Steps : k = Coming => Previous(k) = Stored /\ Desired(k) # Stored
         /\ Applied \in {"create", "merge"} => Following(Applied) = Coming
         /\ Applied = "delete" => reached = "deleted"
         /\ \A k \in Steps : k \in {Applied, Coming} => ~(k = "merge" /\ Stored = Absent)
<1>1. reached \in {"absent", "created", "merged", "deleted"}
  BY DEF TypeOK
<1>2. CASE reached = "absent"
  BY <1>2, Effects, Distinct DEF Applied, Coming, Stored, Steps, Following
<1>3. CASE reached = "created"
  BY <1>3, Effects, Distinct DEF Applied, Coming, Stored, Steps, Following
<1>4. CASE reached = "merged"
  BY <1>4, Effects, Distinct DEF Applied, Coming, Stored, Steps, Following
<1>5. CASE reached = "deleted"
  BY <1>5, Effects, Distinct DEF Applied, Coming, Stored, Steps, Following
<1> QED BY <1>1, <1>2, <1>3, <1>4, <1>5

\* The mutation applied last changes nothing, the next one takes the document
\* a step further.
LEMMA Progress ==
  ASSUME TypeOK, doc = Stored, NEW k \in Steps, k \in {Applied, Coming},
         doc' = Effect(k, doc), reached' = NextReached(doc')
  PROVE  /\ ~Refuses(k, doc) /\ doc' = Stored' /\ Applied' = k
         /\ k = Applied => reached' = reached /\ Coming' = Coming
         /\ k = Coming => Coming' # Coming
<1>1. reached \in {"absent", "created", "merged", "deleted"}
  BY DEF TypeOK
<1>2. CASE reached = "absent"
  BY <1>2, Effects, Distinct DEF Applied, Coming, Stored, Steps, NextReached
<1>3. CASE reached = "created"
  BY <1>3, Effects, Distinct DEF Applied, Coming, Stored, Steps, NextReached
<1>4. CASE reached = "merged"
  BY <1>4, Effects, Distinct DEF Applied, Coming, Stored, Steps, NextReached
<1>5. CASE reached = "deleted"
  BY <1>5, Effects, Distinct DEF Applied, Coming, Stored, Steps, NextReached
<1> QED BY <1>1, <1>2, <1>3, <1>4, <1>5

\* The first state.
LEMMA InitObedient == Init => Obedient
BY Distinct DEF Init, Obedient, AtStep, InOrder, Harmless, Applied, Coming, Stored, Ended

\* Taking one attempt away leaves the others in order.
LEMMA RemainsInOrder ==
  ASSUME TypeOK, InOrder, NEW i \in 1..Len(pending), pending' = Drop(pending, i)
  PROVE  /\ \A j \in 1..Len(pending') : pending'[j].kind \in {Applied, step}
         /\ \A j, k \in 1..Len(pending') :
              j < k /\ pending'[k].kind = Applied => pending'[j].kind = Applied
<1> DEFINE from(j) == IF j < i THEN j ELSE j + 1
<1>1. \A j \in 1..Len(pending') : from(j) \in 1..Len(pending) /\ pending'[j] = pending[from(j)]
  BY Others
<1>2. \A j, k \in 1..Len(pending') : j < k => from(j) < from(k)
  BY Others, Held
<1> HIDE DEF from
<1>3. \A j \in 1..Len(pending') : pending'[j].kind \in {Applied, step}
  BY <1>1 DEF InOrder
<1>4. ASSUME NEW j \in 1..Len(pending'), NEW k \in 1..Len(pending'), j < k, pending'[k].kind = Applied
      PROVE  pending'[j].kind = Applied
  <2>1. from(j) \in 1..Len(pending) /\ from(k) \in 1..Len(pending) /\ from(j) < from(k)
    BY <1>1, <1>2, <1>4
  <2>2. pending[from(k)].kind = Applied
    BY <1>1, <1>4
  <2>3. pending[from(j)].kind = Applied
    BY <2>1, <2>2 DEF InOrder
  <2> QED BY <1>1, <2>3
<1> QED BY <1>3, <1>4

\* Fewer attempts do no more harm.
LEMMA FewerHarmless ==
  ASSUME Harmless, UNCHANGED <<step, mode>>, step = "create" => pending' = <<>>,
         \A j \in 1..Len(pending') : \E m \in 1..Len(pending) : pending'[j] = pending[m]
  PROVE  Harmless'
<1>1. ASSUME NEW j \in 1..Len(pending')
      PROVE  /\ pending'[j].kind = "create" => step' = "create"
             /\ pending'[j].kind = "merge"  => step' # "create"
             /\ pending'[j].kind = "delete" => step' = "delete"
             /\ mode' = "awaiting" /\ pending'[j].latest => pending'[j].kind = step'
  <2>1. PICK m \in 1..Len(pending) : pending'[j] = pending[m]
    BY <1>1
  <2> QED BY <2>1 DEF Harmless, Awaited
<1> QED BY <1>1 DEF Harmless, Awaited

\* An effect keeps the order.
LEMMA LandObeys ==
  ASSUME Base, Obedient, Absorbed(server), NEW i \in 1..Len(pending), Land(i)
  PROVE  Obedient'
<1> DEFINE kind == pending[i].kind
<1>a. TypeOK /\ Earned /\ AtStep /\ reached \in {"absent", "created", "merged", "deleted"}
  BY DEF Base, Obedient, TypeOK
<1>1. kind \in Steps /\ doc = Stored /\ step \in Steps /\ step \in {Applied, Coming}
  BY <1>a, Held DEF AtStep, TypeOK
<1>2. /\ pending' = Drop(pending, i) /\ doc' = Effect(kind, doc) /\ reached' = NextReached(doc')
      /\ step' = step /\ mode' = mode /\ server' = server
      /\ repeated' = Remembered(Append(repeated, kind))
  BY DEF Land
<1>3. /\ Len(pending') = Len(pending) - 1 /\ Len(pending) \in Nat
      /\ \A j \in 1..Len(pending') :
           /\ (IF j < i THEN j ELSE j + 1) \in 1..Len(pending) \ {i}
           /\ pending'[j] = pending[IF j < i THEN j ELSE j + 1]
  BY <1>a, <1>2, Others, Held
<1>4. kind \in {Applied, Coming} =>
        /\ ~Refuses(kind, doc) /\ doc' = Stored' /\ Applied' = kind
        /\ kind = Applied => Coming' = Coming
  BY <1>a, <1>1, <1>2, Progress
<1>b. outcome' = IF ~server.asynchronous /\ Awaited(pending[i])
                 THEN IF Refuses(kind, doc) THEN "refused" ELSE "applied" ELSE outcome
  BY DEF Land
<1> HIDE DEF kind
<1>5. CASE server.asynchronous
  <2>a. InOrder /\ kind \in {Applied, step} /\ server.replayable \in Nat /\ server.replayable <= 1
    BY <1>a, <1>5, SoakConstants DEF Obedient, InOrder, Absorbed, TypeOK, kind
  <2>b. kind \in {Applied, Coming}
    BY <1>1, <2>a
  <2>1. repeated' \in Seq(Steps) /\ \A j \in 1..Len(repeated') : repeated'[j] = kind
    BY <1>a, <1>1, <1>2, <2>a, Recalled
  <2>2. step' \in {Applied', Coming'} /\ (mode' = "done" => reached' = "deleted") /\ outcome' = outcome
    BY <1>1, <1>2, <1>4, <1>5, <2>a, <2>b, <1>a, Landing DEF Land, Obedient
  <2>3. InOrder'
    <3>2. CASE kind = Applied
      <4>1. /\ \A j \in 1..Len(pending') : pending'[j].kind \in {Applied, step}
            /\ \A j, k \in 1..Len(pending') :
                 j < k /\ pending'[k].kind = Applied => pending'[j].kind = Applied
        BY <1>a, <1>2, <2>a, RemainsInOrder
      <4> QED BY <1>2, <1>4, <2>1, <2>b, <3>2, <4>1 DEF InOrder
    <3>3. CASE kind # Applied
      <4>1. i = 1
        BY <1>5 DEF Land
      <4>2. \A j \in 1..Len(pending) : j # 1 => pending[j].kind = step
        BY <1>3, <2>a, <3>3, <4>1 DEF InOrder, kind
      <4>3. \A j \in 1..Len(pending') : pending'[j].kind = step
        BY <1>3, <4>1, <4>2
      <4> QED BY <1>2, <1>4, <2>1, <2>a, <2>b, <3>3, <4>3 DEF InOrder
    <3> QED BY <3>2, <3>3
  <2> QED BY <1>2, <1>4, <1>5, <2>2, <2>3, <2>b DEF Obedient, AtStep
<1>6. CASE ~server.asynchronous
  <2>a. /\ Harmless /\ outcome # "refused"
        /\ kind = "create" => step = "create"
        /\ kind = "merge"  => step # "create"
        /\ kind = "delete" => step = "delete"
        /\ Awaited(pending[i]) => kind = step
    BY <1>6 DEF Obedient, Harmless, kind
  <2>1. /\ kind \in {Applied, Coming} \/ (kind = "merge" /\ reached = "deleted")
        /\ kind = step \/ kind = Applied \/ (kind = "merge" /\ reached = "deleted")
    BY <1>a, <1>1, <2>a DEF Applied, Coming, Steps
  <2>2. /\ doc' = Stored' /\ step' \in {Applied', Coming'} /\ outcome' # "refused"
        /\ Awaited(pending[i]) => outcome' = "applied"
        /\ outcome' \in {outcome, "applied"}
    <3>1. CASE kind \in {Applied, Coming}
      <4>1. kind = step \/ kind = Applied
        BY <2>1, <3>1 DEF Applied, Coming
      <4> QED BY <1>1, <1>2, <1>4, <1>6, <1>b, <2>a, <3>1, <4>1
    <3>2. CASE kind = "merge" /\ reached = "deleted"
      <4>1. doc = Absent /\ doc' = Absent /\ reached' = reached /\ step = "delete"
        BY <1>1, <1>2, <3>2, Effects DEF Stored, Applied, Coming, Steps, NextReached
      <4>2. ~Awaited(pending[i]) /\ outcome' = outcome
        BY <1>6, <1>b, <2>a, <3>2, <4>1
      <4> QED BY <1>1, <1>2, <2>a, <4>1, <4>2 DEF Stored, Applied, Coming
    <3> QED BY <2>1, <3>1, <3>2
  <2>3. mode' = "done" => reached' = "deleted"
    BY <1>a, <1>2, Landing DEF Obedient
  <2>4. /\ step' = "create" => pending' = <<>>
        /\ \A j \in 1..Len(pending') : \E m \in 1..Len(pending) : pending'[j] = pending[m]
    <3>1. pending # <<>> /\ Len(pending') = Len(pending) - 1
      BY <1>3
    <3>2. step = "create" => Len(pending') = 0
      BY <2>a, <3>1 DEF Harmless
    <3>3. pending' \in Seq(Attempts)
      BY <1>a, <1>2, Others
    <3> QED BY <1>2, <1>3, <3>2, <3>3
  <2>5. Harmless'
    BY <1>2, <2>a, <2>4, FewerHarmless
  <2> QED BY <1>2, <1>6, <2>2, <2>3, <2>5 DEF Obedient, AtStep
<1> QED BY <1>5, <1>6

\* A forgotten attempt, too.
LEMMA ForgetObeys ==
  ASSUME Base, Obedient, NEW i \in 1..Len(pending), Forget(i)
  PROVE  Obedient'
<1>a. TypeOK /\ Earned
  BY DEF Base
<1>1. pending' = Drop(pending, i) /\ UNCHANGED <<server, doc, repeated, step, mode, reached>>
  BY DEF Forget
<1>2. Applied' = Applied /\ Coming' = Coming /\ Stored' = Stored
  BY <1>1 DEF Applied, Coming, Stored
<1>3. server.asynchronous => InOrder'
  BY <1>a, <1>1, <1>2, RemainsInOrder DEF InOrder, Obedient
<1>4. outcome' # "refused" /\ (server.asynchronous => outcome' = outcome)
  BY DEF Forget, Obedient
<1>5. ~server'.asynchronous => Harmless'
  <2> SUFFICES ASSUME ~server.asynchronous PROVE Harmless'
    BY <1>1
  <2>a. Harmless
    BY DEF Obedient
  <2>1. /\ Len(pending') = Len(pending) - 1 /\ Len(pending) \in Nat /\ pending' \in Seq(Attempts)
        /\ \A j \in 1..Len(pending') : \E m \in 1..Len(pending) : pending'[j] = pending[m]
    BY <1>a, <1>1, Others, Held
  <2>2. pending # <<>>
    BY <2>1
  <2>3. step = "create" => Len(pending) = 1
    BY <2>2, <2>a DEF Harmless
  <2>4. ASSUME step = "create" PROVE pending' = <<>>
    <3>1. Len(pending') = 1 - 1
      BY <2>1, <2>3, <2>4
    <3> QED BY <2>1, <3>1
  <2> QED BY <1>1, <2>a, <2>1, <2>4, FewerHarmless
<1> QED BY <1>1, <1>2, <1>3, <1>4, <1>5 DEF Obedient, AtStep

\* What a restart repeats was applied before everything still held.
LEMMA RestartObeys == ASSUME Base, Obedient, Restart PROVE Obedient'
<1>a. TypeOK /\ InOrder /\ server.asynchronous
  BY DEF Base, Obedient, Restart
<1>1. repeated' = <<>> /\ UNCHANGED <<server, doc, step, mode, outcome, reached>>
  BY DEF Restart
<1>2. Applied' = Applied /\ Coming' = Coming /\ Stored' = Stored
  BY <1>1 DEF Applied, Coming, Stored
<1> DEFINE n == Len(repeated)
<1>3. n \in Nat /\ Len(pending) \in Nat /\ Len(pending') = n + Len(pending)
  BY <1>a, Repeating, Held
<1>4. \A j \in 1..n : pending'[j].kind = Applied
  <2> SUFFICES ASSUME NEW j \in 1..n PROVE pending'[j].kind = Applied
    OBVIOUS
  <2>1. pending'[j] = [kind |-> repeated[j], latest |-> FALSE]
    BY <1>a, Repeating
  <2>2. repeated[j] = Applied
    BY <1>a DEF InOrder
  <2> QED BY <2>1, <2>2
<1>5. \A j \in 1..Len(pending') : j > n => j - n \in 1..Len(pending) /\ pending'[j] = pending[j - n]
  <2>1. \A j \in 1..Len(pending) : pending'[n + j] = pending[j]
    BY <1>a, Repeating
  <2> SUFFICES ASSUME NEW j \in 1..Len(pending'), j > n
               PROVE  j - n \in 1..Len(pending) /\ pending'[j] = pending[j - n]
    OBVIOUS
  <2>2. j - n \in 1..Len(pending) /\ n + (j - n) = j
    BY <1>3
  <2> QED BY <2>1, <2>2
<1> HIDE DEF n
<1>6. ASSUME NEW j \in 1..Len(pending') PROVE pending'[j].kind \in {Applied, step}
  <2>1. CASE j \in 1..n
    BY <1>4, <2>1
  <2>2. CASE j > n
    BY <1>a, <1>5, <2>2 DEF InOrder
  <2> QED BY <1>3, <2>1, <2>2
<1>7. ASSUME NEW j \in 1..Len(pending'), NEW k \in 1..Len(pending'), j < k, pending'[k].kind = Applied
      PROVE  pending'[j].kind = Applied
  <2>1. CASE j <= n
    BY <1>3, <1>4, <2>1
  <2>2. CASE j > n
    <3>1. j - n \in 1..Len(pending) /\ k - n \in 1..Len(pending) /\ j - n < k - n
      BY <1>3, <1>5, <1>7, <2>2
    <3> QED BY <1>a, <1>3, <1>5, <1>7, <2>2, <3>1 DEF InOrder
  <2> QED BY <1>3, <2>1, <2>2
<1>8. InOrder'
  BY <1>1, <1>2, <1>6, <1>7 DEF InOrder
<1> QED BY <1>a, <1>1, <1>2, <1>8 DEF Obedient, AtStep

\* A new attempt is of the cycle's step, and so after all that was applied.
LEMMA CallObeys == ASSUME Base, Obedient, Call PROVE Obedient'
<1>a. TypeOK /\ mode = "calling" /\ step \in Steps
  BY DEF Base, Call, TypeOK
<1>1. /\ mode' = "awaiting" /\ outcome' = IF server.asynchronous THEN "applied" ELSE "unknown"
      /\ UNCHANGED <<server, doc, repeated, step, reached, faults>>
  BY DEF Call, Cycle
<1>2. Applied' = Applied /\ Coming' = Coming /\ Stored' = Stored
  BY <1>1 DEF Applied, Coming, Stored
<1> DEFINE n == Len(pending)
<1>3. n \in Nat /\ Len(pending') = n + 1
  BY <1>a, Calling, Held
<1>4. ASSUME NEW j \in 1..n PROVE pending'[j].kind = pending[j].kind /\ ~pending'[j].latest
  <2>1. pending'[j] = [kind |-> pending[j].kind, latest |-> FALSE]
    BY <1>a, Calling
  <2> QED BY <2>1
<1>5. pending'[n + 1].kind = step /\ pending'[n + 1].latest
  <2>1. pending'[n + 1] = [kind |-> step, latest |-> TRUE]
    BY <1>a, Calling
  <2> QED BY <2>1
<1> HIDE DEF n
<1>6. \A j \in 1..Len(pending') : j \in 1..n \/ j = n + 1
  BY <1>3
<1>7. server.asynchronous => InOrder'
  <2> SUFFICES ASSUME InOrder PROVE InOrder'
    BY DEF Obedient
  <2>1. \A j \in 1..n : pending[j].kind \in {Applied, step}
    BY DEF InOrder, n
  <2>2. \A j \in 1..Len(pending') : pending'[j].kind \in {Applied, step}
    BY <1>4, <1>5, <1>6, <2>1
  <2>3. ASSUME NEW j \in 1..Len(pending'), NEW k \in 1..Len(pending'), j < k, pending'[k].kind = Applied
        PROVE  pending'[j].kind = Applied
    <3>1. j \in 1..n
      BY <1>3, <2>3
    <3>2. CASE k = n + 1
      BY <1>4, <1>5, <2>1, <2>3, <3>1, <3>2
    <3>3. CASE k \in 1..n
      BY <1>4, <2>3, <3>1, <3>3 DEF InOrder, n
    <3> QED BY <1>6, <3>2, <3>3
  <2> QED BY <1>1, <1>2, <2>2, <2>3 DEF InOrder
<1>8. ~server'.asynchronous => Harmless'
  <2> SUFFICES ASSUME ~server.asynchronous PROVE Harmless'
    BY <1>1
  <2>a. Harmless
    BY DEF Obedient
  <2>1. step = "create" => Len(pending') = 1
    <3>1. step = "create" => pending = <<>>
      BY <1>a, <2>a DEF Harmless
    <3> QED BY <1>3, <3>1 DEF n
  <2>2. ASSUME NEW j \in 1..n
        PROVE  /\ pending'[j].kind = "create" => step = "create"
               /\ pending'[j].kind = "merge"  => step # "create"
               /\ pending'[j].kind = "delete" => step = "delete"
               /\ ~pending'[j].latest
    BY <1>4, <2>a DEF Harmless, n
  <2>3. \A j \in 1..Len(pending') :
          /\ pending'[j].kind = "create" => step = "create"
          /\ pending'[j].kind = "merge"  => step # "create"
          /\ pending'[j].kind = "delete" => step = "delete"
          /\ pending'[j].latest => pending'[j].kind = step
    BY <1>a, <1>5, <1>6, <2>2 DEF Steps
  <2> QED BY <1>1, <2>1, <2>3 DEF Harmless, Awaited
<1> QED BY <1>1, <1>2, <1>7, <1>8 DEF Obedient, AtStep

\* A step that leaves the server and the cycle's step alone keeps the order.
LEMMA QuietInOrder ==
  ASSUME UNCHANGED <<pending, step, Cycle>>
  PROVE  /\ AtStep => AtStep'
         /\ InOrder => InOrder'
         /\ server' = server /\ reached' = reached /\ doc' = doc
         /\ Applied' = Applied /\ Coming' = Coming
<1>1. Applied' = Applied /\ Coming' = Coming /\ Stored' = Stored
  BY DEF Cycle, Applied, Coming, Stored
<1> QED BY <1>1 DEF AtStep, InOrder, Cycle

\* What the cycle sees of the document, and where it goes on from there.
LEMMA SeesProgress ==
  ASSUME Base, Obedient
  PROVE  /\ Matches(doc, Desired(step)) <=> step = Applied
         /\ Matches(doc, Previous(step)) \/ Matches(doc, Desired(step))
<1>1. TypeOK /\ AtStep /\ step \in Steps /\ doc \in {Absent, Created, Merged}
  BY DEF Base, Obedient, TypeOK, Earned
<1>2. doc = Stored /\ step \in {Applied, Coming}
  BY <1>1 DEF AtStep
<1> QED BY <1>1, <1>2, Order, Effects

\* The cycle goes on once its step is the mutation applied last, and leaves no
\* create behind.
LEMMA AdvanceObeys ==
  ASSUME Base, Obedient, Advance, step = Applied, mode \in {"observing", "verifying"},
         mode = "observing" => ~CreateHeld,
         UNCHANGED <<pending, outcome, faults, Cycle>>
  PROVE  Obedient'
<1>a. TypeOK /\ AtStep /\ step \in Steps /\ pending \in Seq(Attempts) /\ Len(pending) \in Nat
  BY Held DEF Base, Obedient, TypeOK, Attempts
<1>1. Applied' = Applied /\ Coming' = Coming /\ Stored' = Stored /\ UNCHANGED <<server, doc, repeated, reached>>
  BY DEF Applied, Coming, Stored, Cycle
<1>2. /\ Applied # Coming
      /\ step' \in {Applied, Coming} /\ (mode' = "done" => reached = "deleted")
      /\ mode' \in {"done", "calling"} /\ step' \in {"merge", "delete"}
      /\ step = "delete" => step' = "delete"
  BY <1>a, Order DEF Advance, Steps, Following
<1>3. server.asynchronous => InOrder'
  BY <1>1, <1>2, <1>a DEF InOrder, Obedient
<1>4. ~server'.asynchronous => Harmless'
  <2> SUFFICES ASSUME ~server.asynchronous PROVE Harmless'
    BY <1>1
  <2>a. Harmless
    BY DEF Obedient
  <2>1. step = "create" => \A i \in 1..Len(pending) : FALSE
    <3> SUFFICES ASSUME step = "create", NEW i \in 1..Len(pending) PROVE FALSE
      OBVIOUS
    <3>1. pending[i].kind = "create"
      BY <1>a, <2>a, Held DEF Harmless, Steps
    <3>2. CreateHeld
      BY <3>1 DEF CreateHeld
    <3>3. mode \notin {"verifying"}
      BY <2>a DEF Harmless
    <3> QED BY <3>2, <3>3
  <2>2. \A i \in 1..Len(pending) : pending[i].kind # "create"
    BY <2>a, <2>1 DEF Harmless
  <2>3. step' = "merge" => \A i \in 1..Len(pending) : pending[i].kind # "delete"
    BY <2>a, <1>2 DEF Harmless
  <2> QED BY <1>a, <1>2, <2>a, <2>2, <2>3 DEF Harmless, Awaited
<1> QED BY <1>1, <1>2, <1>3, <1>4, <1>a DEF Obedient, AtStep

\* What the cycle does while it waits keeps the order; a retry does as long as
\* no create is held.
LEMMA WaitingObeys ==
  ASSUME Base, Obedient, Unreachable \/ LoseAnswer \/ Answer \/ TimeOut \/ Retry \/ Expire,
         Retry => ~CreateHeld
  PROVE  Obedient'
<1>a. TypeOK /\ pending \in Seq(Attempts) /\ Len(pending) \in Nat
  BY Held DEF Base, TypeOK, Attempts
<1>1. /\ UNCHANGED <<pending, step, Cycle>> /\ outcome' = outcome
      /\ mode' \notin {"awaiting", "done"} /\ (mode' = "failed" => outcome \notin {"unknown", "applied"})
  BY DEF Unreachable, LoseAnswer, Answer, TimeOut, Retry, Expire, Cycle
<1>2. /\ server' = server /\ reached' = reached /\ pending' = pending /\ step' = step
      /\ AtStep' /\ (InOrder => InOrder')
  BY <1>1, QuietInOrder DEF Obedient
<1>3. mode' # "failed"
  BY <1>a, <1>1 DEF Obedient, TypeOK
<1>4. ASSUME ~server.asynchronous PROVE Harmless'
  <2>a. Harmless
    BY <1>4 DEF Obedient
  <2>1. ASSUME step = "create", pending # <<>> PROVE mode' \notin {"calling", "verifying"}
    <3>0. 1 \in 1..Len(pending)
      BY <1>a, <2>1
    <3>1. 1 \in 1..Len(pending) /\ pending[1].kind \in Steps
      BY <1>a, <3>0, Held
    <3>2. pending[1].kind = "create"
      BY <2>1, <2>a, <3>1 DEF Harmless, Steps
    <3>3. CreateHeld /\ mode = "awaiting" => outcome = "unknown"
      BY <1>4, <2>1, <2>a, <3>1, <3>2 DEF Harmless, CreateHeld
    <3>4. CreateHeld
      BY <1>4, <3>1, <3>2 DEF CreateHeld
    <3> QED BY <3>3, <3>4 DEF Unreachable, LoseAnswer, Answer, TimeOut, Retry, Expire
  <2> QED BY <1>1, <1>2, <2>a, <2>1 DEF Harmless, Awaited
<1> QED BY <1>1, <1>2, <1>3, <1>4 DEF Obedient

\* A reading keeps the order, as long as no create is left behind: what it sees
\* is always an expected document.
LEMMA SightObeys ==
  ASSUME Base, Obedient, Observe \/ Verify, ~overdue' PROVE Obedient'
<1>1. /\ mode \in {"observing", "verifying"} /\ UNCHANGED <<pending, outcome, faults, Cycle>>
      /\ \/ Matches(doc, Desired(step)) /\ Advance
         \/ UNCHANGED <<mode, step>>
         \/ mode' = "failed" /\ server.faulty /\ UNCHANGED step
  BY SeesProgress DEF Observe, Verify
<1>2. CASE Matches(doc, Desired(step)) /\ Advance
  <2>1. mode = "observing" => ~CreateHeld
    BY <1>2 DEF Observe, Verify, Advance
  <2> QED BY <1>1, <1>2, <2>1, SeesProgress, AdvanceObeys
<1>3. CASE UNCHANGED <<mode, step>> \/ (mode' = "failed" /\ server.faulty /\ UNCHANGED step)
  <2>1. AtStep' /\ (InOrder => InOrder') /\ UNCHANGED <<server, reached>>
    BY <1>1, <1>3, QuietInOrder DEF Obedient
  <2>2. ~server.asynchronous => Harmless'
    BY <1>1, <1>3 DEF Obedient, Harmless, Awaited
  <2> QED BY <1>1, <1>3, <2>1, <2>2 DEF Obedient
<1> QED BY <1>1, <1>2, <1>3

\* As long as the server's repetitions are absorbed and no create is overdue, no
\* step disturbs the order.
InControl == Absorbed(server) /\ ~overdue => Obedient

LEMMA StepObeys ==
  ASSUME Base, InControl, [Next]_vars PROVE InControl'
<1> SUFFICES ASSUME Absorbed(server'), ~overdue' PROVE Obedient'
  BY DEF InControl
<1>a. server' = server
  BY DEF Next, Server, Worker, Land, Forget, Restart, Call, Unreachable, LoseAnswer, Answer,
     TimeOut, Observe, Retry, Verify, Expire, Cycle, vars
<1>c. ~overdue
  <2>1. overdue' = overdue \/ Observe \/ Retry
    BY DEF Next, Server, Worker, Land, Forget, Restart, Call, Unreachable, LoseAnswer, Answer,
       TimeOut, Verify, Expire, vars
  <2> QED BY <2>1 DEF Observe, Retry
<1>b. Absorbed(server) /\ Obedient
  BY <1>a, <1>c DEF InControl
<1>1. CASE \E i \in 1..Len(pending) : Land(i) \/ Forget(i)
  BY <1>1, <1>b, LandObeys, ForgetObeys
<1>2. CASE Restart \/ Call
  BY <1>2, <1>b, RestartObeys, CallObeys
<1>3. CASE Unreachable \/ LoseAnswer \/ Answer \/ TimeOut \/ Retry \/ Expire
  <2>1. Retry => ~CreateHeld
    BY DEF Retry
  <2> QED BY <1>3, <1>b, <2>1, WaitingObeys
<1>4. CASE Observe \/ Verify
  BY <1>4, <1>b, SightObeys
<1>5. CASE UNCHANGED vars
  <2>1. AtStep' /\ (InOrder => InOrder')
    BY <1>5, <1>b, QuietInOrder DEF vars, Cycle, Obedient
  <2> QED BY <1>5, <1>b, <2>1 DEF vars, Obedient, Harmless, Awaited
<1> QED BY <1>1, <1>2, <1>3, <1>4, <1>5 DEF Next, Server, Worker

\* Order is kept against every server the cycle absorbs, however many answers
\* are lost and however late merges and deletes take effect, until a create is
\* left behind.
THEOREM OrderIsKept == Spec => []InControl
<1>1. Init => InControl
  BY InitObedient DEF InControl
<1>2. Base /\ InControl /\ [Next]_vars => InControl'
  BY StepObeys
<1>3. Spec => []Base
  BY CycleTypes, PTL DEF Base
<1> QED BY <1>1, <1>2, <1>3, PTL DEF Spec

\* A server that keeps its promises, and repeats no more than the cycle absorbs,
\* never fails the soak, unless a create is left behind.
THEOREM SoakAccusesNobody ==
  ASSUME \A s \in Servers : ~s.faulty => Absorbed(s)
  PROVE  Spec => []NoFalseAlarm
<1>1. TypeOK /\ InControl => NoFalseAlarm
  BY DEF NoFalseAlarm, InControl, Obedient, TypeOK
<1> QED BY <1>1, CycleTypes, OrderIsKept, PTL

\* A finished cycle leaves no document behind, whatever is still under way save
\* a create, and even when the server has lost what it acknowledged.
THEOREM SoakCleansUp ==
  ASSUME \A s \in Servers : Absorbed(s)
  PROVE  Spec => []CleansUp
<1>1. TypeOK /\ InControl => CleansUp
  BY Distinct DEF CleansUp, InControl, Obedient, AtStep, Stored, TypeOK
<1> QED BY <1>1, CycleTypes, OrderIsKept, PTL
-----------------------------------------------------------------------------
(***************************************************************************)
(* The end of the storage soak, for every number of workers: what a pass   *)
(* and a failure mean although errors are dropped from a full channel and  *)
(* swallowed after a cancellation.  The argument: operations are canceled  *)
(* only by a worker whose error is in the channel, or after the verdict.   *)
(***************************************************************************)

\* Operations are canceled only after an error was kept, or after the verdict.
CanceledForAReason == ~operating => channel # <<>> \/ verdict # "running"

\* A fault is in the channel or on its way there.
FaultUnderWay ==
  \A w \in genuine : channel # <<>> \/ at[w] \in {"judging", "reporting"}

\* Interruptions follow the cancellation, and none of them is reported.
InterruptedAfterCancel == \A w \in Workers : failure[w] = "interrupted" => ~operating
JudgedHasFailure == \A w \in Workers : at[w] = "judging" => failure[w] # "none"
ReportedIsGenuine == \A w \in Workers : at[w] = "reporting" => failure[w] = "genuine"
StopperIsKept == \A w \in Workers : at[w] \in {"stopping", "canceling"} => channel # <<>>
KeptIsGenuine == channel # <<>> => channel = <<"genuine">>

\* The verdict is read from the channel when every worker has left.
PoolVerdict ==
  verdict # "running" =>
    /\ \A w \in Workers : at[w] = "left"
    /\ verdict = "passed" => channel = <<>>
    /\ verdict # "interrupted"

PoolInv ==
  /\ PoolTypeOK
  /\ CanceledForAReason /\ FaultUnderWay
  /\ InterruptedAfterCancel /\ JudgedHasFailure /\ ReportedIsGenuine
  /\ StopperIsKept /\ KeptIsGenuine /\ PoolVerdict

USE DEF Move, AllLeft

\* The invariant holds before the first worker starts.
LEMMA InitPool == PoolInit => PoolInv
<1> SUFFICES ASSUME PoolInit PROVE PoolInv
  OBVIOUS
<1>1. PoolTypeOK
  BY PoolConstants DEF PoolInit, PoolTypeOK
<1>2. QED
  BY <1>1 DEF PoolInit, PoolInv, CanceledForAReason, FaultUnderWay,
     InterruptedAfterCancel, JudgedHasFailure, ReportedIsGenuine,
     StopperIsKept, KeptIsGenuine, PoolVerdict


\* The type of a step's result; a report keeps a genuine error only.
LEMMA StepPoolTypes == PoolInv /\ [PoolNext]_poolVars => PoolTypeOK'
<1> SUFFICES ASSUME PoolTypeOK, ReportedIsGenuine, [PoolNext]_poolVars PROVE PoolTypeOK'
  BY DEF PoolInv
<1>1. ASSUME NEW w \in Workers, Begin(w) PROVE PoolTypeOK'
  <2>a. sequence \in [Workers -> 0..MaxCycles] /\ MaxCycles \in Nat
    BY PoolConstants DEF PoolTypeOK
  <2>b. sequence[w] + 1 \in 0..MaxCycles
    BY <1>1, <2>a DEF Begin
  <2>1. sequence' \in [Workers -> 0..MaxCycles]
    BY <1>1, <2>a, <2>b DEF Begin
  <2>2. QED
    BY <1>1, <2>1 DEF Begin, PoolTypeOK
<1>2. ASSUME NEW w \in Workers, Leave(w) PROVE PoolTypeOK'
  BY <1>2 DEF Leave, PoolTypeOK
<1>3. ASSUME NEW w \in Workers, CycleCompletes(w) PROVE PoolTypeOK'
  <2>1. completed \in Nat
    BY DEF PoolTypeOK
  <2>2. completed' \in Nat
    BY <1>3, <2>1 DEF CycleCompletes
  <2>3. QED
    BY <1>3, <2>2 DEF CycleCompletes, PoolTypeOK
<1>4. ASSUME NEW w \in Workers, CycleFails(w) PROVE PoolTypeOK'
  BY <1>4 DEF CycleFails, PoolTypeOK
<1>5. ASSUME NEW w \in Workers, CycleInterrupted(w) PROVE PoolTypeOK'
  BY <1>5 DEF CycleInterrupted, PoolTypeOK
<1>6. ASSUME NEW w \in Workers, Judge(w) PROVE PoolTypeOK'
  BY <1>6 DEF Judge, PoolTypeOK
<1>7. ASSUME NEW w \in Workers, Report(w) PROVE PoolTypeOK'
  <2>1. failure[w] = "genuine"
    BY <1>7 DEF Report, ReportedIsGenuine
  <2>2. channel' \in Seq({"genuine", "interrupted"}) /\ Len(channel') <= 1
    <3>1. channel \in Seq({"genuine", "interrupted"}) /\ Len(channel) <= 1
      BY DEF PoolTypeOK
    <3>2. CASE channel = <<>> /\ channel' = <<failure[w]>>
      <4>1. channel' = <<"genuine">>
        BY <2>1, <3>2
      <4>2. QED
        BY <4>1
    <3>3. CASE UNCHANGED channel
      BY <3>1, <3>3
    <3>4. QED
      BY <1>7, <3>2, <3>3 DEF Report
  <2>3. at' \in [Workers -> {"scheduling", "cycling", "judging", "reporting",
                             "stopping", "canceling", "left"}]
    BY <1>7 DEF Report, PoolTypeOK
  <2>4. QED
    BY <1>7, <2>2, <2>3 DEF Report, PoolTypeOK
<1>8. ASSUME NEW w \in Workers, StopScheduling(w) PROVE PoolTypeOK'
  BY <1>8 DEF StopScheduling, PoolTypeOK
<1>9. ASSUME NEW w \in Workers, CancelOperations(w) PROVE PoolTypeOK'
  BY <1>9 DEF CancelOperations, PoolTypeOK
<1>10. CASE Deadline
  BY <1>10 DEF Deadline, PoolTypeOK
<1>11. CASE Conclude
  <2>1. channel # <<>> => Head(channel) \in {"genuine", "interrupted"}
    <3>1. channel \in Seq({"genuine", "interrupted"})
      BY DEF PoolTypeOK
    <3>2. QED
      BY <3>1
  <2>2. QED
    BY <1>11, <2>1 DEF Conclude, PoolTypeOK
<1>12. CASE UNCHANGED poolVars
  BY <1>12 DEF poolVars, PoolTypeOK
<1>13. QED
  BY <1>1, <1>2, <1>3, <1>4, <1>5, <1>6, <1>7, <1>8, <1>9, <1>10, <1>11, <1>12
  DEF PoolNext, Step

\* Nobody moves after the verdict, and only one's own step moves a worker.
LEMMA StepPool == PoolInv /\ [PoolNext]_poolVars => PoolInv'
<1> SUFFICES ASSUME PoolInv, [PoolNext]_poolVars PROVE PoolInv'
  OBVIOUS
<1> DEFINE Parts == /\ CanceledForAReason /\ FaultUnderWay
                    /\ InterruptedAfterCancel /\ JudgedHasFailure
                    /\ ReportedIsGenuine /\ StopperIsKept /\ KeptIsGenuine /\ PoolVerdict
<1>1. PoolTypeOK'
  BY StepPoolTypes
<1>2. /\ at \in [Workers -> {"scheduling", "cycling", "judging", "reporting",
                             "stopping", "canceling", "left"}]
      /\ failure \in [Workers -> {"none", "genuine", "interrupted"}]
      /\ genuine \subseteq Workers /\ operating \in BOOLEAN
  BY DEF PoolInv, PoolTypeOK
<1>3. Parts
  BY DEF PoolInv
<1> USE DEF CanceledForAReason, FaultUnderWay, InterruptedAfterCancel,
            JudgedHasFailure, ReportedIsGenuine, StopperIsKept,
            KeptIsGenuine, PoolVerdict
<1>4. ASSUME NEW w \in Workers, Begin(w) PROVE Parts'
  BY <1>2, <1>3, <1>4 DEF Begin
<1>5. ASSUME NEW w \in Workers, Leave(w) PROVE Parts'
  BY <1>2, <1>3, <1>5 DEF Leave
<1>6. ASSUME NEW w \in Workers, CycleCompletes(w) PROVE Parts'
  BY <1>2, <1>3, <1>6 DEF CycleCompletes
<1>7. ASSUME NEW w \in Workers, CycleFails(w) PROVE Parts'
  BY <1>2, <1>3, <1>7 DEF CycleFails
<1>8. ASSUME NEW w \in Workers, CycleInterrupted(w) PROVE Parts'
  BY <1>2, <1>3, <1>8 DEF CycleInterrupted, Interruptible
<1>9. ASSUME NEW w \in Workers, Judge(w) PROVE Parts'
  BY <1>2, <1>3, <1>9 DEF Judge
<1>10. ASSUME NEW w \in Workers, Report(w) PROVE Parts'
  BY <1>2, <1>3, <1>10 DEF Report
<1>11. ASSUME NEW w \in Workers, StopScheduling(w) PROVE Parts'
  BY <1>2, <1>3, <1>11 DEF StopScheduling
<1>12. ASSUME NEW w \in Workers, CancelOperations(w) PROVE Parts'
  BY <1>2, <1>3, <1>12 DEF CancelOperations
<1>13. ASSUME Deadline PROVE Parts'
  BY <1>2, <1>3, <1>13 DEF Deadline
<1>14. ASSUME Conclude PROVE Parts'
  <2>1. channel # <<>> => Head(channel) = "genuine"
    BY <1>3
  <2>2. verdict' # "interrupted" /\ (verdict' = "passed" => channel = <<>>)
    BY <1>14, <2>1 DEF Conclude
  <2>3. verdict' # "running" /\ (\A w \in Workers : at[w] = "left")
    BY <1>14, <2>1 DEF Conclude
  <2>4. PoolVerdict'
    BY <1>14, <2>2, <2>3 DEF Conclude
  <2>5. QED
    BY <1>3, <1>14, <2>3, <2>4 DEF Conclude
<1>15. ASSUME UNCHANGED poolVars PROVE Parts'
  BY <1>3, <1>15 DEF poolVars
<1>16. Parts'
  BY <1>4, <1>5, <1>6, <1>7, <1>8, <1>9, <1>10, <1>11, <1>12, <1>13, <1>14, <1>15
  DEF PoolNext, Step
<1>17. QED
  BY <1>1, <1>16 DEF PoolInv

\* PoolInv holds in every state of the soak's workers.
THEOREM PoolInvariance == PoolSpec => []PoolInv
BY InitPool, StepPool, PTL DEF PoolSpec

\* Every state has its type.
THEOREM PoolTypes == PoolSpec => []PoolTypeOK
<1>1. PoolInv => PoolTypeOK
  BY DEF PoolInv
<1>2. QED
  BY <1>1, PoolInvariance, PTL

\* A soak of any number of workers passes only when no cycle found a fault:
\* none is lost in a full channel or behind a cancellation.
THEOREM PassIsClean == PoolSpec => []PassedIsClean
<1>1. PoolInv => PassedIsClean
  BY DEF PoolInv, PoolTypeOK, PassedIsClean, FaultUnderWay, PoolVerdict
<1>2. QED
  BY <1>1, PoolInvariance, PTL

\* The error the soak reports is a fault that some cycle found.
THEOREM ReportIsGenuine == PoolSpec => []FailureIsGenuine
<1>1. PoolInv => FailureIsGenuine
  BY DEF PoolInv, FailureIsGenuine, PoolVerdict
<1>2. QED
  BY <1>1, PoolInvariance, PTL
-----------------------------------------------------------------------------
(***************************************************************************)
(* The verdicts of the load test, for every number of workers and          *)
(* operations.  The argument: a task that was handed out is with exactly   *)
(* one worker, has left its result, or was dropped after the end of the    *)
(* time; so when all workers have left in time, every result is there.     *)
(***************************************************************************)

Busy(w) == at[w] \in {"received", "writing"}

\* A worker's task has been handed out, has no result yet, and is its own.
HeldOnce ==
  /\ \A w \in Workers : Busy(w) => task[w] < next /\ result[task[w]] = "none"
  /\ \A v, w \in Workers : Busy(v) /\ Busy(w) /\ task[v] = task[w] => v = w

\* A task without a result has not been handed out, is held, or was dropped.
Accounted ==
  \A t \in Tasks :
    /\ t >= next => result[t] = "none"
    /\ t < next /\ result[t] = "none" =>
         expired \/ \E w \in Workers : Busy(w) /\ task[w] = t

AppliedIsWritten == \A t \in Tasks : result[t] = "applied" => t \in written
CanceledIsLate == \A t \in Tasks : result[t] = "canceled" => expired
ClosedForAReason == feeder = "closed" => expired \/ next = OperationCount
LeftForAReason == \A w \in Workers : at[w] = "left" => expired \/ feeder = "closed"

\* What each verdict was read from, when every worker had left.
LoadVerdict ==
  verdict # "running" =>
    /\ \A w \in Workers : at[w] = "left"
    /\ verdict # "incomplete"
    /\ verdict = "failed" => \E t \in Tasks : result[t] = "failed"
    /\ verdict \in {"measuring", "unverified", "too slow", "passed"} =>
         \A t \in Tasks : result[t] = "applied"

LoadInv ==
  /\ LoadTypeOK
  /\ HeldOnce /\ Accounted /\ AppliedIsWritten /\ CanceledIsLate
  /\ ClosedForAReason /\ LeftForAReason /\ LoadVerdict

\* The invariant holds before the first task is handed out.
LEMMA InitLoad == LoadInit => LoadInv
<1> SUFFICES ASSUME LoadInit PROVE LoadInv
  OBVIOUS
<1>0. 0 \in Tasks /\ 0 \in 0..OperationCount
  BY LoadConstants DEF Tasks
<1>1. LoadTypeOK
  BY <1>0 DEF LoadInit, LoadTypeOK, Places, Verdicts
<1>2. QED
  BY <1>1, LoadConstants DEF LoadInit, LoadInv, Busy, HeldOnce, Accounted, AppliedIsWritten,
     CanceledIsLate, ClosedForAReason, LeftForAReason, LoadVerdict, Tasks

\* A task that is left to hand out is a task.
LEMMA NextTask ==
  ASSUME NEW n \in 0..OperationCount, n # OperationCount
  PROVE  n \in Tasks /\ n + 1 \in 0..OperationCount /\ n \in Int
BY LoadConstants DEF Tasks

\* The type of a step's result.
LEMMA StepLoadTypes == LoadTypeOK /\ [LoadNext]_loadVars => LoadTypeOK'
<1> SUFFICES ASSUME LoadTypeOK, [LoadNext]_loadVars PROVE LoadTypeOK'
  OBVIOUS
<1> USE DEF LoadTypeOK, Move, Deliver, Places, Verdicts
<1>1. ASSUME NEW w \in Workers, HandOver(w) PROVE LoadTypeOK'
  <2>1. next \in 0..OperationCount /\ next # OperationCount
    BY <1>1 DEF HandOver, AllSent
  <2>2. next \in Tasks /\ next + 1 \in 0..OperationCount
    BY <2>1, NextTask
  <2>3. QED
    BY <1>1, <2>2 DEF HandOver
<1>2. ASSUME NEW w \in Workers, LoadStep(w) PROVE LoadTypeOK'
  <2>1. task[w] \in Tasks
    OBVIOUS
  <2>2. QED
    BY <1>2, <2>1 DEF LoadStep, LeaveJobs, DropTask, Reject, Write, TakeEffect, Return
<1>3. CASE CloseJobs
  BY <1>3 DEF CloseJobs
<1>4. CASE TimeIsUp
  BY <1>4 DEF TimeIsUp
<1>5. CASE JudgeLoad
  BY <1>5 DEF JudgeLoad, Judged
<1>6. CASE ReadBack
  BY <1>6 DEF ReadBack
<1>7. CASE UNCHANGED loadVars
  BY <1>7 DEF loadVars
<1>8. QED
  BY <1>1, <1>2, <1>3, <1>4, <1>5, <1>6, <1>7 DEF LoadNext

\* When every worker has left in time, no result is missing or canceled.
LEMMA AllInTime ==
  LoadInv /\ ~expired /\ (\A w \in Workers : at[w] = "left")
    => \A t \in Tasks : result[t] \in {"applied", "failed"}
<1> SUFFICES ASSUME LoadInv, ~expired, \A w \in Workers : at[w] = "left", NEW t \in Tasks
             PROVE  result[t] \in {"applied", "failed"}
  OBVIOUS
<1>1. next = OperationCount
  BY LoadConstants DEF LoadInv, LeftForAReason, ClosedForAReason
<1>2. t < next
  BY <1>1, LoadConstants DEF Tasks
<1>3. result[t] # "none"
  BY <1>2 DEF LoadInv, Accounted, Busy
<1>4. result[t] # "canceled"
  BY DEF LoadInv, CanceledIsLate
<1>5. QED
  BY <1>3, <1>4 DEF LoadInv, LoadTypeOK

\* Every step of the load test keeps it.
LEMMA StepLoad == LoadInv /\ [LoadNext]_loadVars => LoadInv'
<1> SUFFICES ASSUME LoadInv, [LoadNext]_loadVars PROVE LoadInv'
  OBVIOUS
<1> DEFINE Parts == /\ HeldOnce /\ Accounted /\ AppliedIsWritten /\ CanceledIsLate
                    /\ ClosedForAReason /\ LeftForAReason /\ LoadVerdict
<1>1. LoadTypeOK'
  BY StepLoadTypes DEF LoadInv
<1>2. /\ at \in [Workers -> Places] /\ task \in [Workers -> Tasks]
      /\ result \in [Tasks -> {"none", "applied", "failed", "canceled"}]
  BY DEF LoadInv, LoadTypeOK
<1>i. next \in 0..OperationCount /\ next \in Int /\ Tasks \subseteq Int
  BY LoadConstants DEF LoadInv, LoadTypeOK, Tasks
<1>3. Parts
  BY DEF LoadInv
<1>f. \A t \in Tasks : t >= next => result[t] = "none"
  BY DEF LoadInv, Accounted
<1>h. \A v, w \in Workers :
        /\ Busy(v) => task[v] < next /\ result[task[v]] = "none"
        /\ Busy(v) /\ Busy(w) /\ task[v] = task[w] => v = w
  BY DEF LoadInv, HeldOnce
<1>n. verdict # "running" => \A w \in Workers : at[w] = "left"
  BY <1>3 DEF LoadVerdict
<1> USE DEF HeldOnce, Accounted, AppliedIsWritten, CanceledIsLate,
            ClosedForAReason, LeftForAReason, LoadVerdict, Move, Deliver
<1>v. \A w \in Workers : at[w] # "left" => verdict = "running"
  BY <1>n
<1>4. ASSUME NEW w \in Workers, HandOver(w) PROVE Parts'
  <2>1. /\ at[w] = "receiving" /\ feeder = "sending" /\ next # OperationCount
        /\ at' = [at EXCEPT ![w] = "received"] /\ task' = [task EXCEPT ![w] = next]
        /\ next' = next + 1
        /\ UNCHANGED <<feeder, result, written, expired, verdict>>
    BY <1>4 DEF HandOver, AllSent
  <2>2. next \in Tasks
    BY <1>i, <2>1, NextTask
  <2>3. result[next] = "none"
    BY <1>i, <1>f, <2>2
  <2>4. verdict = "running"
    BY <1>v, <2>1
  <2>5. \A v \in Workers : /\ at'[v] = IF v = w THEN "received" ELSE at[v]
                           /\ task'[v] = IF v = w THEN next ELSE task[v]
    BY <1>2, <2>1
  <2>b. \A v \in Workers : Busy(v)' <=> v = w \/ Busy(v)
    BY <2>5 DEF Busy
  <2>l. \A v \in Workers : at'[v] = "left" => at[v] = "left"
    BY <2>5
  <2>6. \A v \in Workers : /\ task[v] \in Int
                           /\ Busy(v) => task[v] < next + 1 /\ task[v] # next
    <3>1. \A v \in Workers : task[v] \in Int
      BY <1>2, <1>i
    <3>2. \A v \in Workers : Busy(v) => task[v] < next
      BY <1>h
    <3>3. \A m, n \in Int : m < n => m < n + 1 /\ m # n
      OBVIOUS
    <3>4. QED
      BY <1>i, <3>1, <3>2, <3>3
  <2>7. HeldOnce'
    <3>1. \A v \in Workers : Busy(v)' => task'[v] < next' /\ result'[task'[v]] = "none"
      BY <1>i, <1>h, <2>1, <2>3, <2>5, <2>6, <2>b
    <3>2. \A u, v \in Workers : Busy(u)' /\ Busy(v)' /\ task'[u] = task'[v] => u = v
      BY <1>h, <2>5, <2>6, <2>b
    <3>3. QED
      BY <3>1, <3>2
  <2>8. Accounted'
    <3>1. SUFFICES ASSUME NEW t \in Tasks
                   PROVE  /\ t >= next + 1 => result[t] = "none"
                          /\ t < next + 1 /\ result[t] = "none" =>
                               expired \/ \E v \in Workers : Busy(v)' /\ task'[v] = t
      BY <2>1
    <3>2. CASE t = next
      <4>1. ~(t >= next + 1)
        BY <1>i, <3>2
      <4>2. QED
        BY <2>5, <2>b, <3>2, <4>1
    <3>3. CASE t # next
      <4>1. t \in Int /\ (t >= next + 1 => t >= next) /\ (t < next + 1 => t < next)
        BY <1>i, <3>3
      <4>2. \A v \in Workers : Busy(v) /\ task[v] = t => Busy(v)' /\ task'[v] = t
        BY <2>1, <2>5, <2>b DEF Busy
      <4>3. QED
        BY <1>3, <4>1, <4>2
    <3>4. QED
      BY <3>2, <3>3
  <2>9. QED
    BY <1>3, <2>1, <2>4, <2>7, <2>8, <2>l
<1>5. ASSUME NEW w \in Workers, LeaveJobs(w) PROVE Parts'
  <2>1. /\ at[w] = "receiving" /\ feeder = "closed" /\ verdict = "running"
        /\ at' = [at EXCEPT ![w] = "left"]
        /\ UNCHANGED <<next, feeder, task, result, written, expired, verdict>>
    BY <1>v, <1>5 DEF LeaveJobs
  <2>2. \A v \in Workers : at'[v] = IF v = w THEN "left" ELSE at[v]
    BY <1>2, <2>1
  <2>3. \A v \in Workers : Busy(v)' <=> Busy(v)
    BY <2>1, <2>2 DEF Busy
  <2>4. QED
    BY <1>3, <2>1, <2>2, <2>3
<1>6. ASSUME NEW w \in Workers, DropTask(w) PROVE Parts'
  <2>1. /\ at[w] = "received" /\ expired /\ verdict = "running"
        /\ at' = [at EXCEPT ![w] = "left"]
        /\ UNCHANGED <<next, feeder, task, result, written, expired, verdict>>
    BY <1>v, <1>6 DEF DropTask
  <2>2. \A v \in Workers : at'[v] = IF v = w THEN "left" ELSE at[v]
    BY <1>2, <2>1
  <2>3. \A v \in Workers : Busy(v)' <=> Busy(v) /\ v # w
    BY <2>2 DEF Busy
  <2>4. QED
    BY <1>3, <2>1, <2>2, <2>3
\* A worker with a task leaves its result, and waits for the next one.
<1>r. ASSUME NEW w \in Workers, Busy(w), at' = [at EXCEPT ![w] = "receiving"],
             UNCHANGED <<next, feeder, task, written, expired, verdict>>,
             NEW end \in {"applied", "failed", "canceled"},
             result' = [result EXCEPT ![task[w]] = end],
             end = "applied" => task[w] \in written,
             end = "canceled" => expired
      PROVE  Parts'
  <2>1. task[w] \in Tasks /\ task[w] < next /\ verdict = "running"
    BY <1>2, <1>h, <1>v, <1>r DEF Busy
  <2>2. \A v \in Workers : at'[v] = IF v = w THEN "receiving" ELSE at[v]
    BY <1>2, <1>r
  <2>b. \A v \in Workers : Busy(v)' <=> Busy(v) /\ v # w
    BY <2>2 DEF Busy
  <2>3. \A t \in Tasks : result'[t] = IF t = task[w] THEN end ELSE result[t]
    BY <1>2, <1>r
  <2>4. \A v \in Workers : v # w /\ Busy(v) => task[v] # task[w]
    BY <1>h, <1>r
  <2>5. HeldOnce'
    BY <1>2, <1>h, <1>r, <2>b, <2>3, <2>4
  <2>6. Accounted'
    BY <1>i, <1>3, <1>r, <2>1, <2>b, <2>3
  <2>7. QED
    BY <1>3, <1>r, <2>1, <2>2, <2>3, <2>5, <2>6
<1>7. ASSUME NEW w \in Workers, Reject(w) PROVE Parts'
  BY <1>r, <1>7 DEF Reject, Busy
<1>8. ASSUME NEW w \in Workers, Write(w) PROVE Parts'
  <2>1. /\ at[w] = "received" /\ verdict = "running"
        /\ at' = [at EXCEPT ![w] = "writing"]
        /\ UNCHANGED <<next, feeder, task, result, written, expired, verdict>>
    BY <1>v, <1>8 DEF Write
  <2>2. \A v \in Workers : at'[v] = IF v = w THEN "writing" ELSE at[v]
    BY <1>2, <2>1
  <2>3. \A v \in Workers : Busy(v)' <=> Busy(v)
    BY <2>1, <2>2 DEF Busy
  <2>4. QED
    BY <1>3, <2>1, <2>2, <2>3
<1>9. ASSUME NEW w \in Workers, TakeEffect(w) PROVE Parts'
  <2>1. /\ \A t \in Tasks : t \in written => t \in written'
        /\ UNCHANGED <<next, feeder, at, task, result, expired, verdict>>
    BY <1>9 DEF TakeEffect
  <2>2. \A v \in Workers : Busy(v)' <=> Busy(v)
    BY <2>1 DEF Busy
  <2>3. QED
    BY <1>3, <2>1, <2>2
<1>10. ASSUME NEW w \in Workers, Return(w) PROVE Parts'
  <2>1. Busy(w) /\ at' = [at EXCEPT ![w] = "receiving"]
        /\ UNCHANGED <<next, feeder, task, written, expired, verdict>>
    BY <1>10 DEF Return, Busy
  <2>2. \E end \in {"applied", "failed", "canceled"} :
          /\ result' = [result EXCEPT ![task[w]] = end]
          /\ end = "applied" => task[w] \in written
          /\ end = "canceled" => expired
    BY <1>10 DEF Return
  <2>3. QED
    BY <1>r, <2>1, <2>2
<1>11. ASSUME CloseJobs PROVE Parts'
  <2>1. UNCHANGED <<at, task>>
    BY <1>11 DEF CloseJobs
  <2>2. \A v \in Workers : Busy(v)' <=> Busy(v)
    BY <2>1 DEF Busy
  <2>3. QED
    BY <1>3, <1>11, <2>2 DEF CloseJobs, AllSent, GivesUp
<1>12. ASSUME TimeIsUp PROVE Parts'
  <2>1. UNCHANGED <<at, task>>
    BY <1>12 DEF TimeIsUp
  <2>2. \A v \in Workers : Busy(v)' <=> Busy(v)
    BY <2>1 DEF Busy
  <2>3. QED
    BY <1>3, <1>12, <2>2 DEF TimeIsUp
<1>13. ASSUME JudgeLoad PROVE Parts'
  <2>1. ~expired => \A t \in Tasks : result[t] \in {"applied", "failed"}
    BY <1>13, AllInTime DEF JudgeLoad
  <2>2. LoadVerdict'
    BY <1>13, <2>1 DEF JudgeLoad, Judged, Failed, Missing
  <2>3. QED
    BY <1>3, <1>13, <2>2 DEF JudgeLoad, Busy
<1>14. ASSUME ReadBack PROVE Parts'
  <2>1. UNCHANGED <<at, task>>
    BY <1>14 DEF ReadBack
  <2>2. \A v \in Workers : Busy(v)' <=> Busy(v)
    BY <2>1 DEF Busy
  <2>3. QED
    BY <1>3, <1>14, <2>2 DEF ReadBack
<1>15. ASSUME UNCHANGED loadVars PROVE Parts'
  <2>1. UNCHANGED <<at, task>>
    BY <1>15 DEF loadVars
  <2>2. \A v \in Workers : Busy(v)' <=> Busy(v)
    BY <2>1 DEF Busy
  <2>3. QED
    BY <1>3, <1>15, <2>2 DEF loadVars
<1>16. Parts'
  BY <1>4, <1>5, <1>6, <1>7, <1>8, <1>9, <1>10, <1>11, <1>12, <1>13, <1>14, <1>15
  DEF LoadNext, LoadStep
<1>17. QED
  BY <1>1, <1>16 DEF LoadInv

\* LoadInv holds in every state of the load test.
THEOREM LoadInvariance == LoadSpec => []LoadInv
BY InitLoad, StepLoad, PTL DEF LoadSpec

\* Every state has its type; in particular the feeder stays inside the tasks.
THEOREM LoadTypes == LoadSpec => []LoadTypeOK
<1>1. LoadInv => LoadTypeOK
  BY DEF LoadInv
<1>2. QED
  BY <1>1, LoadInvariance, PTL

\* A load of any size passes only when every operation has been applied.
THEOREM PassIsComplete == LoadSpec => []PassedIsComplete
<1>1. LoadInv => PassedIsComplete
  BY DEF LoadInv, LoadTypeOK, PassedIsComplete, LoadVerdict, AppliedIsWritten
<1>2. QED
  BY <1>1, LoadInvariance, PTL

\* A failed load had an operation that failed for a reason of its own.
THEOREM LoadBlamesFairly == LoadSpec => []FailedIsGenuine
<1>1. LoadInv => FailedIsGenuine
  BY DEF LoadInv, FailedIsGenuine, LoadVerdict
<1>2. QED
  BY <1>1, LoadInvariance, PTL

\* The count of the results never reports a missing one: within the time limit
\* no task is lost between the feeder and any number of workers.
THEOREM NoTaskIsLost == LoadSpec => []NothingIsLost
<1>1. LoadInv => NothingIsLost
  BY DEF LoadInv, LoadTypeOK, Verdicts, NothingIsLost, LoadVerdict
<1>2. QED
  BY <1>1, LoadInvariance, PTL

\* The index of the 95th percentile is one of the n positions, at least 95 in a
\* hundred durations are at or before it, and fewer than that before it.
THEOREM NearestRank ==
  ASSUME NEW n \in Nat \ {0}
  PROVE  /\ P95Index(n) \in 0..(n - 1)
         /\ 100 * (P95Index(n) + 1) >= 95 * n
         /\ 100 * P95Index(n) < 95 * n
<1> DEFINE rank == (95 * n + 99) \div 100
<1>1. rank \in Int /\ 100 * rank <= 95 * n + 99 /\ 95 * n + 99 < 100 * rank + 100
  OBVIOUS
<1>2. P95Index(n) = IF rank > 1 THEN rank - 1 ELSE 0
  BY DEF P95Index
<1> HIDE DEF rank
<1>3. rank >= 1 /\ rank <= n
  BY <1>1
<1>4. P95Index(n) = rank - 1
  BY <1>1, <1>2, <1>3
<1>5. QED
  BY <1>1, <1>3, <1>4
=============================================================================
