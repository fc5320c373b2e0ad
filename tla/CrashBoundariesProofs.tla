------------------------ MODULE CrashBoundariesProofs ------------------------
(***************************************************************************)
(* What a caught exchange tells a test, for any exchanges and any gates;   *)
(* that the scripts, the candidate and the proxy together do to the proxy  *)
(* what it does by itself, so that it holds in every test; and what the    *)
(* verdict of a script says of its candidate.                              *)
(***************************************************************************)
EXTENDS CrashBoundaries, FiniteSetTheorems, TLAPS

RequestStages == {"unsent", "request", "refused", "abandoned"}
Stages == {"unsent", "request", "executed", "response"} \cup Finished

\* The backend has executed what it has answered, and nothing that has not
\* left the request gates.
Committed ==
    \A r \in Requests :
        /\ at[r] \in RequestStages => r \notin committed
        /\ at[r] \in {"executed", "response", "dropped", "answered"} => r \in committed

\* An exchange is held by gates of its own direction.
HeldInTurn ==
    \A r \in Requests : \A g \in held[r] :
        /\ at[r] = "request" => ~OnResponse[g]
        /\ at[r] = "response" => OnResponse[g]

\* The catch of a request gate that is shut or discarded is still held by it,
\* or is lost.
RequestsAreHeld ==
    \A g \in Gates, r \in Requests :
        caught[g] = r /\ ~OnResponse[g] /\ (release[g] # "open" \/ g \in discarded) =>
            at[r] \in {"refused", "abandoned"} \/ (at[r] = "request" /\ g \in held[r])

\* The catch of a response gate has been executed; while the gate is shut it
\* holds the response, or its connection is closed.
ResponsesAreHeld ==
    \A g \in Gates, r \in Requests :
        caught[g] = r /\ OnResponse[g] =>
            /\ at[r] \in {"response", "dropped", "answered", "failed"} /\ r \in committed
            /\ release[g] # "open" => at[r] = "failed" \/ (at[r] = "response" /\ g \in held[r])

\* A response is at one gate at a time: the gate that has caught it and still
\* holds it is the next it has to pass.
ResponsesInTurn ==
    \A g \in Gates, r \in Requests :
        caught[g] = r /\ OnResponse[g] /\ at[r] = "response" /\ g \in held[r] => Turn(g, r)

HeldAreRegistered == \A r \in Requests : held[r] \subseteq Range(gates)

Core == TypeOK /\ Committed /\ HeldInTurn /\ RequestsAreHeld /\ ResponsesAreHeld
IInv == Core /\ HeldAreRegistered /\ ResponsesInTurn
-----------------------------------------------------------------------------
\* A proxy that has seen no request satisfies the invariant.
LEMMA InitIInv == Init => IInv
BY GatesAssumption, SMT DEF Init, IInv, TypeOK, Committed, HeldInTurn, RequestsAreHeld, ResponsesAreHeld,
   RequestStages, Finished, Core, HeldAreRegistered, ResponsesInTurn

\* The invariant says what a test concludes from a caught exchange.
LEMMA InvariantMeaning == IInv => CrashBoundary /\ DiscardedIsLost
<1> SUFFICES ASSUME IInv, NEW g \in Gates, caught[g] # Nobody
             PROVE  /\ release[g] # "open" /\ OnResponse[g] => caught[g] \in committed /\ at[caught[g]] # "answered"
                    /\ (release[g] # "open" \/ g \in discarded) /\ ~OnResponse[g] => caught[g] \notin committed
  BY DEF CrashBoundary, DiscardedIsLost, IInv, Core, TypeOK
<1>1. caught[g] \in Requests
  BY DEF IInv, Core, TypeOK
<1>2. QED
  BY <1>1 DEF IInv, Core, Committed, RequestsAreHeld, ResponsesAreHeld, RequestStages

\* Two registered gates have an order.
LEMMA Ordered ==
    ASSUME gates \in Seq(Gates), NEW g \in Range(gates), NEW h \in Range(gates), g # h
    PROVE  Earlier(g, h) \/ Earlier(h, g)
<1>1. PICK i \in 1..Len(gates) : gates[i] = g
  BY DEF Range
<1>2. PICK j \in 1..Len(gates) : gates[j] = h
  BY DEF Range
<1>3. i < j \/ j < i
  BY <1>1, <1>2
<1>4. QED
  BY <1>1, <1>2, <1>3 DEF Earlier

\* A gate that is registered comes after all others.
LEMMA Registered ==
    ASSUME gates \in Seq(Gates), NEW g \in Gates, g \notin Range(gates), gates' = Append(gates, g)
    PROVE  /\ Range(gates) \subseteq Range(gates')
           /\ \A h, k \in Range(gates) : Earlier(h, k)' => Earlier(h, k)
<1>1. Len(gates') = Len(gates) + 1 /\ Len(gates) \in Nat
  OBVIOUS
<1>2. \A i \in 1..Len(gates) : gates'[i] = gates[i]
  OBVIOUS
<1>3. gates'[Len(gates) + 1] = g
  OBVIOUS
<1>4. Range(gates) \subseteq Range(gates')
  BY <1>1, <1>2 DEF Range
<1>5. ASSUME NEW h \in Range(gates), NEW k \in Range(gates), Earlier(h, k)' PROVE Earlier(h, k)
  <2>1. PICK i, j \in 1..Len(gates') : i < j /\ gates'[i] = h /\ gates'[j] = k
    BY <1>5 DEF Earlier
  <2>2. j # Len(gates) + 1
    BY <2>1, <1>3
  <2>3. i \in 1..Len(gates) /\ j \in 1..Len(gates)
    BY <2>1, <2>2, <1>1
  <2>4. QED
    BY <2>1, <2>3, <1>2 DEF Earlier
<1>6. QED
  BY <1>4, <1>5

\* What is committed and who holds what survive every step.
LEMMA StepCore == IInv /\ [Next]_vars => Core'
<1> SUFFICES ASSUME Core, HeldAreRegistered, ResponsesInTurn, [Next]_vars PROVE Core'
  BY DEF IInv
<1> USE GatesAssumption DEF Core, TypeOK, Committed, HeldInTurn, RequestsAreHeld, ResponsesAreHeld, RequestStages, Finished, gate, Catching, Turn
<1>1. ASSUME NEW g \in Gates, Hold(g) PROVE Core'
  BY <1>1 DEF Hold
<1>2. ASSUME NEW g \in Gates, Open(g) PROVE Core'
  BY <1>2 DEF Open
<1>3. ASSUME NEW g \in Gates, Discard(g) PROVE Core'
  BY <1>3 DEF Discard
<1>4. ASSUME NEW g \in Gates, CloseRelease(g) PROVE Core'
  BY <1>4 DEF CloseRelease
<1>5. ASSUME NEW r \in Requests, Arrive(r) PROVE Core'
  <2>1. TypeOK'
    <3>1. Counted(r, FALSE) \in [Gates -> Nat]
      BY DEF Counted
    <3>2. Catching(r, FALSE) \in SUBSET Gates
      BY DEF Catching, Range
    <3>3. QED
      BY <1>5, <3>1, <3>2 DEF Arrive
  <2>2. Committed' /\ HeldInTurn'
    BY <1>5 DEF Arrive
  <2>3. RequestsAreHeld'
    BY <1>5 DEF Arrive
  <2>4. ResponsesAreHeld'
    BY <1>5 DEF Arrive
  <2>5. QED
    BY <2>1, <2>2, <2>3, <2>4
<1>6. ASSUME NEW r \in Requests, PassRequest(r) PROVE Core'
  <2>1. PICK g \in Gates :
          /\ Turn(g, r) /\ release[g] = "open"
          /\ \/ g \in discarded /\ at' = [at EXCEPT ![r] = "refused"] /\ UNCHANGED held
             \/ g \notin discarded /\ held' = [held EXCEPT ![r] = @ \ {g}] /\ UNCHANGED at
    BY <1>6 DEF PassRequest
  <2>2. at[r] = "request" /\ UNCHANGED <<gate, caught, gone, committed, phase>>
    BY <1>6 DEF PassRequest
  <2>3. CASE at' = [at EXCEPT ![r] = "refused"] /\ UNCHANGED held
    BY <2>1, <2>2, <2>3
  <2>4. CASE g \notin discarded /\ held' = [held EXCEPT ![r] = @ \ {g}] /\ UNCHANGED at
    BY <2>1, <2>2, <2>4
  <2>5. QED
    BY <2>1, <2>3, <2>4
<1>7. ASSUME NEW r \in Requests, AbandonRequest(r) PROVE Core'
  BY <1>7 DEF AbandonRequest
<1>8. ASSUME NEW r \in Requests, Forward(r) PROVE Core'
  BY <1>8 DEF Forward
<1>9. ASSUME NEW r \in Requests, ForwardFails(r) PROVE Core'
  BY <1>9 DEF ForwardFails
<1>10. ASSUME NEW r \in Requests, Respond(r) PROVE Core'
  <2>1. TypeOK'
    <3>1. Counted(r, TRUE) \in [Gates -> Nat]
      BY DEF Counted
    <3>2. Catching(r, TRUE) \in SUBSET Gates
      BY DEF Catching, Range
    <3>3. QED
      BY <1>10, <3>1, <3>2 DEF Respond
  <2>2. Committed' /\ HeldInTurn'
    BY <1>10 DEF Respond
  <2>3. RequestsAreHeld'
    BY <1>10 DEF Respond
  <2>4. ResponsesAreHeld'
    BY <1>10 DEF Respond
  <2>5. QED
    BY <2>1, <2>2, <2>3, <2>4
<1>11. ASSUME NEW r \in Requests, Reach(r) PROVE Core'
  BY <1>11 DEF Reach
<1>12. ASSUME NEW r \in Requests, PassResponse(r) PROVE Core'
  <2>1. PICK g \in Gates :
          /\ Turn(g, r) /\ release[g] = "open"
          /\ \/ Lost(g) /\ at' = [at EXCEPT ![r] = "dropped"] /\ UNCHANGED held
             \/ ~Lost(g) /\ held' = [held EXCEPT ![r] = @ \ {g}] /\ UNCHANGED at
    BY <1>12 DEF PassResponse
  <2>2. at[r] = "response" /\ UNCHANGED <<gate, caught, gone, committed, phase>>
    BY <1>12 DEF PassResponse
  <2>3. CASE at' = [at EXCEPT ![r] = "dropped"] /\ UNCHANGED held
    <3>1. ASSUME NEW h \in Gates, caught[h] = r, OnResponse[h], h \in held[r] PROVE h = g
      <4>1. Turn(h, r)
        BY <3>1, <2>2 DEF ResponsesInTurn
      <4>2. ~Earlier(g, h) /\ ~Earlier(h, g)
        BY <4>1, <2>1
      <4>3. g \in Range(gates) /\ h \in Range(gates)
        BY <2>1, <3>1 DEF HeldAreRegistered
      <4>4. QED
        BY <4>2, <4>3, Ordered
    <3>2. TypeOK' /\ Committed' /\ HeldInTurn' /\ RequestsAreHeld'
      BY <2>1, <2>2, <2>3
    <3>3. ResponsesAreHeld'
      BY <2>1, <2>2, <2>3, <3>1
    <3>4. QED
      BY <3>2, <3>3
  <2>4. CASE ~Lost(g) /\ held' = [held EXCEPT ![r] = @ \ {g}] /\ UNCHANGED at
    BY <2>1, <2>2, <2>4
  <2>5. QED
    BY <2>1, <2>3, <2>4
<1>13. ASSUME NEW r \in Requests, AbandonResponse(r) PROVE Core'
  BY <1>13 DEF AbandonResponse
<1>14. ASSUME NEW r \in Requests, Deliver(r) PROVE Core'
  BY <1>14 DEF Deliver
<1>15. ASSUME NEW r \in Requests, Disconnect(r) PROVE Core'
  BY <1>15 DEF Disconnect
<1>16. CASE OpenAll
  BY <1>16 DEF OpenAll, Opened
<1>17. CASE CloseServer
  BY <1>17 DEF CloseServer
<1>18. CASE UNCHANGED vars
  BY <1>18 DEF vars
<1> QED
  BY <1>1, <1>2, <1>3, <1>4, <1>5, <1>6, <1>7, <1>8, <1>9, <1>10, <1>11, <1>12, <1>13, <1>14, <1>15, <1>16, <1>17, <1>18 DEF Next, Handle

\* An exchange whose gates have not changed is where it was.
LEMMA SameTurn ==
    ASSUME NEW g, NEW q, gates' = gates, held'[q] = held[q], Turn(g, q)
    PROVE  Turn(g, q)'
BY DEF Turn, Earlier

\* So does the order of the gates.
LEMMA StepInTurn == IInv /\ [Next]_vars => HeldAreRegistered' /\ ResponsesInTurn'
<1> SUFFICES ASSUME Core, HeldAreRegistered, ResponsesInTurn, [Next]_vars
             PROVE  HeldAreRegistered' /\ ResponsesInTurn'
  BY DEF IInv
<1>0. TypeOK /\ ResponsesAreHeld
  BY DEF Core
<1> USE GatesAssumption, <1>0 DEF TypeOK, HeldAreRegistered, ResponsesInTurn, gate
<1>1. ASSUME NEW g \in Gates, Hold(g) PROVE HeldAreRegistered' /\ ResponsesInTurn'
  BY <1>1, Registered DEF Hold, Turn
<1>2. ASSUME UNCHANGED <<gates, caught>>, \A r \in Requests : held'[r] \subseteq held[r],
             \A r \in Requests : at'[r] = "response" => at[r] = "response"
      PROVE HeldAreRegistered' /\ ResponsesInTurn'
  BY <1>2 DEF Earlier, Turn
<1>t. ASSUME gates' = gates, NEW g \in Gates, NEW q \in Requests, caught[g] = q, OnResponse[g],
             at[q] = "response", g \in held[q], held'[q] = held[q]
      PROVE  Turn(g, q)'
  <2>1. Turn(g, q)
    BY <1>t
  <2>2. QED
    BY <1>t, <2>1, SameTurn
<1>3. ASSUME NEW r \in Requests, Arrive(r) PROVE HeldAreRegistered' /\ ResponsesInTurn'
  <2>1. HeldAreRegistered'
    BY <1>3 DEF Arrive, Catching
  <2>2. ASSUME NEW g \in Gates, NEW q \in Requests, caught'[g] = q, OnResponse[g], at'[q] = "response", g \in held'[q]
        PROVE Turn(g, q)'
    <3>1. q # r /\ caught[g] = q /\ held'[q] = held[q] /\ gates' = gates /\ at[q] = "response"
      BY <1>3, <2>2 DEF Arrive, Catching
    <3>2. QED
      BY <3>1, <2>2, <1>t
  <2>3. QED
    BY <2>1, <2>2
<1>4. ASSUME NEW r \in Requests, Respond(r) PROVE HeldAreRegistered' /\ ResponsesInTurn'
  <2>1. HeldAreRegistered'
    BY <1>4 DEF Respond, Catching
  <2>2. ASSUME NEW g \in Gates, NEW q \in Requests, caught'[g] = q, OnResponse[g], at'[q] = "response", g \in held'[q]
        PROVE Turn(g, q)'
    <3>1. q # r /\ caught[g] = q /\ held'[q] = held[q] /\ gates' = gates /\ at[q] = "response"
      BY <1>4, <2>2 DEF Respond, ResponsesAreHeld
    <3>2. QED
      BY <3>1, <2>2, <1>t
  <2>3. QED
    BY <2>1, <2>2
<1>5. ASSUME NEW r \in Requests, Reach(r) PROVE HeldAreRegistered' /\ ResponsesInTurn'
  <2>1. PICK h \in Gates : Turn(h, r) /\ caught' = [caught EXCEPT ![h] = r]
    BY <1>5 DEF Reach
  <2>2. UNCHANGED <<gates, at, held>>
    BY <1>5 DEF Reach
  <2>3. ASSUME NEW g \in Gates, NEW q \in Requests, caught'[g] = q, OnResponse[g], at'[q] = "response", g \in held'[q]
        PROVE Turn(g, q)'
    <3>1. CASE g = h
      <4>1. q = r
        BY <2>1, <2>3, <3>1
      <4>2. QED
        BY <2>1, <2>2, <3>1, <4>1, SameTurn
    <3>2. CASE g # h
      BY <1>t, <2>1, <2>2, <2>3, <3>2
    <3>3. QED
      BY <3>1, <3>2
  <2>4. QED
    BY <2>2, <2>3
<1>6. ASSUME NEW g \in Gates, Open(g) \/ Discard(g) \/ CloseRelease(g)
      PROVE  HeldAreRegistered' /\ ResponsesInTurn'
  BY <1>2, <1>6 DEF Open, Discard, CloseRelease
<1>7. ASSUME NEW r \in Requests, PassRequest(r) \/ PassResponse(r)
      PROVE  HeldAreRegistered' /\ ResponsesInTurn'
  <2>1. UNCHANGED <<gates, caught>>
    BY <1>7 DEF PassRequest, PassResponse
  <2>2. \A q \in Requests : held'[q] \subseteq held[q]
    <3>1. PICK g \in Gates : held' = held \/ held' = [held EXCEPT ![r] = held[r] \ {g}]
      BY <1>7 DEF PassRequest, PassResponse
    <3>2. CASE held' = held
      BY <3>2
    <3>3. CASE held' = [held EXCEPT ![r] = held[r] \ {g}]
      <4>1. held \in [Requests -> SUBSET Gates]
        OBVIOUS
      <4>2. QED
        BY ONLY <3>3, <4>1
    <3>4. QED
      BY <3>1, <3>2, <3>3
  <2>3. \A q \in Requests : at'[q] = "response" => at[q] = "response"
    BY <1>7 DEF PassRequest, PassResponse
  <2>4. QED
    BY <1>2, <2>1, <2>2, <2>3
<1>8. ASSUME NEW r \in Requests,
             AbandonRequest(r) \/ Forward(r) \/ ForwardFails(r) \/ AbandonResponse(r) \/ Deliver(r) \/ Disconnect(r)
      PROVE  HeldAreRegistered' /\ ResponsesInTurn'
  BY <1>2, <1>8 DEF AbandonRequest, Forward, ForwardFails, AbandonResponse, Deliver, Disconnect
<1>9. ASSUME OpenAll \/ CloseServer \/ UNCHANGED vars PROVE HeldAreRegistered' /\ ResponsesInTurn'
  BY <1>2, <1>9 DEF OpenAll, CloseServer, vars
<1>10. QED
  BY <1>1, <1>3, <1>4, <1>5, <1>6, <1>7, <1>8, <1>9 DEF Next, Handle
-----------------------------------------------------------------------------
\* Every gate, exchange and handler stays within its type.
THEOREM Invariance == Spec => []IInv
<1>1. IInv /\ [Next]_vars => IInv'
  BY StepCore, StepInTurn DEF IInv
<1>2. QED
  BY InitIInv, <1>1, PTL DEF Spec

\* What a test concludes from a caught exchange is true, for any gates.
THEOREM BoundaryIsTrue == Spec => []CrashBoundary
BY Invariance, InvariantMeaning, PTL

\* A discarded request never reaches the backend, for any gates.
THEOREM DiscardLoses == Spec => []DiscardedIsLost
BY Invariance, InvariantMeaning, PTL
-----------------------------------------------------------------------------
(* The scripts and the candidate. *)

\* The scripts start with a proxy that has seen no request.
LEMMA InitIsProxys == AllInit => Init
BY DEF AllInit

\* No step of a test or of a candidate reaches into the proxy but through its
\* operations.
LEMMA StepIsProxys == [AllNext]_allVars => [Next]_vars
<1> SUFFICES ASSUME [AllNext]_allVars PROVE Next \/ UNCHANGED vars
  OBVIOUS
<1> USE GateNames
<1>1. CASE Gating
  BY <1>1 DEF Gating, Next, GateOf, GatedTests
<1>2. CASE Awaiting \/ Asserting \/ TimeOut
  BY <1>2 DEF Awaiting, Asserting, TimeOut, Quiet
<1>3. CASE Write \/ Cancel \/ Crash \/ Start
  BY <1>3 DEF Write, Cancel, Crash, Start
<1>4. CASE Take \/ Read \/ Settle \/ Hasten
  BY <1>4 DEF Take, Read, Settle, Hasten
<1>5. CASE Send
  BY <1>5 DEF Send, Next
<1>6. CASE Free
  BY <1>6 DEF Free, Next
<1>7. CASE Cleanup
  BY <1>7 DEF Cleanup, Next
<1>8. CASE Close
  BY <1>8 DEF Close, Next
<1>9. ASSUME NEW r \in Requests, Proxy(r) \/ Part(r) PROVE Next
  BY <1>9 DEF Proxy, Part, Next
<1>10. CASE UNCHANGED allVars
  BY <1>10 DEF allVars
<1>11. QED
  BY <1>1, <1>2, <1>3, <1>4, <1>5, <1>6, <1>7, <1>8, <1>9, <1>10 DEF AllNext, TestStep, Candidate

\* A test with its candidate implements the proxy.
THEOREM TestsRunTheProxy == AllSpec => Spec
BY InitIsProxys, StepIsProxys, PTL DEF AllSpec, Spec

\* In every crash and fault test, whatever its candidate does, a caught
\* exchange is where the test believes it to be.
THEOREM BoundaryInTests == AllSpec => []CrashBoundary
BY TestsRunTheProxy, BoundaryIsTrue

\* In every test a discarded request is lost for good.
THEOREM DiscardInTests == AllSpec => []DiscardedIsLost
BY TestsRunTheProxy, DiscardLoses
-----------------------------------------------------------------------------
(* Where the script is.  A mark is set for good when the script has passed *)
(* the step that it names; some tests never set it.                        *)

Never == 99

Passed(number) == step >= number /\ number # Never

After(b, a, k, l, c, ab, aa, ao) ==
    \/ test = "before" /\ Passed(b)
    \/ test = "after" /\ Passed(a)
    \/ test = "acknowledged" /\ Passed(k)
    \/ test = "lost" /\ Passed(l)
    \/ test = "cancelled" /\ Passed(c)
    \/ test = "acceptedBefore" /\ Passed(ab)
    \/ test = "acceptedAfter" /\ Passed(aa)
    \/ test = "acceptedOffset" /\ Passed(ao)

\* The gate is registered and has caught its exchange; it is let go.
Gated     == After(2, 2, Never, 2, 2, 1, 1, Never)
Caught    == After(4, 4, Never, 4, 4, 3, 3, Never)
Released  == After(8, 8, Never, 7, 8, 7, 7, Never)

\* The candidate runs, crashes and runs again; the exchange may be cut off.
Started   == After(1, 1, 1, 1, 1, 2, 2, 1)
Crashed   == After(7, 7, 4, Never, Never, 6, 6, 4)
Broken    == After(7, 7, 4, Never, 6, 6, 6, 4)
Restarted == After(10, 10, 5, Never, Never, 9, 8, 5)

\* The mutations the test writes, and what it has been told of them.
Wrote1    == After(3, 3, 2, 3, 3, Never, Never, Never)
Acked     == After(Never, Never, 3, Never, Never, Never, Never, Never)
Settled   == After(9, 9, Never, 8, 7, Never, Never, Never)
Wrote2    == After(12, 12, 7, 11, 10, Never, Never, Never)
Applied2  == After(13, 13, 8, 12, 11, Never, Never, Never)
Wrote3    == After(15, 15, 10, Never, Never, Never, Never, Never)
Applied3  == After(16, 16, 11, Never, Never, Never, Never, Never)

\* The worker has committed, the mutation is stored, the exchanges counted.
Offset    == After(Never, Never, Never, Never, Never, Never, Never, 2)
Drained   == After(Never, Never, Never, Never, Never, 10, 9, 6)
Stored    == After(14, Never, 6, Never, Never, 11, Never, 3)
OneWrite  == After(Never, Never, Never, 10, Never, Never, Never, Never)
Ended     == After(17, 17, 12, 13, 12, 12, 11, 8)
-----------------------------------------------------------------------------
(* The invariant of the scripts.                                           *)

HasGate == test \in GatedTests
G == GateOf(test)
Alone == test \in {"lost", "cancelled"}
Sent(r) == at[r] # "unsent"
Failures == Finished \ {"answered"}
Until(n) == \A r \in Requests : r > n => at[r] = "unsent"
Increments == {r \in Requests : carries[r] = "increment"}
Count(r) == IF r \in committed THEN 1 ELSE 0

Types ==
    /\ test \in Tests \cup {"any"} /\ fault \in {"none", "early", "replay", "place"}
    /\ verdict \in {"running", "passed", "failed"} /\ step \in Nat
    /\ alive \in BOOLEAN /\ merged \in BOOLEAN /\ early \in BOOLEAN
    /\ task \in {"idempotent", "increment", "none"} /\ told \in {"pending", "applied", "unknown"}
    /\ offset \in 0..2 /\ place \in 0..2 /\ snapshots \in Nat
    /\ current \in Requests \cup {Nobody} /\ carries \in [Requests -> {"idempotent", "increment", "none"}]
    /\ document \in [counter : Nat, marked : BOOLEAN] /\ orphans \subseteq Requests

\* The candidate runs when the script wants it to.
Progress ==
    /\ verdict = "passed" <=> Ended
    /\ alive <=> Started /\ (Crashed => Restarted)
    /\ task # "none" => alive
    /\ ~Started => task = "none" /\ told = "pending"

\* The gate of the test catches the first exchange and no other, holds it
\* until it is let go, and no other gate exists.
Gate ==
    /\ gates = IF HasGate /\ Gated THEN <<G>> ELSE <<>>
    /\ \A g \in Gates : caught[g] # Nobody => HasGate /\ g = G /\ caught[g] = 1 /\ Sent(1) /\ seen[g] # 0
    /\ \A g \in Gates : ~(HasGate /\ g = G /\ Released) /\ verdict = "running" => release[g] = "shut"
    /\ \A g \in discarded : HasGate /\ g = G /\ g = first /\ Released
    /\ HasGate /\ G = first /\ Released => G \in discarded
    /\ \A r \in Requests : \A g \in held[r] : r = 1 /\ HasGate /\ g = G /\ seen[g] # 0
    /\ HasGate /\ Caught => caught[G] = 1
    /\ HasGate /\ Sent(1) => Gated
    /\ HasGate /\ ~Until(1) => caught[G] = 1
    /\ HasGate /\ at[1] = "answered" => Released /\ test # "lost"
    /\ HasGate /\ G = first => (Sent(1) => caught[G] = 1) /\ (~Sent(1) => seen[G] = 0)
    /\ HasGate /\ G # first /\ at[1] \in {"unsent", "request", "executed"} => seen[G] = 0
    /\ HasGate /\ G # first /\ at[1] = "response" /\ (~Released \/ Drops[G]) => held[1] = {G}

\* Only the exchange a crash or the test cuts off gets lost.
Fate ==
    /\ orphans \subseteq {1} /\ (~Broken => orphans = {}) /\ gone \subseteq orphans
    /\ \A r \in Requests :
          /\ at[r] \in {"abandoned", "failed"} => r \in gone
          /\ at[r] = "refused" => r = 1 /\ test \in {"before", "acceptedBefore"} /\ Released
          /\ at[r] = "dropped" => r = 1 /\ test = "lost" /\ Released

\* The exchanges are sent in order, each for the task of its time.
Carrying ==
    /\ \A r \in Requests : Sent(r) <=> carries[r] # "none"
    /\ \A q, r \in Requests : q < r /\ Sent(r) => Sent(q)
    /\ current # Nobody => Sent(current) /\ (task # "none" => carries[current] = task)
    /\ merged => task # "none"
    /\ merged /\ current # Nobody =>
          fault = "replay" /\ Alone /\ current = 1 /\ at[1] \in Failures /\ ~Wrote2
    /\ task # "none" /\ (Wrote2 \/ Restarted) => Sent(1) /\ current # 1
    /\ Wrote2 => current # 1
    /\ ~Accepting => (task # "none" => Wrote1)
    /\ ~Broken /\ ~Wrote2 /\ (fault # "replay" \/ ~Released) => Until(1)
    /\ task # "none" /\ ~Wrote2 /\ ~Crashed /\ current = Nobody => ~Sent(1)
    /\ ~Alone /\ (IF Accepting THEN ~Restarted ELSE ~Wrote2) => Until(1)
    /\ ~Accepting /\ Crashed /\ ~Wrote2 => task = "none"
    /\ ~Wrote1 /\ ~Accepting => Until(0) /\ current = Nobody

\* What the caller has been told is true of the exchange.
Told ==
    /\ fault # "early" /\ HasGate /\ Wrote1 /\ ~Broken /\ ~Released => told = "pending"
    /\ fault # "early" /\ HasGate /\ ~Accepting /\ Broken /\ ~Wrote2 => told = "unknown"
    /\ test = "lost" /\ fault \notin {"early", "replay"} /\ ~Wrote2 => told # "applied"
    /\ test = "lost" /\ ~Wrote2 /\ Wrote1 /\ told = "unknown" => task = "none"
    /\ test = "lost" /\ Settled /\ ~Wrote2 => told = "unknown"
    /\ early => fault = "early"
    /\ ~Accepting /\ ~Wrote1 => ~early
    /\ early /\ HasGate /\ ~Accepting => told = "applied" /\ ~Settled
    /\ ~Accepting /\ (Wrote2 \/ (test = "acknowledged" /\ ~Crashed)) => told # "unknown"
    /\ fault # "early" /\ ~Accepting /\ told = "applied" /\ (Crashed => Wrote2) =>
          current # Nobody /\ at[current] = "answered"
    /\ fault # "early" /\ Acked => 1 \in committed
    /\ Applied3 \/ (Applied2 /\ ~Wrote3) => told = "applied"

\* The document is what the mutations the backend has executed leave.
Documents ==
    /\ (\A r \in Requests : carries[r] # "increment") =>
          document = [counter |-> IF committed = {} THEN 0 ELSE 1, marked |-> committed # {}]
    /\ ~Alone =>
          /\ ~Wrote3 => Increments = {} /\ task # "increment"
          /\ Wrote3 => /\ document.marked /\ task # "idempotent"
                       /\ \A r \in Increments : r = current
                       /\ current # Nobody => current \in Increments
                       /\ document.counter = IF Increments \cap committed = {} THEN 1 ELSE 2
    /\ Alone =>
          /\ \A r \in Requests : carries[r] # "idempotent"
          /\ task # "idempotent"
          /\ Until(1) => document.counter = Count(1)
          /\ fault # "replay" \/ OneWrite =>
                /\ ~Wrote2 => Until(1)
                /\ Until(2)
                /\ Sent(2) => current = 2
                /\ document.counter = Count(1) + Count(2)
    /\ Stored => committed # {}
    /\ (Stored \/ Caught) /\ test \notin {"before", "acceptedBefore"} => 1 \in committed
    /\ test = "lost" /\ Ended => 2 \in committed
    /\ ~Alone /\ Ended => document.counter = IF Accepting THEN 1 ELSE 2

\* The worker's place in the records, and its reads of the document.
Accepted ==
    Accepting =>
    /\ Until(2) /\ (~Restarted => Until(1))
    /\ Crashed => Sent(1)
    /\ fault # "place" => place = offset \/ ~Started
    /\ ~Started => place = 0 /\ offset = 0
    /\ snapshots = (IF Crashed THEN 1 ELSE 0) +
          (IF merged \/ (IF Crashed THEN ~Until(1) ELSE Sent(1)) THEN 1 ELSE 0)
    /\ ~Restarted => /\ offset \in 0..1 /\ place \in 0..1
                     /\ fault # "early" /\ HasGate => offset = 0
    /\ ~Crashed => /\ task = "none" /\ place = 0 => current = Nobody /\ ~Sent(1)
                   /\ task # "none" /\ Sent(1) => current = 1
                   /\ fault # "early" /\ offset = 1 => at[1] = "answered"
    /\ Crashed /\ ~Restarted => task = "none"
    /\ early => offset >= 1
    /\ Restarted /\ task # "none" /\ Sent(2) => current = 2
    /\ Restarted /\ task = "none" => at[2] \in {"unsent", "answered"} /\ (place = 0 => ~Sent(2))
    /\ task # "none" => offset < 2 /\ place < 2
    /\ offset = 2 => place = 2
    /\ Crashed /\ fault # "place" /\ (early \/ test = "acceptedOffset") => offset >= 1 /\ task = "none" /\ ~Sent(2)
    /\ fault \notin {"early", "place"} /\ HasGate /\ place >= 1 => at[2] = "answered"
    /\ Offset => offset >= 1
    /\ Drained => offset = 2
    /\ HasGate /\ Ended => Sent(2) /\ ~early
    /\ test = "acceptedOffset" /\ Ended => Until(1)

Going == test \in Tests /\ verdict # "failed"
-----------------------------------------------------------------------------
(* The scripts, step by step.                                              *)

\* The names of the steps.
StepNames ==
    {"start", "hold", "idempotent", "caught", "backend0", "pending", "crash", "discard",
     "unknown", "counter0", "applied", "counter1", "increment", "counter2", "backend1", "open",
     "oneWrite", "cancel", "uncommitted", "drained", "replayed", "committed", "notReplayed"}

\* A place in a sequence of at most seventeen elements is one of seventeen.
LEMMA Places ==
    ASSUME NEW s, NEW i \in 0..16
    PROVE  \/ i = 0 /\ s[i + 1] = s[1]
           \/ i = 1 /\ s[i + 1] = s[2]
           \/ i = 2 /\ s[i + 1] = s[3]
           \/ i = 3 /\ s[i + 1] = s[4]
           \/ i = 4 /\ s[i + 1] = s[5]
           \/ i = 5 /\ s[i + 1] = s[6]
           \/ i = 6 /\ s[i + 1] = s[7]
           \/ i = 7 /\ s[i + 1] = s[8]
           \/ i = 8 /\ s[i + 1] = s[9]
           \/ i = 9 /\ s[i + 1] = s[10]
           \/ i = 10 /\ s[i + 1] = s[11]
           \/ i = 11 /\ s[i + 1] = s[12]
           \/ i = 12 /\ s[i + 1] = s[13]
           \/ i = 13 /\ s[i + 1] = s[14]
           \/ i = 14 /\ s[i + 1] = s[15]
           \/ i = 15 /\ s[i + 1] = s[16]
           \/ i = 16 /\ s[i + 1] = s[17]
<1>1. i = 0 \/ i = 1 \/ i = 2 \/ i = 3 \/ i = 4 \/ i = 5 \/ i = 6 \/ i = 7 \/ i = 8
      \/ i = 9 \/ i = 10 \/ i = 11 \/ i = 12 \/ i = 13 \/ i = 14 \/ i = 15 \/ i = 16
  OBVIOUS
<1>p0. i = 0 => s[i + 1] = s[1]  OBVIOUS
<1>p1. i = 1 => s[i + 1] = s[2]  OBVIOUS
<1>p2. i = 2 => s[i + 1] = s[3]  OBVIOUS
<1>p3. i = 3 => s[i + 1] = s[4]  OBVIOUS
<1>p4. i = 4 => s[i + 1] = s[5]  OBVIOUS
<1>p5. i = 5 => s[i + 1] = s[6]  OBVIOUS
<1>p6. i = 6 => s[i + 1] = s[7]  OBVIOUS
<1>p7. i = 7 => s[i + 1] = s[8]  OBVIOUS
<1>p8. i = 8 => s[i + 1] = s[9]  OBVIOUS
<1>p9. i = 9 => s[i + 1] = s[10]  OBVIOUS
<1>p10. i = 10 => s[i + 1] = s[11]  OBVIOUS
<1>p11. i = 11 => s[i + 1] = s[12]  OBVIOUS
<1>p12. i = 12 => s[i + 1] = s[13]  OBVIOUS
<1>p13. i = 13 => s[i + 1] = s[14]  OBVIOUS
<1>p14. i = 14 => s[i + 1] = s[15]  OBVIOUS
<1>p15. i = 15 => s[i + 1] = s[16]  OBVIOUS
<1>p16. i = 16 => s[i + 1] = s[17]  OBVIOUS
<1>2. QED
  BY ONLY <1>1, <1>p0, <1>p1, <1>p2, <1>p3, <1>p4, <1>p5, <1>p6, <1>p7, <1>p8, <1>p9, <1>p10, <1>p11, <1>p12, <1>p13, <1>p14, <1>p15, <1>p16

\* The steps of the test of a crash before the backend's execution.
LEMMA StepsBefore ==
    ASSUME step \in Nat, test = "before", NEW n, Now(n)
    PROVE  /\ Len(Script(test)) = 17 /\ step < 17
           /\ \/ step = 0 /\ n = "start"
              \/ step = 1 /\ n = "hold"
              \/ step = 2 /\ n = "idempotent"
              \/ step = 3 /\ n = "caught"
              \/ step = 4 /\ n = "backend0"
              \/ step = 5 /\ n = "pending"
              \/ step = 6 /\ n = "crash"
              \/ step = 7 /\ n = "discard"
              \/ step = 8 /\ n = "unknown"
              \/ step = 9 /\ n = "start"
              \/ step = 10 /\ n = "counter0"
              \/ step = 11 /\ n = "idempotent"
              \/ step = 12 /\ n = "applied"
              \/ step = 13 /\ n = "counter1"
              \/ step = 14 /\ n = "increment"
              \/ step = 15 /\ n = "applied"
              \/ step = 16 /\ n = "counter2"
<1> DEFINE B == Script(test)
<1>6. /\ Len(B) = 17
      /\ B[1] = "start" /\ B[2] = "hold" /\ B[3] = "idempotent"
      /\ B[4] = "caught" /\ B[5] = "backend0" /\ B[6] = "pending"
      /\ B[7] = "crash" /\ B[8] = "discard" /\ B[9] = "unknown"
      /\ B[10] = "start" /\ B[11] = "counter0" /\ B[12] = "idempotent"
      /\ B[13] = "applied" /\ B[14] = "counter1" /\ B[15] = "increment"
      /\ B[16] = "applied" /\ B[17] = "counter2"
  BY DEF Script
<1>9. step < Len(B) /\ B[step + 1] = n
  BY DEF Now
<1> HIDE DEF B
<1>10. step \in 0..16 /\ step < 17
  BY <1>6, <1>9
<1>11. \/ step = 0 /\ B[step + 1] = B[1]
       \/ step = 1 /\ B[step + 1] = B[2]
       \/ step = 2 /\ B[step + 1] = B[3]
       \/ step = 3 /\ B[step + 1] = B[4]
       \/ step = 4 /\ B[step + 1] = B[5]
       \/ step = 5 /\ B[step + 1] = B[6]
       \/ step = 6 /\ B[step + 1] = B[7]
       \/ step = 7 /\ B[step + 1] = B[8]
       \/ step = 8 /\ B[step + 1] = B[9]
       \/ step = 9 /\ B[step + 1] = B[10]
       \/ step = 10 /\ B[step + 1] = B[11]
       \/ step = 11 /\ B[step + 1] = B[12]
       \/ step = 12 /\ B[step + 1] = B[13]
       \/ step = 13 /\ B[step + 1] = B[14]
       \/ step = 14 /\ B[step + 1] = B[15]
       \/ step = 15 /\ B[step + 1] = B[16]
       \/ step = 16 /\ B[step + 1] = B[17]
  BY <1>10, Places
<1>12. QED
  BY ONLY <1>9, <1>10, <1>11, <1>6 DEF B

\* The steps of the test of a crash after the backend's execution.
LEMMA StepsAfter ==
    ASSUME step \in Nat, test = "after", NEW n, Now(n)
    PROVE  /\ Len(Script(test)) = 17 /\ step < 17
           /\ \/ step = 0 /\ n = "start"
              \/ step = 1 /\ n = "hold"
              \/ step = 2 /\ n = "idempotent"
              \/ step = 3 /\ n = "caught"
              \/ step = 4 /\ n = "backend1"
              \/ step = 5 /\ n = "pending"
              \/ step = 6 /\ n = "crash"
              \/ step = 7 /\ n = "open"
              \/ step = 8 /\ n = "unknown"
              \/ step = 9 /\ n = "start"
              \/ step = 10 /\ n = "counter1"
              \/ step = 11 /\ n = "idempotent"
              \/ step = 12 /\ n = "applied"
              \/ step = 13 /\ n = "counter1"
              \/ step = 14 /\ n = "increment"
              \/ step = 15 /\ n = "applied"
              \/ step = 16 /\ n = "counter2"
<1> DEFINE B == Script(test)
<1>6. /\ Len(B) = 17
      /\ B[1] = "start" /\ B[2] = "hold" /\ B[3] = "idempotent"
      /\ B[4] = "caught" /\ B[5] = "backend1" /\ B[6] = "pending"
      /\ B[7] = "crash" /\ B[8] = "open" /\ B[9] = "unknown"
      /\ B[10] = "start" /\ B[11] = "counter1" /\ B[12] = "idempotent"
      /\ B[13] = "applied" /\ B[14] = "counter1" /\ B[15] = "increment"
      /\ B[16] = "applied" /\ B[17] = "counter2"
  BY DEF Script
<1>9. step < Len(B) /\ B[step + 1] = n
  BY DEF Now
<1> HIDE DEF B
<1>10. step \in 0..16 /\ step < 17
  BY <1>6, <1>9
<1>11. \/ step = 0 /\ B[step + 1] = B[1]
       \/ step = 1 /\ B[step + 1] = B[2]
       \/ step = 2 /\ B[step + 1] = B[3]
       \/ step = 3 /\ B[step + 1] = B[4]
       \/ step = 4 /\ B[step + 1] = B[5]
       \/ step = 5 /\ B[step + 1] = B[6]
       \/ step = 6 /\ B[step + 1] = B[7]
       \/ step = 7 /\ B[step + 1] = B[8]
       \/ step = 8 /\ B[step + 1] = B[9]
       \/ step = 9 /\ B[step + 1] = B[10]
       \/ step = 10 /\ B[step + 1] = B[11]
       \/ step = 11 /\ B[step + 1] = B[12]
       \/ step = 12 /\ B[step + 1] = B[13]
       \/ step = 13 /\ B[step + 1] = B[14]
       \/ step = 14 /\ B[step + 1] = B[15]
       \/ step = 15 /\ B[step + 1] = B[16]
       \/ step = 16 /\ B[step + 1] = B[17]
  BY <1>10, Places
<1>12. QED
  BY ONLY <1>9, <1>10, <1>11, <1>6 DEF B

\* The steps of the test of a crash after the acknowledgement.
LEMMA StepsAcknowledged ==
    ASSUME step \in Nat, test = "acknowledged", NEW n, Now(n)
    PROVE  /\ Len(Script(test)) = 12 /\ step < 12
           /\ \/ step = 0 /\ n = "start"
              \/ step = 1 /\ n = "idempotent"
              \/ step = 2 /\ n = "applied"
              \/ step = 3 /\ n = "crash"
              \/ step = 4 /\ n = "start"
              \/ step = 5 /\ n = "counter1"
              \/ step = 6 /\ n = "idempotent"
              \/ step = 7 /\ n = "applied"
              \/ step = 8 /\ n = "counter1"
              \/ step = 9 /\ n = "increment"
              \/ step = 10 /\ n = "applied"
              \/ step = 11 /\ n = "counter2"
<1> DEFINE B == Script(test)
<1>6. /\ Len(B) = 12
      /\ B[1] = "start" /\ B[2] = "idempotent" /\ B[3] = "applied"
      /\ B[4] = "crash" /\ B[5] = "start" /\ B[6] = "counter1"
      /\ B[7] = "idempotent" /\ B[8] = "applied" /\ B[9] = "counter1"
      /\ B[10] = "increment" /\ B[11] = "applied" /\ B[12] = "counter2"
  BY DEF Script
<1>9. step < Len(B) /\ B[step + 1] = n
  BY DEF Now
<1> HIDE DEF B
<1>10. step \in 0..16 /\ step < 12
  BY <1>6, <1>9
<1>11. \/ step = 0 /\ B[step + 1] = B[1]
       \/ step = 1 /\ B[step + 1] = B[2]
       \/ step = 2 /\ B[step + 1] = B[3]
       \/ step = 3 /\ B[step + 1] = B[4]
       \/ step = 4 /\ B[step + 1] = B[5]
       \/ step = 5 /\ B[step + 1] = B[6]
       \/ step = 6 /\ B[step + 1] = B[7]
       \/ step = 7 /\ B[step + 1] = B[8]
       \/ step = 8 /\ B[step + 1] = B[9]
       \/ step = 9 /\ B[step + 1] = B[10]
       \/ step = 10 /\ B[step + 1] = B[11]
       \/ step = 11 /\ B[step + 1] = B[12]
       \/ step = 12 /\ B[step + 1] = B[13]
       \/ step = 13 /\ B[step + 1] = B[14]
       \/ step = 14 /\ B[step + 1] = B[15]
       \/ step = 15 /\ B[step + 1] = B[16]
       \/ step = 16 /\ B[step + 1] = B[17]
  BY <1>10, Places
<1>12. QED
  BY ONLY <1>9, <1>10, <1>11, <1>6 DEF B

\* The steps of the test of a lost answer.
LEMMA StepsLostAnswer ==
    ASSUME step \in Nat, test = "lost", NEW n, Now(n)
    PROVE  /\ Len(Script(test)) = 13 /\ step < 13
           /\ \/ step = 0 /\ n = "start"
              \/ step = 1 /\ n = "hold"
              \/ step = 2 /\ n = "increment"
              \/ step = 3 /\ n = "caught"
              \/ step = 4 /\ n = "backend1"
              \/ step = 5 /\ n = "pending"
              \/ step = 6 /\ n = "open"
              \/ step = 7 /\ n = "unknown"
              \/ step = 8 /\ n = "counter1"
              \/ step = 9 /\ n = "oneWrite"
              \/ step = 10 /\ n = "increment"
              \/ step = 11 /\ n = "applied"
              \/ step = 12 /\ n = "counter2"
<1> DEFINE B == Script(test)
<1>6. /\ Len(B) = 13
      /\ B[1] = "start" /\ B[2] = "hold" /\ B[3] = "increment"
      /\ B[4] = "caught" /\ B[5] = "backend1" /\ B[6] = "pending"
      /\ B[7] = "open" /\ B[8] = "unknown" /\ B[9] = "counter1"
      /\ B[10] = "oneWrite" /\ B[11] = "increment" /\ B[12] = "applied"
      /\ B[13] = "counter2"
  BY DEF Script
<1>9. step < Len(B) /\ B[step + 1] = n
  BY DEF Now
<1> HIDE DEF B
<1>10. step \in 0..16 /\ step < 13
  BY <1>6, <1>9
<1>11. \/ step = 0 /\ B[step + 1] = B[1]
       \/ step = 1 /\ B[step + 1] = B[2]
       \/ step = 2 /\ B[step + 1] = B[3]
       \/ step = 3 /\ B[step + 1] = B[4]
       \/ step = 4 /\ B[step + 1] = B[5]
       \/ step = 5 /\ B[step + 1] = B[6]
       \/ step = 6 /\ B[step + 1] = B[7]
       \/ step = 7 /\ B[step + 1] = B[8]
       \/ step = 8 /\ B[step + 1] = B[9]
       \/ step = 9 /\ B[step + 1] = B[10]
       \/ step = 10 /\ B[step + 1] = B[11]
       \/ step = 11 /\ B[step + 1] = B[12]
       \/ step = 12 /\ B[step + 1] = B[13]
       \/ step = 13 /\ B[step + 1] = B[14]
       \/ step = 14 /\ B[step + 1] = B[15]
       \/ step = 15 /\ B[step + 1] = B[16]
       \/ step = 16 /\ B[step + 1] = B[17]
  BY <1>10, Places
<1>12. QED
  BY ONLY <1>9, <1>10, <1>11, <1>6 DEF B

\* The steps of the test of a cancelled write.
LEMMA StepsCancelled ==
    ASSUME step \in Nat, test = "cancelled", NEW n, Now(n)
    PROVE  /\ Len(Script(test)) = 12 /\ step < 12
           /\ \/ step = 0 /\ n = "start"
              \/ step = 1 /\ n = "hold"
              \/ step = 2 /\ n = "increment"
              \/ step = 3 /\ n = "caught"
              \/ step = 4 /\ n = "backend1"
              \/ step = 5 /\ n = "cancel"
              \/ step = 6 /\ n = "unknown"
              \/ step = 7 /\ n = "open"
              \/ step = 8 /\ n = "counter1"
              \/ step = 9 /\ n = "increment"
              \/ step = 10 /\ n = "applied"
              \/ step = 11 /\ n = "counter2"
<1> DEFINE B == Script(test)
<1>6. /\ Len(B) = 12
      /\ B[1] = "start" /\ B[2] = "hold" /\ B[3] = "increment"
      /\ B[4] = "caught" /\ B[5] = "backend1" /\ B[6] = "cancel"
      /\ B[7] = "unknown" /\ B[8] = "open" /\ B[9] = "counter1"
      /\ B[10] = "increment" /\ B[11] = "applied" /\ B[12] = "counter2"
  BY DEF Script
<1>9. step < Len(B) /\ B[step + 1] = n
  BY DEF Now
<1> HIDE DEF B
<1>10. step \in 0..16 /\ step < 12
  BY <1>6, <1>9
<1>11. \/ step = 0 /\ B[step + 1] = B[1]
       \/ step = 1 /\ B[step + 1] = B[2]
       \/ step = 2 /\ B[step + 1] = B[3]
       \/ step = 3 /\ B[step + 1] = B[4]
       \/ step = 4 /\ B[step + 1] = B[5]
       \/ step = 5 /\ B[step + 1] = B[6]
       \/ step = 6 /\ B[step + 1] = B[7]
       \/ step = 7 /\ B[step + 1] = B[8]
       \/ step = 8 /\ B[step + 1] = B[9]
       \/ step = 9 /\ B[step + 1] = B[10]
       \/ step = 10 /\ B[step + 1] = B[11]
       \/ step = 11 /\ B[step + 1] = B[12]
       \/ step = 12 /\ B[step + 1] = B[13]
       \/ step = 13 /\ B[step + 1] = B[14]
       \/ step = 14 /\ B[step + 1] = B[15]
       \/ step = 15 /\ B[step + 1] = B[16]
       \/ step = 16 /\ B[step + 1] = B[17]
  BY <1>10, Places
<1>12. QED
  BY ONLY <1>9, <1>10, <1>11, <1>6 DEF B

\* The steps of the test of a worker's crash before the backend's execution.
LEMMA StepsAcceptedBefore ==
    ASSUME step \in Nat, test = "acceptedBefore", NEW n, Now(n)
    PROVE  /\ Len(Script(test)) = 12 /\ step < 12
           /\ \/ step = 0 /\ n = "hold"
              \/ step = 1 /\ n = "start"
              \/ step = 2 /\ n = "caught"
              \/ step = 3 /\ n = "backend0"
              \/ step = 4 /\ n = "uncommitted"
              \/ step = 5 /\ n = "crash"
              \/ step = 6 /\ n = "discard"
              \/ step = 7 /\ n = "counter0"
              \/ step = 8 /\ n = "start"
              \/ step = 9 /\ n = "drained"
              \/ step = 10 /\ n = "counter1"
              \/ step = 11 /\ n = "replayed"
<1> DEFINE B == Script(test)
<1>6. /\ Len(B) = 12
      /\ B[1] = "hold" /\ B[2] = "start" /\ B[3] = "caught"
      /\ B[4] = "backend0" /\ B[5] = "uncommitted" /\ B[6] = "crash"
      /\ B[7] = "discard" /\ B[8] = "counter0" /\ B[9] = "start"
      /\ B[10] = "drained" /\ B[11] = "counter1" /\ B[12] = "replayed"
  BY DEF Script
<1>9. step < Len(B) /\ B[step + 1] = n
  BY DEF Now
<1> HIDE DEF B
<1>10. step \in 0..16 /\ step < 12
  BY <1>6, <1>9
<1>11. \/ step = 0 /\ B[step + 1] = B[1]
       \/ step = 1 /\ B[step + 1] = B[2]
       \/ step = 2 /\ B[step + 1] = B[3]
       \/ step = 3 /\ B[step + 1] = B[4]
       \/ step = 4 /\ B[step + 1] = B[5]
       \/ step = 5 /\ B[step + 1] = B[6]
       \/ step = 6 /\ B[step + 1] = B[7]
       \/ step = 7 /\ B[step + 1] = B[8]
       \/ step = 8 /\ B[step + 1] = B[9]
       \/ step = 9 /\ B[step + 1] = B[10]
       \/ step = 10 /\ B[step + 1] = B[11]
       \/ step = 11 /\ B[step + 1] = B[12]
       \/ step = 12 /\ B[step + 1] = B[13]
       \/ step = 13 /\ B[step + 1] = B[14]
       \/ step = 14 /\ B[step + 1] = B[15]
       \/ step = 15 /\ B[step + 1] = B[16]
       \/ step = 16 /\ B[step + 1] = B[17]
  BY <1>10, Places
<1>12. QED
  BY ONLY <1>9, <1>10, <1>11, <1>6 DEF B

\* The steps of the test of a worker's crash after the backend's execution.
LEMMA StepsAcceptedAfter ==
    ASSUME step \in Nat, test = "acceptedAfter", NEW n, Now(n)
    PROVE  /\ Len(Script(test)) = 11 /\ step < 11
           /\ \/ step = 0 /\ n = "hold"
              \/ step = 1 /\ n = "start"
              \/ step = 2 /\ n = "caught"
              \/ step = 3 /\ n = "backend1"
              \/ step = 4 /\ n = "uncommitted"
              \/ step = 5 /\ n = "crash"
              \/ step = 6 /\ n = "open"
              \/ step = 7 /\ n = "start"
              \/ step = 8 /\ n = "drained"
              \/ step = 9 /\ n = "counter1"
              \/ step = 10 /\ n = "replayed"
<1> DEFINE B == Script(test)
<1>6. /\ Len(B) = 11
      /\ B[1] = "hold" /\ B[2] = "start" /\ B[3] = "caught"
      /\ B[4] = "backend1" /\ B[5] = "uncommitted" /\ B[6] = "crash"
      /\ B[7] = "open" /\ B[8] = "start" /\ B[9] = "drained"
      /\ B[10] = "counter1" /\ B[11] = "replayed"
  BY DEF Script
<1>9. step < Len(B) /\ B[step + 1] = n
  BY DEF Now
<1> HIDE DEF B
<1>10. step \in 0..16 /\ step < 11
  BY <1>6, <1>9
<1>11. \/ step = 0 /\ B[step + 1] = B[1]
       \/ step = 1 /\ B[step + 1] = B[2]
       \/ step = 2 /\ B[step + 1] = B[3]
       \/ step = 3 /\ B[step + 1] = B[4]
       \/ step = 4 /\ B[step + 1] = B[5]
       \/ step = 5 /\ B[step + 1] = B[6]
       \/ step = 6 /\ B[step + 1] = B[7]
       \/ step = 7 /\ B[step + 1] = B[8]
       \/ step = 8 /\ B[step + 1] = B[9]
       \/ step = 9 /\ B[step + 1] = B[10]
       \/ step = 10 /\ B[step + 1] = B[11]
       \/ step = 11 /\ B[step + 1] = B[12]
       \/ step = 12 /\ B[step + 1] = B[13]
       \/ step = 13 /\ B[step + 1] = B[14]
       \/ step = 14 /\ B[step + 1] = B[15]
       \/ step = 15 /\ B[step + 1] = B[16]
       \/ step = 16 /\ B[step + 1] = B[17]
  BY <1>10, Places
<1>12. QED
  BY ONLY <1>9, <1>10, <1>11, <1>6 DEF B

\* The steps of the test of a worker's crash after its commit.
LEMMA StepsAcceptedOffset ==
    ASSUME step \in Nat, test = "acceptedOffset", NEW n, Now(n)
    PROVE  /\ Len(Script(test)) = 8 /\ step < 8
           /\ \/ step = 0 /\ n = "start"
              \/ step = 1 /\ n = "committed"
              \/ step = 2 /\ n = "counter1"
              \/ step = 3 /\ n = "crash"
              \/ step = 4 /\ n = "start"
              \/ step = 5 /\ n = "drained"
              \/ step = 6 /\ n = "counter1"
              \/ step = 7 /\ n = "notReplayed"
<1> DEFINE B == Script(test)
<1>6. /\ Len(B) = 8
      /\ B[1] = "start" /\ B[2] = "committed" /\ B[3] = "counter1"
      /\ B[4] = "crash" /\ B[5] = "start" /\ B[6] = "drained"
      /\ B[7] = "counter1" /\ B[8] = "notReplayed"
  BY DEF Script
<1>9. step < Len(B) /\ B[step + 1] = n
  BY DEF Now
<1> HIDE DEF B
<1>10. step \in 0..16 /\ step < 8
  BY <1>6, <1>9
<1>11. \/ step = 0 /\ B[step + 1] = B[1]
       \/ step = 1 /\ B[step + 1] = B[2]
       \/ step = 2 /\ B[step + 1] = B[3]
       \/ step = 3 /\ B[step + 1] = B[4]
       \/ step = 4 /\ B[step + 1] = B[5]
       \/ step = 5 /\ B[step + 1] = B[6]
       \/ step = 6 /\ B[step + 1] = B[7]
       \/ step = 7 /\ B[step + 1] = B[8]
       \/ step = 8 /\ B[step + 1] = B[9]
       \/ step = 9 /\ B[step + 1] = B[10]
       \/ step = 10 /\ B[step + 1] = B[11]
       \/ step = 11 /\ B[step + 1] = B[12]
       \/ step = 12 /\ B[step + 1] = B[13]
       \/ step = 13 /\ B[step + 1] = B[14]
       \/ step = 14 /\ B[step + 1] = B[15]
       \/ step = 15 /\ B[step + 1] = B[16]
       \/ step = 16 /\ B[step + 1] = B[17]
  BY <1>10, Places
<1>12. QED
  BY ONLY <1>9, <1>10, <1>11, <1>6 DEF B
-----------------------------------------------------------------------------
(* The marks, at every step of a script.                                   *)

\* Where the script is when a step is due.
LEMMA Due ==
    ASSUME test \in Tests, step \in Nat, NEW n, Now(n)
    PROVE  \/ n = "start" /\ ((test = "before" /\ step \in {0, 9}) \/ (test = "after" /\ step \in {0, 9})
              \/ (test = "acknowledged" /\ step \in {0, 4}) \/ (test = "lost" /\ step = 0)
              \/ (test = "cancelled" /\ step = 0) \/ (test = "acceptedBefore" /\ step \in {1, 8})
              \/ (test = "acceptedAfter" /\ step \in {1, 7}) \/ (test = "acceptedOffset" /\ step \in {0, 4}))
           \/ n = "hold" /\ ((test = "before" /\ step = 1) \/ (test = "after" /\ step = 1)
              \/ (test = "lost" /\ step = 1) \/ (test = "cancelled" /\ step = 1)
              \/ (test = "acceptedBefore" /\ step = 0) \/ (test = "acceptedAfter" /\ step = 0))
           \/ n = "idempotent" /\ ((test = "before" /\ step \in {2, 11}) \/ (test = "after" /\ step \in {2, 11})
              \/ (test = "acknowledged" /\ step \in {1, 6}))
           \/ n = "caught" /\ ((test = "before" /\ step = 3) \/ (test = "after" /\ step = 3)
              \/ (test = "lost" /\ step = 3) \/ (test = "cancelled" /\ step = 3)
              \/ (test = "acceptedBefore" /\ step = 2) \/ (test = "acceptedAfter" /\ step = 2))
           \/ n = "backend0" /\ ((test = "before" /\ step = 4) \/ (test = "acceptedBefore" /\ step = 3))
           \/ n = "pending" /\ ((test = "before" /\ step = 5) \/ (test = "after" /\ step = 5)
              \/ (test = "lost" /\ step = 5))
           \/ n = "crash" /\ ((test = "before" /\ step = 6) \/ (test = "after" /\ step = 6)
              \/ (test = "acknowledged" /\ step = 3) \/ (test = "acceptedBefore" /\ step = 5)
              \/ (test = "acceptedAfter" /\ step = 5) \/ (test = "acceptedOffset" /\ step = 3))
           \/ n = "discard" /\ ((test = "before" /\ step = 7) \/ (test = "acceptedBefore" /\ step = 6))
           \/ n = "unknown" /\ ((test = "before" /\ step = 8) \/ (test = "after" /\ step = 8)
              \/ (test = "lost" /\ step = 7) \/ (test = "cancelled" /\ step = 6))
           \/ n = "counter0" /\ ((test = "before" /\ step = 10) \/ (test = "acceptedBefore" /\ step = 7))
           \/ n = "applied" /\ ((test = "before" /\ step \in {12, 15}) \/ (test = "after" /\ step \in {12, 15})
              \/ (test = "acknowledged" /\ step \in {2, 7, 10}) \/ (test = "lost" /\ step = 11)
              \/ (test = "cancelled" /\ step = 10))
           \/ n = "counter1" /\ ((test = "before" /\ step = 13) \/ (test = "after" /\ step \in {10, 13})
              \/ (test = "acknowledged" /\ step \in {5, 8}) \/ (test = "lost" /\ step = 8)
              \/ (test = "cancelled" /\ step = 8) \/ (test = "acceptedBefore" /\ step = 10)
              \/ (test = "acceptedAfter" /\ step = 9) \/ (test = "acceptedOffset" /\ step \in {2, 6}))
           \/ n = "increment" /\ ((test = "before" /\ step = 14) \/ (test = "after" /\ step = 14)
              \/ (test = "acknowledged" /\ step = 9) \/ (test = "lost" /\ step \in {2, 10})
              \/ (test = "cancelled" /\ step \in {2, 9}))
           \/ n = "counter2" /\ ((test = "before" /\ step = 16) \/ (test = "after" /\ step = 16)
              \/ (test = "acknowledged" /\ step = 11) \/ (test = "lost" /\ step = 12)
              \/ (test = "cancelled" /\ step = 11))
           \/ n = "backend1" /\ ((test = "after" /\ step = 4) \/ (test = "lost" /\ step = 4)
              \/ (test = "cancelled" /\ step = 4) \/ (test = "acceptedAfter" /\ step = 3))
           \/ n = "open" /\ ((test = "after" /\ step = 7) \/ (test = "lost" /\ step = 6)
              \/ (test = "cancelled" /\ step = 7) \/ (test = "acceptedAfter" /\ step = 6))
           \/ n = "oneWrite" /\ ((test = "lost" /\ step = 9))
           \/ n = "cancel" /\ ((test = "cancelled" /\ step = 5))
           \/ n = "uncommitted" /\ ((test = "acceptedBefore" /\ step = 4) \/ (test = "acceptedAfter" /\ step = 4))
           \/ n = "drained" /\ ((test = "acceptedBefore" /\ step = 9) \/ (test = "acceptedAfter" /\ step = 8)
              \/ (test = "acceptedOffset" /\ step = 5))
           \/ n = "replayed" /\ ((test = "acceptedBefore" /\ step = 11) \/ (test = "acceptedAfter" /\ step = 10))
           \/ n = "committed" /\ ((test = "acceptedOffset" /\ step = 1))
           \/ n = "notReplayed" /\ ((test = "acceptedOffset" /\ step = 7))
<1>1. CASE test = "before"
  BY <1>1, StepsBefore
<1>2. CASE test = "after"
  BY <1>2, StepsAfter
<1>3. CASE test = "acknowledged"
  BY <1>3, StepsAcknowledged
<1>4. CASE test = "lost"
  BY <1>4, StepsLostAnswer
<1>5. CASE test = "cancelled"
  BY <1>5, StepsCancelled
<1>6. CASE test = "acceptedBefore"
  BY <1>6, StepsAcceptedBefore
<1>7. CASE test = "acceptedAfter"
  BY <1>7, StepsAcceptedAfter
<1>8. CASE test = "acceptedOffset"
  BY <1>8, StepsAcceptedOffset
<1>9. QED
  BY <1>1, <1>2, <1>3, <1>4, <1>5, <1>6, <1>7, <1>8 DEF Tests, GatedTests

\* Only these marks move with the step.
OnlyMoves(marks) ==
    /\ "Gated" \in marks \/ (Gated' <=> Gated)
    /\ "Caught" \in marks \/ (Caught' <=> Caught)
    /\ "Released" \in marks \/ (Released' <=> Released)
    /\ "Started" \in marks \/ (Started' <=> Started)
    /\ "Crashed" \in marks \/ (Crashed' <=> Crashed)
    /\ "Broken" \in marks \/ (Broken' <=> Broken)
    /\ "Restarted" \in marks \/ (Restarted' <=> Restarted)
    /\ "Wrote1" \in marks \/ (Wrote1' <=> Wrote1)
    /\ "Acked" \in marks \/ (Acked' <=> Acked)
    /\ "Settled" \in marks \/ (Settled' <=> Settled)
    /\ "Wrote2" \in marks \/ (Wrote2' <=> Wrote2)
    /\ "Applied2" \in marks \/ (Applied2' <=> Applied2)
    /\ "Wrote3" \in marks \/ (Wrote3' <=> Wrote3)
    /\ "Applied3" \in marks \/ (Applied3' <=> Applied3)
    /\ "Offset" \in marks \/ (Offset' <=> Offset)
    /\ "Drained" \in marks \/ (Drained' <=> Drained)
    /\ "Stored" \in marks \/ (Stored' <=> Stored)
    /\ "OneWrite" \in marks \/ (OneWrite' <=> OneWrite)
    /\ "Ended" \in marks \/ (Ended' <=> Ended)

\* A candidate is started first and after a crash.
LEMMA AtStart ==
    ASSUME test \in Tests, step \in Nat, Now("start"), Done
    PROVE  \/ ~Started /\ Started' /\ ~Crashed /\ OnlyMoves({"Started"})
           \/ Started /\ Crashed /\ ~Restarted /\ Restarted' /\ (HasGate => Released) /\ OnlyMoves({"Restarted"})
<1>1. \/ (test = "before" /\ step \in {0, 9}) \/ (test = "after" /\ step \in {0, 9})
      \/ (test = "acknowledged" /\ step \in {0, 4}) \/ (test = "lost" /\ step = 0)
      \/ (test = "cancelled" /\ step = 0) \/ (test = "acceptedBefore" /\ step \in {1, 8})
      \/ (test = "acceptedAfter" /\ step \in {1, 7}) \/ (test = "acceptedOffset" /\ step \in {0, 4})
  BY Due
<1>2. test' = test /\ step' = step + 1
  BY DEF Done
<1>3. QED
  BY <1>1, <1>2 DEF After, Passed, Never, OnlyMoves, HasGate, Alone, Accepting, GatedTests, Tests,
     Gated, Caught, Released, Started, Crashed, Broken, Restarted, Wrote1, Acked,
     Settled, Wrote2, Applied2, Wrote3, Applied3, Offset, Drained, Stored, OneWrite, Ended

\* The gate is registered before the first write.
LEMMA AtHold ==
    ASSUME test \in Tests, step \in Nat, Now("hold"), Done
    PROVE  /\ HasGate /\ ~Gated /\ Gated' /\ ~Wrote1 /\ OnlyMoves({"Gated"})
           /\ Accepting <=> ~Started
<1>1. \/ (test = "before" /\ step = 1) \/ (test = "after" /\ step = 1)
      \/ (test = "lost" /\ step = 1) \/ (test = "cancelled" /\ step = 1)
      \/ (test = "acceptedBefore" /\ step = 0) \/ (test = "acceptedAfter" /\ step = 0)
  BY Due
<1>2. test' = test /\ step' = step + 1
  BY DEF Done
<1>3. QED
  BY <1>1, <1>2 DEF After, Passed, Never, OnlyMoves, HasGate, Alone, Accepting, GatedTests, Tests,
     Gated, Caught, Released, Started, Crashed, Broken, Restarted, Wrote1, Acked,
     Settled, Wrote2, Applied2, Wrote3, Applied3, Offset, Drained, Stored, OneWrite, Ended

\* The idempotent mutation is written and, after the crash, repeated.
LEMMA AtIdempotent ==
    ASSUME test \in Tests, step \in Nat, Now("idempotent"), Done
    PROVE  /\ ~Accepting /\ ~Alone /\ Started
           /\ \/ ~Wrote1 /\ Wrote1' /\ ~Crashed /\ (HasGate => Gated) /\ OnlyMoves({"Wrote1"})
              \/ /\ Wrote1 /\ Restarted /\ ~Wrote2 /\ Wrote2' /\ OnlyMoves({"Wrote2"})
                 /\ test = "acknowledged" => Stored
<1>1. \/ (test = "before" /\ step \in {2, 11}) \/ (test = "after" /\ step \in {2, 11})
      \/ (test = "acknowledged" /\ step \in {1, 6})
  BY Due
<1>2. test' = test /\ step' = step + 1
  BY DEF Done
<1>3. QED
  BY <1>1, <1>2 DEF After, Passed, Never, OnlyMoves, HasGate, Alone, Accepting, GatedTests, Tests,
     Gated, Caught, Released, Started, Crashed, Broken, Restarted, Wrote1, Acked,
     Settled, Wrote2, Applied2, Wrote3, Applied3, Offset, Drained, Stored, OneWrite, Ended

\* The increment is the only mutation of a test, the second of its kind, or a
\* new one after the recovery.
LEMMA AtIncrement ==
    ASSUME test \in Tests, step \in Nat, Now("increment"), Done
    PROVE  /\ ~Accepting /\ Started
           /\ \/ Alone /\ ~Wrote1 /\ Wrote1' /\ Gated /\ OnlyMoves({"Wrote1"})
              \/ Alone /\ Settled /\ Released /\ ~Wrote2 /\ Wrote2' /\ ~Applied2 /\ (OneWrite \/ test = "cancelled") /\ OnlyMoves({"Wrote2"})
              \/ ~Alone /\ Applied2 /\ (Stored \/ test = "after") /\ ~Wrote3 /\ Wrote3' /\ ~Applied3 /\ Restarted /\ OnlyMoves({"Wrote3"})
<1>1. \/ (test = "before" /\ step = 14) \/ (test = "after" /\ step = 14)
      \/ (test = "acknowledged" /\ step = 9) \/ (test = "lost" /\ step \in {2, 10})
      \/ (test = "cancelled" /\ step \in {2, 9})
  BY Due
<1>2. test' = test /\ step' = step + 1
  BY DEF Done
<1>3. QED
  BY <1>1, <1>2 DEF After, Passed, Never, OnlyMoves, HasGate, Alone, Accepting, GatedTests, Tests,
     Gated, Caught, Released, Started, Crashed, Broken, Restarted, Wrote1, Acked,
     Settled, Wrote2, Applied2, Wrote3, Applied3, Offset, Drained, Stored, OneWrite, Ended

\* The test waits for the exchange after the first write.
LEMMA AtCaught ==
    ASSUME test \in Tests, step \in Nat, Now("caught"), Done
    PROVE  /\ HasGate /\ Gated /\ Started /\ ~Broken /\ ~Caught /\ Caught' /\ (~Accepting => Wrote1)
           /\ OnlyMoves({"Caught"})
<1>1. \/ (test = "before" /\ step = 3) \/ (test = "after" /\ step = 3)
      \/ (test = "lost" /\ step = 3) \/ (test = "cancelled" /\ step = 3)
      \/ (test = "acceptedBefore" /\ step = 2) \/ (test = "acceptedAfter" /\ step = 2)
  BY Due
<1>2. test' = test /\ step' = step + 1
  BY DEF Done
<1>3. QED
  BY <1>1, <1>2 DEF After, Passed, Never, OnlyMoves, HasGate, Alone, Accepting, GatedTests, Tests,
     Gated, Caught, Released, Started, Crashed, Broken, Restarted, Wrote1, Acked,
     Settled, Wrote2, Applied2, Wrote3, Applied3, Offset, Drained, Stored, OneWrite, Ended

\* The backend has not executed a held request.
LEMMA AtBackend0 ==
    ASSUME test \in Tests, step \in Nat, Now("backend0"), Done
    PROVE  test \in {"before", "acceptedBefore"} /\ Caught /\ ~Broken /\ ~Released /\ OnlyMoves({})
<1>1. \/ (test = "before" /\ step = 4) \/ (test = "acceptedBefore" /\ step = 3)
  BY Due
<1>2. test' = test /\ step' = step + 1
  BY DEF Done
<1>3. QED
  BY <1>1, <1>2 DEF After, Passed, Never, OnlyMoves, HasGate, Alone, Accepting, GatedTests, Tests,
     Gated, Caught, Released, Started, Crashed, Broken, Restarted, Wrote1, Acked,
     Settled, Wrote2, Applied2, Wrote3, Applied3, Offset, Drained, Stored, OneWrite, Ended

\* The backend has executed a held response.
LEMMA AtBackend1 ==
    ASSUME test \in Tests, step \in Nat, Now("backend1"), Done
    PROVE  test \notin {"before", "acceptedBefore"} /\ Caught /\ HasGate /\ ~Broken /\ ~Released /\ OnlyMoves({})
<1>1. \/ (test = "after" /\ step = 4) \/ (test = "lost" /\ step = 4)
      \/ (test = "cancelled" /\ step = 4) \/ (test = "acceptedAfter" /\ step = 3)
  BY Due
<1>2. test' = test /\ step' = step + 1
  BY DEF Done
<1>3. QED
  BY <1>1, <1>2 DEF After, Passed, Never, OnlyMoves, HasGate, Alone, Accepting, GatedTests, Tests,
     Gated, Caught, Released, Started, Crashed, Broken, Restarted, Wrote1, Acked,
     Settled, Wrote2, Applied2, Wrote3, Applied3, Offset, Drained, Stored, OneWrite, Ended

\* The first write is not settled.
LEMMA AtPending ==
    ASSUME test \in Tests, step \in Nat, Now("pending"), Done
    PROVE  HasGate /\ Wrote1 /\ ~Broken /\ ~Released /\ OnlyMoves({})
<1>1. \/ (test = "before" /\ step = 5) \/ (test = "after" /\ step = 5)
      \/ (test = "lost" /\ step = 5)
  BY Due
<1>2. test' = test /\ step' = step + 1
  BY DEF Done
<1>3. QED
  BY <1>1, <1>2 DEF After, Passed, Never, OnlyMoves, HasGate, Alone, Accepting, GatedTests, Tests,
     Gated, Caught, Released, Started, Crashed, Broken, Restarted, Wrote1, Acked,
     Settled, Wrote2, Applied2, Wrote3, Applied3, Offset, Drained, Stored, OneWrite, Ended

\* The worker has not committed.
LEMMA AtUncommitted ==
    ASSUME test \in Tests, step \in Nat, Now("uncommitted"), Done
    PROVE  Accepting /\ HasGate /\ Caught /\ ~Crashed /\ OnlyMoves({})
<1>1. \/ (test = "acceptedBefore" /\ step = 4) \/ (test = "acceptedAfter" /\ step = 4)
  BY Due
<1>2. test' = test /\ step' = step + 1
  BY DEF Done
<1>3. QED
  BY <1>1, <1>2 DEF After, Passed, Never, OnlyMoves, HasGate, Alone, Accepting, GatedTests, Tests,
     Gated, Caught, Released, Started, Crashed, Broken, Restarted, Wrote1, Acked,
     Settled, Wrote2, Applied2, Wrote3, Applied3, Offset, Drained, Stored, OneWrite, Ended

\* The discarded request leaves nothing.
LEMMA AtCounter0 ==
    ASSUME test \in Tests, step \in Nat, Now("counter0"), Done
    PROVE  /\ test \in {"before", "acceptedBefore"} /\ Released /\ ~Wrote2 /\ OnlyMoves({})
           /\ test = "acceptedBefore" => ~Restarted
<1>1. \/ (test = "before" /\ step = 10) \/ (test = "acceptedBefore" /\ step = 7)
  BY Due
<1>2. test' = test /\ step' = step + 1
  BY DEF Done
<1>3. QED
  BY <1>1, <1>2 DEF After, Passed, Never, OnlyMoves, HasGate, Alone, Accepting, GatedTests, Tests,
     Gated, Caught, Released, Started, Crashed, Broken, Restarted, Wrote1, Acked,
     Settled, Wrote2, Applied2, Wrote3, Applied3, Offset, Drained, Stored, OneWrite, Ended

\* The crash cuts off the first exchange.
LEMMA AtCrash ==
    ASSUME test \in Tests, step \in Nat, Now("crash"), Done
    PROVE  /\ Started /\ ~Restarted /\ ~Alone /\ ~Wrote2 /\ ~Broken /\ ~Crashed /\ Crashed' /\ Broken'
           /\ HasGate => Caught /\ ~Released
           /\ test = "acknowledged" => Acked
           /\ test = "acceptedOffset" => Offset /\ Stored
           /\ OnlyMoves({"Crashed", "Broken"})
<1>1. \/ (test = "before" /\ step = 6) \/ (test = "after" /\ step = 6)
      \/ (test = "acknowledged" /\ step = 3) \/ (test = "acceptedBefore" /\ step = 5)
      \/ (test = "acceptedAfter" /\ step = 5) \/ (test = "acceptedOffset" /\ step = 3)
  BY Due
<1>2. test' = test /\ step' = step + 1
  BY DEF Done
<1>3. QED
  BY <1>1, <1>2 DEF After, Passed, Never, OnlyMoves, HasGate, Alone, Accepting, GatedTests, Tests,
     Gated, Caught, Released, Started, Crashed, Broken, Restarted, Wrote1, Acked,
     Settled, Wrote2, Applied2, Wrote3, Applied3, Offset, Drained, Stored, OneWrite, Ended

\* The caller gives up while the gate is shut.
LEMMA AtCancel ==
    ASSUME test \in Tests, step \in Nat, Now("cancel"), Done
    PROVE  test = "cancelled" /\ Caught /\ ~Released /\ ~Broken /\ Broken' /\ ~Settled /\ ~Wrote2 /\ OnlyMoves({"Broken"})
<1>1. \/ (test = "cancelled" /\ step = 5)
  BY Due
<1>2. test' = test /\ step' = step + 1
  BY DEF Done
<1>3. QED
  BY <1>1, <1>2 DEF After, Passed, Never, OnlyMoves, HasGate, Alone, Accepting, GatedTests, Tests,
     Gated, Caught, Released, Started, Crashed, Broken, Restarted, Wrote1, Acked,
     Settled, Wrote2, Applied2, Wrote3, Applied3, Offset, Drained, Stored, OneWrite, Ended

\* A held request is discarded after the crash.
LEMMA AtDiscard ==
    ASSUME test \in Tests, step \in Nat, Now("discard"), Done
    PROVE  /\ test \in {"before", "acceptedBefore"} /\ Crashed /\ Caught /\ ~Restarted /\ ~Released /\ Released'
           /\ OnlyMoves({"Released"})
<1>1. \/ (test = "before" /\ step = 7) \/ (test = "acceptedBefore" /\ step = 6)
  BY Due
<1>2. test' = test /\ step' = step + 1
  BY DEF Done
<1>3. QED
  BY <1>1, <1>2 DEF After, Passed, Never, OnlyMoves, HasGate, Alone, Accepting, GatedTests, Tests,
     Gated, Caught, Released, Started, Crashed, Broken, Restarted, Wrote1, Acked,
     Settled, Wrote2, Applied2, Wrote3, Applied3, Offset, Drained, Stored, OneWrite, Ended

\* A held response is let go.
LEMMA AtOpen ==
    ASSUME test \in Tests, step \in Nat, Now("open"), Done
    PROVE  /\ HasGate /\ test \notin {"before", "acceptedBefore"} /\ Caught /\ ~Released /\ Released' /\ (test = "lost" \/ Broken)
           /\ OnlyMoves({"Released"})
<1>1. \/ (test = "after" /\ step = 7) \/ (test = "lost" /\ step = 6)
      \/ (test = "cancelled" /\ step = 7) \/ (test = "acceptedAfter" /\ step = 6)
  BY Due
<1>2. test' = test /\ step' = step + 1
  BY DEF Done
<1>3. QED
  BY <1>1, <1>2 DEF After, Passed, Never, OnlyMoves, HasGate, Alone, Accepting, GatedTests, Tests,
     Gated, Caught, Released, Started, Crashed, Broken, Restarted, Wrote1, Acked,
     Settled, Wrote2, Applied2, Wrote3, Applied3, Offset, Drained, Stored, OneWrite, Ended

\* The outcome of the first write is unknown.
LEMMA AtUnknown ==
    ASSUME test \in Tests, step \in Nat, Now("unknown"), Done
    PROVE  /\ HasGate /\ ~Accepting /\ Wrote1 /\ ~Wrote2 /\ ~Settled /\ Settled'
           /\ IF test = "lost" THEN Released ELSE Broken
           /\ OnlyMoves({"Settled"})
<1>1. \/ (test = "before" /\ step = 8) \/ (test = "after" /\ step = 8)
      \/ (test = "lost" /\ step = 7) \/ (test = "cancelled" /\ step = 6)
  BY Due
<1>2. test' = test /\ step' = step + 1
  BY DEF Done
<1>3. QED
  BY <1>1, <1>2 DEF After, Passed, Never, OnlyMoves, HasGate, Alone, Accepting, GatedTests, Tests,
     Gated, Caught, Released, Started, Crashed, Broken, Restarted, Wrote1, Acked,
     Settled, Wrote2, Applied2, Wrote3, Applied3, Offset, Drained, Stored, OneWrite, Ended

\* A write is applied: the first one without a gate, the second, and the third.
LEMMA AtApplied ==
    ASSUME test \in Tests, step \in Nat, Now("applied"), Done
    PROVE  /\ ~Accepting
           /\ \/ test = "acknowledged" /\ ~Crashed /\ Wrote1 /\ ~Wrote2 /\ Acked' /\ OnlyMoves({"Acked"})
              \/ Wrote2 /\ ~Wrote3 /\ Applied2' /\ OnlyMoves({"Applied2"})
              \/ Wrote3 /\ Applied3' /\ OnlyMoves({"Applied3"})
<1>1. \/ (test = "before" /\ step \in {12, 15}) \/ (test = "after" /\ step \in {12, 15})
      \/ (test = "acknowledged" /\ step \in {2, 7, 10}) \/ (test = "lost" /\ step = 11)
      \/ (test = "cancelled" /\ step = 10)
  BY Due
<1>2. test' = test /\ step' = step + 1
  BY DEF Done
<1>3. QED
  BY <1>1, <1>2 DEF After, Passed, Never, OnlyMoves, HasGate, Alone, Accepting, GatedTests, Tests,
     Gated, Caught, Released, Started, Crashed, Broken, Restarted, Wrote1, Acked,
     Settled, Wrote2, Applied2, Wrote3, Applied3, Offset, Drained, Stored, OneWrite, Ended

\* One mutation is stored.
LEMMA AtCounter1 ==
    ASSUME test \in Tests, step \in Nat, Now("counter1"), Done
    PROVE  /\ OnlyMoves({"Stored"})
           /\ test = "before" => Applied2 /\ ~Wrote3
           /\ test = "after" => Caught /\ ~Wrote3
           /\ test = "acknowledged" => Acked /\ ~Wrote3
           /\ Alone => Settled /\ Released /\ ~Wrote2
           /\ test \in {"acceptedBefore", "acceptedAfter"} => Drained
           /\ test = "acceptedOffset" => Offset /\ ~Ended
<1>1. \/ (test = "before" /\ step = 13) \/ (test = "after" /\ step \in {10, 13})
      \/ (test = "acknowledged" /\ step \in {5, 8}) \/ (test = "lost" /\ step = 8)
      \/ (test = "cancelled" /\ step = 8) \/ (test = "acceptedBefore" /\ step = 10)
      \/ (test = "acceptedAfter" /\ step = 9) \/ (test = "acceptedOffset" /\ step \in {2, 6})
  BY Due
<1>2. test' = test /\ step' = step + 1
  BY DEF Done
<1>3. QED
  BY <1>1, <1>2 DEF After, Passed, Never, OnlyMoves, HasGate, Alone, Accepting, GatedTests, Tests,
     Gated, Caught, Released, Started, Crashed, Broken, Restarted, Wrote1, Acked,
     Settled, Wrote2, Applied2, Wrote3, Applied3, Offset, Drained, Stored, OneWrite, Ended

\* Two mutations are stored, and the test ends.
LEMMA AtCounter2 ==
    ASSUME test \in Tests, step \in Nat, Now("counter2"), Done
    PROVE  /\ ~Accepting /\ Ended' /\ OnlyMoves({"Ended"})
           /\ IF Alone THEN Wrote2 /\ Applied2 /\ Settled /\ (OneWrite \/ test = "cancelled") ELSE Wrote3 /\ Applied3
<1>1. \/ (test = "before" /\ step = 16) \/ (test = "after" /\ step = 16)
      \/ (test = "acknowledged" /\ step = 11) \/ (test = "lost" /\ step = 12)
      \/ (test = "cancelled" /\ step = 11)
  BY Due
<1>2. test' = test /\ step' = step + 1
  BY DEF Done
<1>3. QED
  BY <1>1, <1>2 DEF After, Passed, Never, OnlyMoves, HasGate, Alone, Accepting, GatedTests, Tests,
     Gated, Caught, Released, Started, Crashed, Broken, Restarted, Wrote1, Acked,
     Settled, Wrote2, Applied2, Wrote3, Applied3, Offset, Drained, Stored, OneWrite, Ended

\* The backend has seen one write.
LEMMA AtOneWrite ==
    ASSUME test \in Tests, step \in Nat, Now("oneWrite"), Done
    PROVE  test = "lost" /\ Released /\ Settled /\ ~Wrote2 /\ OneWrite' /\ OnlyMoves({"OneWrite"})
<1>1. \/ (test = "lost" /\ step = 9)
  BY Due
<1>2. test' = test /\ step' = step + 1
  BY DEF Done
<1>3. QED
  BY <1>1, <1>2 DEF After, Passed, Never, OnlyMoves, HasGate, Alone, Accepting, GatedTests, Tests,
     Gated, Caught, Released, Started, Crashed, Broken, Restarted, Wrote1, Acked,
     Settled, Wrote2, Applied2, Wrote3, Applied3, Offset, Drained, Stored, OneWrite, Ended

\* The worker has committed the only record.
LEMMA AtCommitted ==
    ASSUME test \in Tests, step \in Nat, Now("committed"), Done
    PROVE  test = "acceptedOffset" /\ Started /\ ~Crashed /\ Offset' /\ OnlyMoves({"Offset"})
<1>1. \/ (test = "acceptedOffset" /\ step = 1)
  BY Due
<1>2. test' = test /\ step' = step + 1
  BY DEF Done
<1>3. QED
  BY <1>1, <1>2 DEF After, Passed, Never, OnlyMoves, HasGate, Alone, Accepting, GatedTests, Tests,
     Gated, Caught, Released, Started, Crashed, Broken, Restarted, Wrote1, Acked,
     Settled, Wrote2, Applied2, Wrote3, Applied3, Offset, Drained, Stored, OneWrite, Ended

\* The restarted worker has committed every record.
LEMMA AtDrained ==
    ASSUME test \in Tests, step \in Nat, Now("drained"), Done
    PROVE  Accepting /\ Restarted /\ Drained' /\ OnlyMoves({"Drained"})
<1>1. \/ (test = "acceptedBefore" /\ step = 9) \/ (test = "acceptedAfter" /\ step = 8)
      \/ (test = "acceptedOffset" /\ step = 5)
  BY Due
<1>2. test' = test /\ step' = step + 1
  BY DEF Done
<1>3. QED
  BY <1>1, <1>2 DEF After, Passed, Never, OnlyMoves, HasGate, Alone, Accepting, GatedTests, Tests,
     Gated, Caught, Released, Started, Crashed, Broken, Restarted, Wrote1, Acked,
     Settled, Wrote2, Applied2, Wrote3, Applied3, Offset, Drained, Stored, OneWrite, Ended

\* The record was read again, and the test ends.
LEMMA AtReplayed ==
    ASSUME test \in Tests, step \in Nat, Now("replayed"), Done
    PROVE  Accepting /\ HasGate /\ Drained /\ (Stored \/ (test = "acceptedAfter" /\ Caught)) /\ Ended' /\ OnlyMoves({"Ended"})
<1>1. \/ (test = "acceptedBefore" /\ step = 11) \/ (test = "acceptedAfter" /\ step = 10)
  BY Due
<1>2. test' = test /\ step' = step + 1
  BY DEF Done
<1>3. QED
  BY <1>1, <1>2 DEF After, Passed, Never, OnlyMoves, HasGate, Alone, Accepting, GatedTests, Tests,
     Gated, Caught, Released, Started, Crashed, Broken, Restarted, Wrote1, Acked,
     Settled, Wrote2, Applied2, Wrote3, Applied3, Offset, Drained, Stored, OneWrite, Ended

\* The record was not read again, and the test ends.
LEMMA AtNotReplayed ==
    ASSUME test \in Tests, step \in Nat, Now("notReplayed"), Done
    PROVE  test = "acceptedOffset" /\ Drained /\ Ended' /\ OnlyMoves({"Ended"})
<1>1. \/ (test = "acceptedOffset" /\ step = 7)
  BY Due
<1>2. test' = test /\ step' = step + 1
  BY DEF Done
<1>3. QED
  BY <1>1, <1>2 DEF After, Passed, Never, OnlyMoves, HasGate, Alone, Accepting, GatedTests, Tests,
     Gated, Caught, Released, Started, Crashed, Broken, Restarted, Wrote1, Acked,
     Settled, Wrote2, Applied2, Wrote3, Applied3, Offset, Drained, Stored, OneWrite, Ended

\* The order of the marks.
LEMMA Order ==
    ASSUME test \in Tests, step \in Nat
    PROVE  /\ Wrote1 \/ Caught \/ Broken \/ Offset \/ Stored \/ Ended => Started
           /\ (Caught => Gated) /\ (Crashed => Broken) /\ (Released => Caught) /\ (Settled => Wrote1 /\ Caught)
           /\ (Restarted => Crashed) /\ (Wrote2 => Wrote1) /\ (Applied2 => Wrote2) /\ (Wrote3 => Applied2)
           /\ (Applied3 => Wrote3) /\ (Drained => Restarted) /\ (OneWrite => Settled) /\ (Acked => Wrote1)
<1> USE DEF After, Passed, Never, OnlyMoves, HasGate, Alone, Accepting, GatedTests, Tests,
     Gated, Caught, Released, Started, Crashed, Broken, Restarted, Wrote1, Acked,
     Settled, Wrote2, Applied2, Wrote3, Applied3, Offset, Drained, Stored, OneWrite, Ended
<1>1. CASE test = "before"
  BY <1>1
<1>2. CASE test = "after"
  BY <1>2
<1>3. CASE test = "acknowledged"
  BY <1>3
<1>4. CASE test = "lost"
  BY <1>4
<1>5. CASE test = "cancelled"
  BY <1>5
<1>6. CASE test = "acceptedBefore"
  BY <1>6
<1>7. CASE test = "acceptedAfter"
  BY <1>7
<1>8. CASE test = "acceptedOffset"
  BY <1>8
<1>9. QED
  BY <1>1, <1>2, <1>3, <1>4, <1>5, <1>6, <1>7, <1>8

\* The order of the marks in a test with a gate.
LEMMA OrderWithGate ==
    ASSUME test \in GatedTests, step \in Nat
    PROVE  /\ (Broken => Caught) /\ (Restarted => Released) /\ ~Acked /\ ~Offset
           /\ Ended => Released
           /\ ~Accepting => /\ (Gated => Started) /\ (Caught => Wrote1) /\ (Wrote1 => Gated) /\ (Broken => Wrote1)
                            /\ (Wrote2 => Settled /\ Released) /\ (Restarted => Settled) /\ (Ended => Applied2)
                            /\ (Settled => Broken \/ Released)
<1> USE DEF After, Passed, Never, OnlyMoves, HasGate, Alone, Accepting, GatedTests, Tests,
     Gated, Caught, Released, Started, Crashed, Broken, Restarted, Wrote1, Acked,
     Settled, Wrote2, Applied2, Wrote3, Applied3, Offset, Drained, Stored, OneWrite, Ended
<1>1. CASE test = "before"
  BY <1>1
<1>2. CASE test = "after"
  BY <1>2
<1>3. CASE test = "lost"
  BY <1>3
<1>4. CASE test = "cancelled"
  BY <1>4
<1>5. CASE test = "acceptedBefore"
  BY <1>5
<1>6. CASE test = "acceptedAfter"
  BY <1>6
<1>7. QED
  BY <1>1, <1>2, <1>3, <1>4, <1>5, <1>6

\* The order of the marks in a test of accepted records.
LEMMA OrderWhenAccepting ==
    ASSUME test \in Tests, Accepting, step \in Nat
    PROVE  /\ ~Wrote1 /\ ~Settled /\ ~Wrote2 /\ ~Applied2 /\ ~Wrote3 /\ ~Applied3 /\ ~OneWrite /\ ~Acked
           /\ (Broken => Crashed) /\ (Released => Crashed) /\ (Ended => Drained)
           /\ (Started /\ HasGate => Gated)
           /\ test # "acceptedOffset" => (Stored => Drained) /\ ~Offset
           /\ test = "acceptedOffset" => (Crashed => Offset /\ Stored) /\ (Stored => Offset)
<1> USE DEF After, Passed, Never, OnlyMoves, HasGate, Alone, Accepting, GatedTests, Tests,
     Gated, Caught, Released, Started, Crashed, Broken, Restarted, Wrote1, Acked,
     Settled, Wrote2, Applied2, Wrote3, Applied3, Offset, Drained, Stored, OneWrite, Ended
<1>1. CASE test = "acceptedBefore"
  BY <1>1
<1>2. CASE test = "acceptedAfter"
  BY <1>2
<1>3. CASE test = "acceptedOffset"
  BY <1>3
<1>4. QED
  BY <1>1, <1>2, <1>3

\* The order of the marks in the other tests.
LEMMA OrderOfWrites ==
    ASSUME test \in Tests, ~Accepting, step \in Nat
    PROVE  /\ Alone => ~Crashed /\ ~Restarted /\ ~Wrote3 /\ ~Applied3 /\ ~Stored
           /\ ~Alone => /\ (Broken => Crashed) /\ (Released => Crashed) /\ (Settled => Released) /\ (Wrote2 => Restarted)
                        /\ (Ended => Applied3) /\ ~OneWrite /\ (Wrote3 => Stored \/ test = "after")
           /\ test = "acknowledged" => (Crashed => Acked) /\ (Broken => Acked) /\ (Stored => Acked) /\ (Wrote2 => Stored) /\ ~Caught /\ ~Gated /\ ~Released
           /\ test = "after" => ~Stored
           /\ test = "before" => (Stored => Applied2)
           /\ test # "lost" => ~OneWrite
           /\ test # "acknowledged" => ~Acked
           /\ ~Drained /\ ~Offset
           /\ Alone => (Ended => Wrote2)
<1> USE DEF After, Passed, Never, OnlyMoves, HasGate, Alone, Accepting, GatedTests, Tests,
     Gated, Caught, Released, Started, Crashed, Broken, Restarted, Wrote1, Acked,
     Settled, Wrote2, Applied2, Wrote3, Applied3, Offset, Drained, Stored, OneWrite, Ended
<1>1. CASE test = "before"
  BY <1>1
<1>2. CASE test = "after"
  BY <1>2
<1>3. CASE test = "acknowledged"
  BY <1>3
<1>4. CASE test = "lost"
  BY <1>4
<1>5. CASE test = "cancelled"
  BY <1>5
<1>6. QED
  BY <1>1, <1>2, <1>3, <1>4, <1>5
-----------------------------------------------------------------------------
(* What the parts of the invariant rest on.                                *)

\* The requests are counted from one.
LEMMA RequestFacts ==
    /\ Requests \subseteq Nat \ {0} /\ 1 \in Requests /\ 2 \in Requests /\ Nobody \notin Requests
    /\ \A r \in Requests : \A q \in 1..(r - 1) : q \in Requests
    /\ \A q, r \in Requests : q < r <=> q \in 1..(r - 1)
<1>1. Cardinality(Requests) \in Nat
  BY GateNames, FS_CardinalityType
<1>2. QED
  BY <1>1, GateNames, GatesAssumption

\* The gate of a test.
LEMMA GateFacts ==
    ASSUME test \in GatedTests
    PROVE  /\ G \in Gates
           /\ Matches[G] = Requests /\ Nth[G] = 1
           /\ OnResponse[G] <=> G # first
           /\ G = first <=> test \in {"before", "acceptedBefore"}
           /\ Drops[G] <=> test = "lost"
<1>1. first \in Gates /\ reply \in Gates /\ loss \in Gates /\ first # reply
  BY GateNames
<1>2. ~OnResponse[first] /\ OnResponse[reply] /\ Drops[loss] /\ ~Drops[reply] /\ ~Drops[first]
  BY <1>1, GateNames, GatesAssumption
<1>3. loss # first /\ loss # reply
  BY <1>2
<1>4. CASE test = "lost"
  BY <1>1, <1>2, <1>3, <1>4, GateNames DEF G, GateOf
<1>5. CASE test \in {"before", "acceptedBefore"}
  BY <1>1, <1>2, <1>3, <1>5, GateNames DEF G, GateOf
<1>6. CASE test \in {"after", "cancelled", "acceptedAfter"}
  BY <1>1, <1>2, <1>3, <1>6, GateNames DEF G, GateOf
<1>7. QED
  BY <1>4, <1>5, <1>6 DEF GatedTests

\* The gate of a test is alone.
LEMMA OneGate ==
    ASSUME Gate
    PROVE  /\ Range(gates) = IF HasGate /\ Gated THEN {G} ELSE {}
           /\ \A g, h : ~Earlier(g, h)
<1>1. Len(gates) \in 0..1 /\ \A i \in 1..Len(gates) : HasGate /\ Gated /\ gates[i] = G /\ i = 1
  BY DEF Gate
<1>2. HasGate /\ Gated => Len(gates) = 1
  BY DEF Gate
<1>3. Range(gates) = IF HasGate /\ Gated THEN {G} ELSE {}
  BY <1>1, <1>2 DEF Range, Gate
<1>4. \A g, h : ~Earlier(g, h)
  BY <1>1 DEF Earlier
<1>5. QED
  BY <1>3, <1>4

Parts == Types /\ Progress /\ Gate /\ Fate /\ Carrying /\ Told /\ Documents /\ Accepted

\* The last step ends the test.
LEMMA LastStep ==
    ASSUME test \in Tests, step \in Nat, NEW n, Now(n), Done
    PROVE  /\ verdict' \in {"running", "passed"}
           /\ verdict' = "passed" <=> Ended'
<1>1. step' = step + 1 /\ test' = test /\ verdict' = IF step' = Len(Script(test)) THEN "passed" ELSE "running"
  BY DEF Done
<1>2. CASE test = "before"
  <2>1. Len(Script(test)) = 17 /\ step < 17
    BY <1>2, StepsBefore
  <2>2. Ended' <=> step' = 17
    BY <1>1, <1>2, <2>1 DEF Ended, After, Passed, Never
  <2>3. QED
    BY <1>1, <2>1, <2>2
<1>3. CASE test = "after"
  <2>1. Len(Script(test)) = 17 /\ step < 17
    BY <1>3, StepsAfter
  <2>2. Ended' <=> step' = 17
    BY <1>1, <1>3, <2>1 DEF Ended, After, Passed, Never
  <2>3. QED
    BY <1>1, <2>1, <2>2
<1>4. CASE test = "acknowledged"
  <2>1. Len(Script(test)) = 12 /\ step < 12
    BY <1>4, StepsAcknowledged
  <2>2. Ended' <=> step' = 12
    BY <1>1, <1>4, <2>1 DEF Ended, After, Passed, Never
  <2>3. QED
    BY <1>1, <2>1, <2>2
<1>5. CASE test = "lost"
  <2>1. Len(Script(test)) = 13 /\ step < 13
    BY <1>5, StepsLostAnswer
  <2>2. Ended' <=> step' = 13
    BY <1>1, <1>5, <2>1 DEF Ended, After, Passed, Never
  <2>3. QED
    BY <1>1, <2>1, <2>2
<1>6. CASE test = "cancelled"
  <2>1. Len(Script(test)) = 12 /\ step < 12
    BY <1>6, StepsCancelled
  <2>2. Ended' <=> step' = 12
    BY <1>1, <1>6, <2>1 DEF Ended, After, Passed, Never
  <2>3. QED
    BY <1>1, <2>1, <2>2
<1>7. CASE test = "acceptedBefore"
  <2>1. Len(Script(test)) = 12 /\ step < 12
    BY <1>7, StepsAcceptedBefore
  <2>2. Ended' <=> step' = 12
    BY <1>1, <1>7, <2>1 DEF Ended, After, Passed, Never
  <2>3. QED
    BY <1>1, <2>1, <2>2
<1>8. CASE test = "acceptedAfter"
  <2>1. Len(Script(test)) = 11 /\ step < 11
    BY <1>8, StepsAcceptedAfter
  <2>2. Ended' <=> step' = 11
    BY <1>1, <1>8, <2>1 DEF Ended, After, Passed, Never
  <2>3. QED
    BY <1>1, <2>1, <2>2
<1>9. CASE test = "acceptedOffset"
  <2>1. Len(Script(test)) = 8 /\ step < 8
    BY <1>9, StepsAcceptedOffset
  <2>2. Ended' <=> step' = 8
    BY <1>1, <1>9, <2>1 DEF Ended, After, Passed, Never
  <2>3. QED
    BY <1>1, <2>1, <2>2
<1>10. QED
  BY <1>2, <1>3, <1>4, <1>5, <1>6, <1>7, <1>8, <1>9 DEF Tests, GatedTests

\* A step of the script that is done.
LEMMA StepDone ==
    ASSUME Parts, test \in Tests, NEW n, Now(n), Done
    PROVE  /\ step \in Nat /\ step' \in Nat /\ test' = test /\ fault' = fault /\ verdict = "running" /\ ~Ended
           /\ verdict' \in {"running", "passed"} /\ (verdict' = "passed" <=> Ended')
<1>1. step \in Nat /\ verdict = "running"
  BY DEF Parts, Types, Now
<1>2. verdict' \in {"running", "passed"} /\ (verdict' = "passed" <=> Ended')
  BY <1>1, LastStep
<1>3. ~Ended
  BY <1>1 DEF Parts, Progress
<1>4. step' = step + 1 /\ test' = test /\ fault' = fault
  BY DEF Done
<1>5. QED
  BY <1>1, <1>2, <1>3, <1>4
-----------------------------------------------------------------------------
(* The steps of the script.                                                *)

\* Every step keeps the types.
LEMMA StepTypes ==
    ASSUME Types, IInv, [AllNext]_allVars
    PROVE  Types'
<1> USE DEF Types
<1>1. ASSUME Quiet, Done \/ (verdict' = "failed" /\ UNCHANGED <<test, fault, step>>) PROVE Types'
  BY <1>1 DEF Quiet, Done, candidate
<1>2. CASE Gating
  BY <1>2 DEF Gating, Done, candidate
<1>3. CASE Awaiting
  BY <1>1, <1>3 DEF Awaiting, Require
<1>4. CASE Asserting
  BY <1>1, <1>4 DEF Asserting, Require
<1>5. CASE TimeOut
  BY <1>1, <1>5 DEF TimeOut
<1>6. CASE Write
  <2>1. /\ told' = "pending" /\ merged' = FALSE /\ current' = Nobody /\ step' = step + 1
        /\ task' \in {"idempotent", "increment", "none"} /\ verdict' \in {"running", "passed", "failed"}
        /\ UNCHANGED <<test, fault, alive, offset, place, snapshots, carries, early, document, orphans>>
    BY <1>6 DEF Write, Done
  <2>2. /\ current' \in Requests \cup {Nobody} /\ merged' \in BOOLEAN /\ alive' \in BOOLEAN /\ early' \in BOOLEAN
        /\ document' \in [counter : Nat, marked : BOOLEAN]
        /\ carries' \in [Requests -> {"idempotent", "increment", "none"}]
    BY <2>1
  <2>3. /\ test' \in Tests \cup {"any"} /\ fault' \in {"none", "early", "replay", "place"} /\ step' \in Nat
        /\ verdict' \in {"running", "passed", "failed"} /\ orphans' \subseteq Requests
    BY <2>1
  <2>4. /\ task' \in {"idempotent", "increment", "none"} /\ told' \in {"pending", "applied", "unknown"}
        /\ offset' \in 0..2 /\ place' \in 0..2 /\ snapshots' \in Nat
    BY <2>1
  <2>5. QED
    BY <2>2, <2>3, <2>4
<1>7. CASE Cancel
  BY <1>7 DEF Cancel, Done, InFlight
<1>8. CASE Crash
  <2>1. /\ alive' = FALSE /\ task' = "none" /\ merged' = FALSE /\ current' = Nobody /\ step' = step + 1
        /\ told' \in {"pending", "applied", "unknown"} /\ orphans' \subseteq Requests
        /\ verdict' \in {"running", "passed", "failed"}
        /\ UNCHANGED <<test, fault, offset, place, snapshots, carries, early, document>>
    BY <1>8 DEF Crash, Done, InFlight
  <2>2. /\ current' \in Requests \cup {Nobody} /\ merged' \in BOOLEAN /\ alive' \in BOOLEAN /\ early' \in BOOLEAN
        /\ document' \in [counter : Nat, marked : BOOLEAN]
        /\ carries' \in [Requests -> {"idempotent", "increment", "none"}]
    BY <2>1
  <2>3. /\ test' \in Tests \cup {"any"} /\ fault' \in {"none", "early", "replay", "place"} /\ step' \in Nat
        /\ verdict' \in {"running", "passed", "failed"} /\ orphans' \subseteq Requests
    BY <2>1
  <2>4. /\ task' \in {"idempotent", "increment", "none"} /\ told' \in {"pending", "applied", "unknown"}
        /\ offset' \in 0..2 /\ place' \in 0..2 /\ snapshots' \in Nat
    BY <2>1
  <2>5. QED
    BY <2>2, <2>3, <2>4
<1>9. CASE Start
  BY <1>9 DEF Start, Done
<1>10. CASE Take
  <2>1. /\ UNCHANGED <<test, fault, step, verdict, alive, snapshots, carries, early, document, orphans>>
        /\ \/ task' = "idempotent" /\ told' = "pending" /\ merged' = FALSE /\ current' = Nobody /\ UNCHANGED <<offset, place>>
           \/ offset' = 2 /\ place' = 2 /\ UNCHANGED <<task, told, merged, current>>
    BY <1>10 DEF Take, ByCandidate, script
  <2>2. /\ current' \in Requests \cup {Nobody} /\ merged' \in BOOLEAN /\ alive' \in BOOLEAN /\ early' \in BOOLEAN
        /\ document' \in [counter : Nat, marked : BOOLEAN]
        /\ carries' \in [Requests -> {"idempotent", "increment", "none"}]
    BY <2>1
  <2>3. /\ test' \in Tests \cup {"any"} /\ fault' \in {"none", "early", "replay", "place"} /\ step' \in Nat
        /\ verdict' \in {"running", "passed", "failed"} /\ orphans' \subseteq Requests
    BY <2>1
  <2>4. /\ task' \in {"idempotent", "increment", "none"} /\ told' \in {"pending", "applied", "unknown"}
        /\ offset' \in 0..2 /\ place' \in 0..2 /\ snapshots' \in Nat
    BY <2>1
  <2>5. QED
    BY <2>2, <2>3, <2>4
<1>11. CASE Read
  BY <1>11 DEF Read, ByCandidate, script
<1>12. CASE Send
  BY <1>12 DEF Send, ByCandidate, script
<1>13. CASE Settle
  BY <1>13 DEF Settle, Tell, ByCandidate, script
<1>14. CASE Hasten
  BY <1>14 DEF Hasten, Tell, ByCandidate, script
<1>15. CASE Free \/ Cleanup \/ Close
  BY <1>15 DEF Free, Cleanup, Close, candidate, script
<1>16. ASSUME NEW r \in Requests, Proxy(r) PROVE Types'
  <2>1. document.counter \in Nat /\ document.marked \in BOOLEAN
    OBVIOUS
  <2>2. Executed(r) \in [counter : Nat, marked : BOOLEAN]
    BY <2>1 DEF Executed
  <2>3. document' \in [counter : Nat, marked : BOOLEAN]
    BY <1>16, <2>2 DEF Proxy
  <2>4. QED
    BY <1>16, <2>3 DEF Proxy, candidate, script
<1>17. ASSUME NEW r \in Requests, Part(r) PROVE Types'
  BY <1>17 DEF Part, candidate, script
<1>18. CASE UNCHANGED allVars
  BY <1>18 DEF allVars, candidate, script
<1>19. QED
  BY <1>2, <1>3, <1>4, <1>5, <1>6, <1>7, <1>8, <1>9, <1>10, <1>11, <1>12, <1>13, <1>14, <1>15, <1>16, <1>17, <1>18
  DEF AllNext, TestStep, Candidate

\* What the marks of a test say of what it has seen.
Observed ==
    /\ HasGate /\ Caught => caught[G] = 1
    /\ (Caught \/ Stored) /\ test \notin {"before", "acceptedBefore"} => 1 \in committed
    /\ Settled => (test = "lost" /\ ~Wrote2 => told = "unknown") /\ ~(early /\ HasGate /\ ~Accepting)
    /\ fault # "early" /\ Acked => 1 \in committed
    /\ Applied3 \/ (Applied2 /\ ~Wrote3) => told = "applied"
    /\ Stored => committed # {}
    /\ Alone /\ OneWrite => /\ ~Wrote2 => Until(1)
                            /\ Until(2)
                            /\ Sent(2) => current = 2
                            /\ document.counter = Count(1) + Count(2)
    /\ Accepting => (Offset => offset >= 1) /\ (Drained => offset = 2)
    /\ Ended => /\ ~Alone => document.counter = IF Accepting THEN 1 ELSE 2
                /\ test = "lost" => 2 \in committed
                /\ Accepting /\ HasGate => Sent(2) /\ ~early
                /\ test = "acceptedOffset" => Until(1)

\* The invariant says what the test has seen.
LEMMA SeenBefore == Parts /\ test \in Tests => Observed
BY DEF Parts, Observed, Gate, Told, Documents, Accepted, Accepting

\* A step of the script that only looks keeps the invariant when what it has
\* seen is what its marks say.
LEMMA LookKeeps ==
    ASSUME Parts, Types', test \in Tests, NEW n, Now(n), Done, Quiet, Observed',
           OnlyMoves({"Caught", "Settled", "Acked", "Applied2", "Applied3", "Stored", "OneWrite", "Offset", "Drained", "Ended"})
    PROVE  Parts'
<1>1. /\ step' \in Nat /\ test' = test /\ fault' = fault /\ verdict = "running" /\ ~Ended
      /\ verdict' \in {"running", "passed"} /\ (verdict' = "passed" <=> Ended')
  BY StepDone
<1>2. UNCHANGED <<vars, alive, task, told, offset, place, merged, current, snapshots, carries, early, document, orphans>>
  BY DEF Quiet, candidate
<1>3. Progress'
  BY <1>1, <1>2 DEF Parts, Progress, OnlyMoves
<1>4. Gate'
  BY <1>1, <1>2 DEF Parts, Gate, Observed, OnlyMoves, vars, gate, HasGate, G, Sent, Until
<1>5. Fate'
  BY <1>1, <1>2 DEF Parts, Fate, OnlyMoves, vars
<1>6. Carrying'
  BY <1>1, <1>2 DEF Parts, Carrying, OnlyMoves, vars, Sent, Until, Alone, Accepting
<1>7. Told'
  BY <1>1, <1>2 DEF Parts, Told, Observed, OnlyMoves, vars, HasGate, Accepting
<1>8. Documents'
  BY <1>1, <1>2 DEF Parts, Documents, Observed, OnlyMoves, vars, Alone, Accepting, Increments, Count, Until, Sent
<1>9. Accepted'
  BY <1>1, <1>2 DEF Parts, Accepted, Observed, OnlyMoves, vars, HasGate, Accepting, Until, Sent
<1>10. QED
  BY <1>3, <1>4, <1>5, <1>6, <1>7, <1>8, <1>9 DEF Parts

\* The marks of a step that only looks.
LEMMA SeenAfter ==
    ASSUME Parts, test \in Tests, NEW n, Now(n), Done, Quiet, NEW S, OnlyMoves(S),
           "Wrote2" \notin S, "Wrote3" \notin S,
           "Caught" \in S => (HasGate => caught[G] = 1) /\ (test \notin {"before", "acceptedBefore"} => 1 \in committed),
           "Settled" \in S => (test = "lost" => told = "unknown") /\ ~(early /\ HasGate /\ ~Accepting),
           "Acked" \in S => (fault # "early" => 1 \in committed),
           "Applied2" \in S \/ "Applied3" \in S => told = "applied",
           "Stored" \in S => committed # {} /\ (test \notin {"before", "acceptedBefore"} => 1 \in committed),
           "OneWrite" \in S => ~Wrote2 /\ Until(1) /\ document.counter = Count(1) + Count(2),
           "Offset" \in S => offset >= 1,
           "Drained" \in S => offset = 2,
           "Ended" \in S => /\ ~Alone => document.counter = IF Accepting THEN 1 ELSE 2
                            /\ test = "lost" => 2 \in committed
                            /\ Accepting /\ HasGate => Sent(2) /\ ~early
                            /\ test = "acceptedOffset" => Until(1)
    PROVE  Observed'
<1>1. test' = test /\ fault' = fault
  BY StepDone
<1>2. UNCHANGED <<vars, told, offset, current, early, document>>
  BY DEF Quiet, candidate
<1>3. Observed
  BY SeenBefore
<1>4. /\ Wrote2' <=> Wrote2
      /\ Wrote3' <=> Wrote3
  BY DEF OnlyMoves
<1>5. Until(1) => ~Sent(2) /\ Until(2)
  BY RequestFacts DEF Until, Sent
<1>6. /\ HasGate /\ Caught' => caught[G] = 1
      /\ (Caught' \/ Stored') /\ test \notin {"before", "acceptedBefore"} => 1 \in committed
      /\ Settled' => (test = "lost" /\ ~Wrote2 => told = "unknown") /\ ~(early /\ HasGate /\ ~Accepting)
      /\ fault # "early" /\ Acked' => 1 \in committed
  BY <1>3 DEF Observed, OnlyMoves
<1>7. /\ Applied3' \/ (Applied2' /\ ~Wrote3) => told = "applied"
      /\ Stored' => committed # {}
      /\ Alone /\ OneWrite' => /\ ~Wrote2 => Until(1)
                               /\ Until(2)
                               /\ Sent(2) => current = 2
                               /\ document.counter = Count(1) + Count(2)
  BY <1>3, <1>5 DEF Observed, OnlyMoves
<1>8. /\ Accepting => (Offset' => offset >= 1) /\ (Drained' => offset = 2)
      /\ Ended' => /\ ~Alone => document.counter = IF Accepting THEN 1 ELSE 2
                   /\ test = "lost" => 2 \in committed
                   /\ Accepting /\ HasGate => Sent(2) /\ ~early
                   /\ test = "acceptedOffset" => Until(1)
  BY <1>3 DEF Observed, OnlyMoves
<1>9. QED
  BY <1>1, <1>2, <1>4, <1>6, <1>7, <1>8 DEF Observed, vars, HasGate, G, Accepting, Alone, Until, Sent, Count

\* A crash cuts off the first exchange and leaves its outcome unknown.
LEMMA CrashKeeps ==
    ASSUME IInv, Parts, test \in Tests, Crash
    PROVE  Parts'
<1>1. Now("crash") /\ Done /\ verdict = "running" /\ step \in Nat
  BY DEF Crash, Now, Parts, Types
<1>2. /\ Started /\ ~Restarted /\ ~Alone /\ ~Wrote2 /\ ~Broken /\ ~Crashed /\ Crashed' /\ Broken'
      /\ HasGate => Caught /\ ~Released
      /\ test = "acknowledged" => Acked
      /\ test = "acceptedOffset" => Offset /\ Stored
      /\ OnlyMoves({"Crashed", "Broken"})
  BY <1>1, AtCrash
<1>3. /\ ~Applied2 /\ ~Wrote3 /\ ~Applied3 
      /\ (Accepting => ~Wrote1 /\ ~Settled)
      /\ ~Accepting => Wrote1
  BY <1>1, <1>2, Order, OrderWithGate, OrderWhenAccepting, OrderOfWrites DEF HasGate, Tests, Accepting, Alone
<1>4. /\ UNCHANGED <<vars, test, fault, offset, place, snapshots, carries, early, document>>
      /\ alive' = FALSE /\ task' = "none" /\ merged' = FALSE /\ current' = Nobody
      /\ told' = IF told = "pending" THEN "unknown" ELSE told
      /\ orphans' = orphans \cup InFlight
      /\ step' = step + 1
  BY DEF Crash, Done
<1>5. step' \in Nat /\ verdict' \in {"running", "passed"} /\ (verdict' = "passed" <=> Ended') /\ ~Ended
  BY <1>1, StepDone
<1>6. Types'
  BY <1>1, <1>4, <1>5, RequestFacts DEF Parts, Types, InFlight, vars
<1>7. Progress'
  BY <1>1, <1>2, <1>3, <1>4, <1>5 DEF Parts, Progress, OnlyMoves
<1>8. Gate'
  BY <1>1, <1>2, <1>3, <1>4, <1>5 DEF Parts, Gate, OnlyMoves, vars, gate, HasGate, G, Sent, Until
<1>f. InFlight \subseteq {1}
  <2>1. Until(1)
    BY <1>2 DEF Parts, Carrying
  <2>2. ASSUME NEW r \in Requests, r # 1 PROVE at[r] = "unsent"
    <3>1. r > 1
      BY <2>2, RequestFacts
    <3>2. QED
      BY <2>1, <3>1 DEF Until
  <2>3. QED
    BY <2>2 DEF InFlight
<1>9. Fate'
  BY <1>2, <1>4, <1>5, <1>f DEF Parts, Fate, OnlyMoves, vars
<1>10. Carrying'
  BY <1>1, <1>2, <1>3, <1>4, <1>5 DEF Parts, Fate, OnlyMoves, vars, gate, HasGate, G, Sent, Until, InFlight, Carrying, Alone, Accepting
<1>11. Told'
  BY <1>1, <1>2, <1>3, <1>4, <1>5 DEF Parts, Told, OnlyMoves, vars, gate, HasGate, Alone, Accepting
<1>12. Documents'
  BY <1>1, <1>2, <1>3, <1>4, <1>5 DEF Parts, Documents, OnlyMoves, vars, gate, HasGate, Alone, Accepting, Increments, Count, Until, Sent
<1>13. ASSUME Accepting PROVE Accepted'
  <2>1. Sent(1) /\ ~Sent(2) /\ Until(1)
    <3>1. CASE HasGate
      BY <1>2, <3>1, RequestFacts, GateFacts DEF Parts, Gate, HasGate, Carrying, Until, Sent
    <3>2. CASE ~HasGate
      <4>1. 1 \in committed
        BY <1>2, <1>13, <3>2 DEF Parts, Documents, HasGate, GatedTests, Accepting
      <4>2. QED
        BY <1>2, <4>1, RequestFacts DEF Parts, Carrying, Until, Sent, IInv, Core, Committed, RequestStages
    <3>3. QED
      BY <3>1, <3>2
  <2>2. offset \in 0..1 /\ place \in 0..1 /\ snapshots = 1 /\ (fault # "place" => place = offset)
        /\ (early => offset >= 1) /\ (test = "acceptedOffset" => offset >= 1) /\ (fault # "early" /\ HasGate => offset = 0)
    BY <1>2, <1>13, <2>1 DEF Parts, Accepted
  <2>3. QED
    BY <1>2, <1>3, <1>4, <1>5, <1>13, <2>1, <2>2 DEF Parts, Accepted, OnlyMoves, vars, gate, HasGate, Accepting, Until, Sent
<1>a. Accepted'
  BY <1>13, <1>4, <1>5 DEF Accepted, Accepting
<1>14. QED
  BY <1>6, <1>7, <1>8, <1>9, <1>10, <1>11, <1>12, <1>a DEF Parts

\* What has not arrived is not executed; the exchanges executed are those that
\* have arrived.
LEMMA Unsent ==
    ASSUME IInv, Parts
    PROVE  /\ \A r \in Requests : at[r] = "unsent" => r \notin committed
           /\ \A r \in Requests : at[r] = "answered" => r \in committed
           /\ committed \subseteq Requests
           /\ Until(1) => committed \subseteq {1} /\ Count(2) = 0
<1>1. /\ \A r \in Requests : at[r] = "unsent" => r \notin committed
      /\ \A r \in Requests : at[r] = "answered" => r \in committed
      /\ committed \subseteq Requests
  BY DEF IInv, Core, Committed, RequestStages, TypeOK
<1>2. ASSUME Until(1) PROVE committed \subseteq {1} /\ Count(2) = 0
  <2>1. ASSUME NEW r \in committed PROVE r = 1
    <3>1. r \in Requests /\ at[r] # "unsent"
      BY <1>1
    <3>2. QED
      BY <1>2, <3>1, RequestFacts DEF Until
  <2>2. QED
    BY <2>1 DEF Count
<1>3. QED
  BY <1>1, <1>2

\* One exchange, or two, have arrived.
LEMMA Counting ==
    ASSUME Parts
    PROVE  /\ Exchanges = 1 => Until(1)
           /\ Until(1) /\ Sent(1) => Exchanges = 1
           /\ Until(2) /\ Sent(2) => Exchanges = 2
<1> DEFINE S == {r \in Requests : at[r] # "unsent"}
<1>1. Exchanges = Cardinality(S)
  BY DEF Exchanges
<1>2. ASSUME Exchanges = 1 PROVE Until(1)
  <2>0. IsFiniteSet(S)
    <3>1. IsFiniteSet(Requests) /\ S \in SUBSET Requests
      BY GateNames
    <3>2. QED
      BY ONLY <3>1, FS_Subset
  <2>1. PICK s : S = {s}
    BY <1>1, <1>2, <2>0, FS_Singleton
  <2>2. ASSUME NEW r \in Requests, r > 1, at[r] # "unsent" PROVE FALSE
    <3>1. r \in S /\ 1 \in S
      BY <2>2, RequestFacts DEF Parts, Carrying, Sent
    <3>2. QED
      BY <2>1, <2>2, <3>1
  <2>3. QED
    BY <2>2 DEF Until
<1>3. ASSUME Until(1), Sent(1) PROVE Exchanges = 1
  <2>1. \A r \in Requests : r = 1 \/ r > 1
    BY RequestFacts
  <2>2. S = {1}
    BY <1>3, <2>1, RequestFacts DEF Until, Sent
  <2>3. QED
    BY <1>1, <2>2, FS_Singleton
<1>4. ASSUME Until(2), Sent(2) PROVE Exchanges = 2
  <2>1. 1 \in S /\ 2 \in S
    BY <1>4, RequestFacts DEF Until, Sent, Parts, Carrying
  <2>2. \A r \in S : r = 1 \/ r = 2
    BY <1>4, RequestFacts DEF Until, Sent
  <2>3. S = {1} \cup {2}
    BY <2>1, <2>2
  <2>4. IsFiniteSet({1}) /\ Cardinality({1}) = 1 /\ 2 \notin {1}
    BY FS_Singleton
  <2>5. Cardinality({1} \cup {2}) = 2
    BY <2>4, FS_AddElement
  <2>6. QED
    BY <1>1, <2>3, <2>5
<1>5. QED
  BY <1>2, <1>3, <1>4

\* Where no exchange carries an increment, the counter shows whether the
\* backend has executed one.
LEMMA CounterShows ==
    ASSUME Parts, ~Alone, ~Wrote3
    PROVE  document.counter = (IF committed = {} THEN 0 ELSE 1) /\ document.marked = (committed # {})
BY DEF Parts, Documents, Increments

\* A wait that ends as the script expects it keeps the invariant.
LEMMA AwaitingKeeps ==
    ASSUME IInv, Parts, Types', test \in Tests, Awaiting, verdict' # "failed"
    PROVE  Parts'
<1>1. step \in Nat
  BY DEF Parts, Types
<1>2. Quiet
  BY DEF Awaiting
<1>3. CASE Now("caught") /\ caught[GateOf(test)] # Nobody /\ Done
  <2>1. HasGate /\ OnlyMoves({"Caught"})
    BY <1>1, <1>3, AtCaught
  <2>2. caught[G] = 1
    BY <1>3, <2>1, GateFacts DEF Parts, Gate, G, HasGate
  <2>3. test \notin {"before", "acceptedBefore"} => 1 \in committed
    BY <2>1, <2>2, GateFacts, RequestFacts DEF IInv, Core, ResponsesAreHeld, HasGate
  <2>4. Observed'
    BY <1>2, <1>3, <2>1, <2>2, <2>3, SeenAfter
  <2>5. QED
    BY <1>2, <1>3, <2>1, <2>4, LookKeeps DEF OnlyMoves
<1>4. CASE Now("applied") /\ told # "pending" /\ Require(told = "applied")
  <2>1. told = "applied" /\ Done
    BY <1>4 DEF Require
  <2>2. CASE test = "acknowledged" /\ ~Crashed /\ Wrote1 /\ ~Wrote2 /\ Acked' /\ OnlyMoves({"Acked"})
    <3>1. fault # "early" => 1 \in committed
      <4>1. ~Accepting /\ ~Alone
        BY <2>2 DEF Accepting, Alone
      <4>2. Until(1)
        BY <2>2, <4>1 DEF Parts, Carrying
      <4>3. fault # "early" => current # Nobody /\ at[current] = "answered"
        BY <2>1, <2>2, <4>1 DEF Parts, Told
      <4>4. QED
        BY <4>2, <4>3, Unsent DEF Parts, Types
    <3>2. Observed'
      BY <1>2, <1>4, <2>1, <2>2, <3>1, SeenAfter
    <3>3. QED
      BY <1>2, <1>4, <2>1, <2>2, <3>2, LookKeeps DEF OnlyMoves
  <2>3. ASSUME NEW S \in {{"Applied2"}, {"Applied3"}}, OnlyMoves(S) PROVE Parts'
    <3>1. Observed'
      BY <1>2, <1>4, <2>1, <2>3, SeenAfter
    <3>2. QED
      BY <1>2, <1>4, <2>1, <2>3, <3>1, LookKeeps DEF OnlyMoves
  <2>4. QED
    BY <1>1, <1>4, <2>1, <2>2, <2>3, AtApplied
<1>5. CASE Now("unknown") /\ told # "pending" /\ Require(told = "unknown")
  <2>1. told = "unknown" /\ Done
    BY <1>5 DEF Require
  <2>2. OnlyMoves({"Settled"})
    BY <1>1, <1>5, <2>1, AtUnknown
  <2>3. ~(early /\ HasGate /\ ~Accepting)
    BY <2>1 DEF Parts, Told
  <2>4. Observed'
    BY <1>2, <1>5, <2>1, <2>2, <2>3, SeenAfter
  <2>5. QED
    BY <1>2, <1>5, <2>1, <2>2, <2>4, LookKeeps DEF OnlyMoves
<1>6. CASE Now("committed") /\ offset # 0 /\ Require(offset = 1)
  <2>1. offset = 1 /\ Done
    BY <1>6 DEF Require
  <2>2. OnlyMoves({"Offset"})
    BY <1>1, <1>6, <2>1, AtCommitted
  <2>3. Observed'
    BY <1>2, <1>6, <2>1, <2>2, SeenAfter
  <2>4. QED
    BY <1>2, <1>6, <2>1, <2>2, <2>3, LookKeeps DEF OnlyMoves
<1>7. CASE Now("drained") /\ offset = 2 /\ Done
  <2>1. OnlyMoves({"Drained"})
    BY <1>1, <1>7, AtDrained
  <2>2. Observed'
    BY <1>2, <1>7, <2>1, SeenAfter
  <2>3. QED
    BY <1>2, <1>7, <2>1, <2>2, LookKeeps DEF OnlyMoves
<1>8. QED
  BY <1>3, <1>4, <1>5, <1>6, <1>7 DEF Awaiting

\* Behind a response gate that has caught its exchange, that exchange is done.
LEMMA CaughtOnReturn ==
    ASSUME Parts, Caught \/ Stored, test \notin {"before", "acceptedBefore"}
    PROVE  1 \in committed
BY DEF Parts, Documents

\* counter 1: with no increment under way, one mutation is stored.
LEMMA OneStored ==
    ASSUME IInv, Parts, test \in Tests, ~Alone, ~Wrote3, document.counter = 1
    PROVE  committed # {} /\ (Until(1) => 1 \in committed)
<1>1. committed # {}
  BY CounterShows
<1>2. QED
  BY <1>1, Unsent

\* A comparison that succeeds keeps the invariant.
LEMMA AssertingKeeps ==
    ASSUME IInv, Parts, Types', test \in Tests, Asserting, verdict' # "failed"
    PROVE  Parts'
<1>1. step \in Nat
  BY DEF Parts, Types
<1>2. Quiet
  BY DEF Asserting
<1>3. ASSUME NEW n \in {"backend0", "backend1", "counter0", "pending", "uncommitted"}, Now(n), Done PROVE Parts'
  <2>1. OnlyMoves({})
    BY <1>1, <1>3, AtBackend0, AtBackend1, AtCounter0, AtPending, AtUncommitted
  <2>2. Observed'
    BY <1>2, <1>3, <2>1, SeenAfter
  <2>3. QED
    BY <1>2, <1>3, <2>1, <2>2, LookKeeps DEF OnlyMoves
<1>4. ASSUME Now("counter1"), Done, document.counter = 1 PROVE Parts'
  <2>1. /\ OnlyMoves({"Stored"})
        /\ test = "before" => Applied2 /\ ~Wrote3
        /\ test = "after" => Caught /\ ~Wrote3
        /\ test = "acknowledged" => Acked /\ ~Wrote3
        /\ Alone => Settled /\ Released /\ ~Wrote2
        /\ test \in {"acceptedBefore", "acceptedAfter"} => Drained
        /\ test = "acceptedOffset" => Offset /\ ~Ended
    BY <1>1, <1>4, AtCounter1
  <2>2. ~Alone => ~Wrote3
    BY <1>1, <2>1, OrderWhenAccepting DEF Alone, Accepting, Tests, GatedTests
  <2>3. ~Alone => committed # {} /\ (Until(1) => 1 \in committed)
    BY <1>4, <2>2, OneStored
  <2>4. test \notin {"before", "acceptedBefore"} => 1 \in committed
    <3>1. CASE test \in {"lost", "cancelled", "after", "acceptedAfter"}
      <4>1. Caught
        BY <1>1, <2>1, <3>1, Order, OrderWithGate DEF Alone, GatedTests
      <4>2. QED
        BY <3>1, <4>1, CaughtOnReturn
    <3>2. CASE test = "acknowledged" /\ ~Stored
      <4>0. ~Alone /\ ~Accepting
        BY <3>2 DEF Alone, Accepting
      <4>1. ~Wrote2 /\ ~Alone /\ ~Accepting
        BY <1>1, <3>2, <4>0, OrderOfWrites
      <4>2. Until(1)
        BY <4>1 DEF Parts, Carrying
      <4>3. QED
        BY <2>3, <4>1, <4>2
    <3>3. CASE test = "acceptedOffset" /\ ~Stored
      <4>1. ~Restarted /\ ~Alone /\ Accepting
        BY <1>1, <3>3, OrderWhenAccepting, Order DEF Alone, Accepting
      <4>2. Until(1)
        BY <4>1 DEF Parts, Carrying
      <4>3. QED
        BY <2>3, <4>1, <4>2
    <3>4. CASE Stored
      BY <3>4, CaughtOnReturn
    <3>5. QED
      BY <3>1, <3>2, <3>3, <3>4 DEF Tests, GatedTests
  <2>5. committed # {}
    BY <2>3, <2>4 DEF Alone
  <2>6. Observed'
    BY <1>2, <1>4, <2>1, <2>4, <2>5, SeenAfter
  <2>7. QED
    BY <1>2, <1>4, <2>1, <2>6, LookKeeps DEF OnlyMoves
<1>5. ASSUME Now("counter2"), Done, document.counter = 2 PROVE Parts'
  <2>1. OnlyMoves({"Ended"}) /\ ~Accepting
    BY <1>1, <1>5, AtCounter2
  <2>l. test = "lost" => 2 \in committed
    <3>1. test = "lost" => Alone /\ OneWrite
      BY <1>1, <1>5, AtCounter2 DEF Alone
    <3>2. test = "lost" => document.counter = Count(1) + Count(2)
      BY <3>1 DEF Parts, Documents
    <3>3. QED
      BY <1>5, <3>2 DEF Count
  <2>2. Observed'
    BY <1>2, <1>5, <2>1, <2>l, SeenAfter DEF Accepting
  <2>3. QED
    BY <1>2, <1>5, <2>1, <2>2, LookKeeps DEF OnlyMoves
<1>6. ASSUME Now("oneWrite"), Done, Exchanges = 1 PROVE Parts'
  <2>1. test = "lost" /\ ~Wrote2 /\ OnlyMoves({"OneWrite"})
    BY <1>1, <1>6, AtOneWrite
  <2>2. Until(1)
    BY <1>6, Counting
  <2>3. document.counter = Count(1) /\ Count(1) \in Nat
    BY <2>1, <2>2 DEF Parts, Documents, Alone, Count
  <2>4. document.counter = Count(1) + Count(2)
    BY <2>2, <2>3, Unsent
  <2>5. Observed'
    BY <1>2, <1>6, <2>1, <2>2, <2>4, SeenAfter
  <2>6. QED
    BY <1>2, <1>6, <2>1, <2>5, LookKeeps DEF OnlyMoves
<1>7. ASSUME Now("replayed"), Done, ReadTimes(Nat \ {0, 1}) PROVE Parts'
  <2>1. /\ Accepting /\ HasGate /\ Drained /\ (Stored \/ (test = "acceptedAfter" /\ Caught))
        /\ OnlyMoves({"Ended"})
    BY <1>1, <1>7, AtReplayed
  <2>2. ~Alone /\ ~Wrote3 /\ Crashed
    BY <1>1, <2>1, OrderWhenAccepting, Order DEF Alone, Accepting
  <2>3. document.counter = 1
    <3>1. committed # {}
      BY <2>1, CaughtOnReturn DEF Parts, Documents
    <3>2. QED
      BY <2>2, <3>1, CounterShows
  <2>4. ~merged
    BY <2>1 DEF Parts, Accepted, Carrying, Types
  <2>5. ~Until(1)
    <3>1. snapshots > 1
      BY <1>7 DEF ReadTimes, Parts, Types
    <3>2. snapshots = (IF Crashed THEN 1 ELSE 0) +
          (IF merged \/ (IF Crashed THEN ~Until(1) ELSE Sent(1)) THEN 1 ELSE 0)
      BY <2>1 DEF Parts, Accepted
    <3>3. QED
      BY <2>2, <2>4, <3>1, <3>2
  <2>6. Sent(2)
    BY <2>5, RequestFacts DEF Until, Sent, Parts, Carrying
  <2>7. ~early
    BY <2>1, <2>2, <2>6 DEF Parts, Accepted, Told
  <2>8. Observed'
    BY <1>2, <1>7, <2>1, <2>3, <2>6, <2>7, SeenAfter DEF HasGate, GatedTests, Accepting
  <2>9. QED
    BY <1>2, <1>7, <2>1, <2>8, LookKeeps DEF OnlyMoves
<1>8. ASSUME Now("notReplayed"), Done, ReadTimes({1}) PROVE Parts'
  <2>1. test = "acceptedOffset" /\ Drained /\ OnlyMoves({"Ended"})
    BY <1>1, <1>8, AtNotReplayed
  <2>2. ~Alone /\ ~Wrote3 /\ Crashed /\ Accepting /\ ~HasGate /\ Stored
    BY <1>1, <2>1, OrderWhenAccepting, Order DEF Alone, Accepting, HasGate, GatedTests
  <2>3. document.counter = 1
    <3>1. committed # {}
      BY <2>2 DEF Parts, Documents
    <3>2. QED
      BY <2>2, <3>1, CounterShows
  <2>4. Until(1)
    <3>1. snapshots <= 1
      BY <1>8 DEF ReadTimes
    <3>2. snapshots = (IF Crashed THEN 1 ELSE 0) +
          (IF merged \/ (IF Crashed THEN ~Until(1) ELSE Sent(1)) THEN 1 ELSE 0)
      BY <2>2 DEF Parts, Accepted
    <3>3. QED
      BY <2>2, <3>1, <3>2
  <2>5. Observed'
    BY <1>2, <1>8, <2>1, <2>2, <2>3, <2>4, SeenAfter
  <2>6. QED
    BY <1>2, <1>8, <2>1, <2>5, LookKeeps DEF OnlyMoves
<1>9. QED
  BY <1>3, <1>4, <1>5, <1>6, <1>7, <1>8 DEF Asserting, Require

\* What Write assigns.
Writes(kind) ==
    /\ told' = "pending" /\ merged' = FALSE /\ current' = Nobody /\ task' = kind
    /\ UNCHANGED <<vars, alive, offset, place, snapshots, carries, early, document, orphans>>

\* The first mutation of the test.
LEMMA WriteFirst ==
    ASSUME IInv, Parts, Types', test \in Tests, ~Accepting, Started, NEW n, Now(n), Done,
           Writes(IF Alone THEN "increment" ELSE "idempotent"),
           ~Wrote1, Wrote1', HasGate => Gated, OnlyMoves({"Wrote1"})
    PROVE  Parts'
<1>1. /\ step' \in Nat /\ test' = test /\ fault' = fault /\ verdict = "running" /\ ~Ended
      /\ verdict' \in {"running", "passed"} /\ (verdict' = "passed" <=> Ended')
  BY StepDone
<1>2. step \in Nat
  BY DEF Parts, Types
<1>u. /\ told' = "pending" /\ merged' = FALSE /\ current' = Nobody /\ task' = IF Alone THEN "increment" ELSE "idempotent"
      /\ UNCHANGED <<gates, seen, caught, release, discarded, at, held, gone, committed, alive, offset, place>>
      /\ UNCHANGED <<snapshots, carries, early, document, orphans>>
  BY DEF Writes, vars, gate
<1>3. /\ ~Caught /\ ~Broken /\ ~Crashed /\ ~Released /\ ~Restarted /\ ~Settled /\ ~Acked
      /\ ~Wrote2 /\ ~Applied2 /\ ~Wrote3 /\ ~Applied3 /\ ~OneWrite /\ ~Stored
  <2>1. ~Wrote2 /\ ~Applied2 /\ ~Wrote3 /\ ~Applied3 /\ ~Settled /\ ~OneWrite /\ ~Acked
    BY <1>2, Order
  <2>2. CASE HasGate
    <3>1. ~Caught /\ ~Broken
      BY <1>2, <2>2, OrderWithGate DEF HasGate
    <3>2. ~Crashed /\ ~Released /\ ~Restarted
      BY <1>2, <3>1, Order
    <3>3. Stored => Applied2 \/ Acked
      BY <1>2, <2>2, OrderOfWrites DEF Alone, HasGate, GatedTests, Accepting
    <3>4. QED
      BY <2>1, <3>1, <3>2, <3>3
  <2>3. CASE ~HasGate
    <3>1. test = "acknowledged"
      BY <2>3 DEF HasGate, Tests, Accepting
    <3>2. ~Crashed /\ ~Broken /\ ~Stored /\ ~Caught /\ ~Released
      BY <1>2, <2>1, <3>1, OrderOfWrites
    <3>3. ~Restarted
      BY <1>2, <3>2, Order
    <3>4. QED
      BY <2>1, <3>2, <3>3
  <2>4. QED
    BY <2>2, <2>3
<1>5. Until(0) /\ current = Nobody
  BY DEF Parts, Carrying
<1>6. \A r \in Requests : at[r] = "unsent" /\ ~Sent(r) /\ carries[r] = "none"
  BY <1>5, RequestFacts DEF Until, Sent, Parts, Carrying
<1>7. Until(1) /\ Until(2) /\ Increments = {}
  BY <1>6 DEF Until, Increments
<1>8. Progress'
  BY <1>1, <1>3 DEF Parts, Progress, Writes, OnlyMoves
<1>9. Gate'
  BY <1>1 DEF Parts, Gate, Writes, OnlyMoves, vars, gate, HasGate, G, Sent, Until
<1>10. Fate'
  BY <1>1 DEF Parts, Fate, Writes, OnlyMoves, vars
<1>a. /\ (Wrote2' <=> Wrote2) /\ (Restarted' <=> Restarted) /\ (Crashed' <=> Crashed) /\ (Broken' <=> Broken)
      /\ (Settled' <=> Settled) /\ (Released' <=> Released) /\ (Wrote3' <=> Wrote3) /\ (Acked' <=> Acked)
      /\ (Applied2' <=> Applied2) /\ (Applied3' <=> Applied3) /\ (OneWrite' <=> OneWrite) /\ (Stored' <=> Stored)
      /\ (Caught' <=> Caught) /\ (Ended' <=> Ended)
  BY DEF OnlyMoves
<1>b. /\ (Alone' <=> Alone) /\ (Accepting' <=> Accepting) /\ (HasGate' <=> HasGate)
      /\ Until(0)' /\ Until(1)' /\ Until(2)' /\ \A r \in Requests : ~Sent(r)' /\ carries'[r] = "none"
      /\ ~Sent(1)' /\ ~Sent(2)'
  BY <1>1, <1>5, <1>6, <1>7, <1>u, RequestFacts DEF Alone, Accepting, HasGate, Until, Sent
<1>c. committed = {}
  BY <1>6, Unsent
<1>11. Carrying'
  <2>1. /\ \A r \in Requests : Sent(r)' <=> carries'[r] # "none"
        /\ \A q, r \in Requests : q < r /\ Sent(r)' => Sent(q)'
    BY <1>b
  <2>2. QED
    BY <1>3, <1>a, <1>b, <1>u, <2>1 DEF Carrying
<1>12. Told'
  BY <1>1, <1>3, <1>a, <1>b, <1>u DEF Parts, Told
<1>13. Documents'
  <2>1. Increments' = {}
    BY <1>b DEF Increments
  <2>2. /\ document = [counter |-> IF committed = {} THEN 0 ELSE 1, marked |-> committed # {}]
        /\ document' = document /\ committed' = committed
    <3>1. \A r \in Requests : carries[r] # "increment"
      BY <1>6
    <3>2. QED
      BY <3>1, <1>u DEF Parts, Documents
  <2>c. committed' = {} /\ document'.counter = 0
    BY <1>c, <2>2
  <2>3. Count(1)' = 0 /\ Count(2)' = 0
    BY <2>c DEF Count
  <2>4. task' = IF Alone' THEN "increment" ELSE "idempotent"
    BY <1>b, <1>u
  <2>5. QED
    BY <1>1, <1>3, <1>a, <1>b, <2>1, <2>2, <2>c, <2>3, <2>4 DEF Documents
<1>14. Accepted'
  BY <1>b DEF Accepted
<1>15. QED
  BY <1>8, <1>9, <1>10, <1>11, <1>12, <1>13, <1>14 DEF Parts

\* The retry, or the second increment.
LEMMA WriteAgain ==
    ASSUME IInv, Parts, Types', test \in Tests, ~Accepting, Started, NEW n, Now(n), Done,
           Writes(IF Alone THEN "increment" ELSE "idempotent"),
           Wrote1, ~Wrote2, Wrote2', ~Applied2, ~Wrote3, ~Applied3, OnlyMoves({"Wrote2"}),
           Alone => Settled /\ (OneWrite \/ test = "cancelled"),
           ~Alone => Restarted, test = "acknowledged" => Stored
    PROVE  Parts'
<1>1. /\ step' \in Nat /\ test' = test /\ fault' = fault /\ verdict = "running" /\ ~Ended
      /\ verdict' \in {"running", "passed"} /\ (verdict' = "passed" <=> Ended')
  BY StepDone
<1>2. step \in Nat
  BY DEF Parts, Types
<1>u. /\ told' = "pending" /\ merged' = FALSE /\ current' = Nobody /\ task' = IF Alone THEN "increment" ELSE "idempotent"
      /\ UNCHANGED <<gates, seen, caught, release, discarded, at, held, gone, committed, alive, offset, place>>
      /\ UNCHANGED <<snapshots, carries, early, document, orphans>>
  BY DEF Writes, vars, gate
<1>3. /\ HasGate => Caught /\ Settled /\ (Released \/ Broken)
      /\ ~Alone => Crashed /\ Broken
      /\ Crashed => Restarted
  <2>1. Crashed => ~Alone
    BY <1>2, OrderOfWrites
  <2>2. ~Alone => Crashed /\ Broken
    BY <1>2, Order
  <2>3. ASSUME HasGate PROVE Caught /\ Settled /\ (Released \/ Broken)
    <3>1. Settled
      BY <1>2, <2>3, OrderWithGate DEF HasGate
    <3>2. Caught
      BY <1>2, <3>1, Order
    <3>3. QED
      BY <1>2, <2>3, <3>1, <3>2, OrderWithGate DEF HasGate
  <2>4. QED
    BY <2>1, <2>2, <2>3
<1>8. Progress'
  BY <1>1, <1>3 DEF Parts, Progress, Writes, OnlyMoves
<1>9. Gate'
  BY <1>1 DEF Parts, Gate, Writes, OnlyMoves, vars, gate, HasGate, G, Sent, Until
<1>10. Fate'
  BY <1>1 DEF Parts, Fate, Writes, OnlyMoves, vars
<1>a. /\ (Wrote1' <=> Wrote1) /\ (Restarted' <=> Restarted) /\ (Crashed' <=> Crashed) /\ (Broken' <=> Broken)
      /\ (Settled' <=> Settled) /\ (Released' <=> Released) /\ (Wrote3' <=> Wrote3) /\ (Acked' <=> Acked)
      /\ (Applied2' <=> Applied2) /\ (Applied3' <=> Applied3) /\ (OneWrite' <=> OneWrite) /\ (Stored' <=> Stored)
      /\ (Caught' <=> Caught) /\ (Ended' <=> Ended)
  BY DEF OnlyMoves
<1>b. /\ (Alone' <=> Alone) /\ (Accepting' <=> Accepting) /\ (HasGate' <=> HasGate)
      /\ (Until(1)' <=> Until(1)) /\ (Until(2)' <=> Until(2)) /\ \A r \in Requests : Sent(r)' <=> Sent(r)
      /\ (Sent(1)' <=> Sent(1)) /\ (Sent(2)' <=> Sent(2))
  BY <1>1, <1>u, RequestFacts DEF Alone, Accepting, HasGate, Until, Sent
<1>c. Increments' = Increments /\ Count(1)' = Count(1) /\ Count(2)' = Count(2)
  BY <1>u DEF Increments, Count
<1>s. Sent(1)
  <2>1. CASE HasGate
    BY <1>3, <2>1, GateFacts, RequestFacts DEF Parts, Gate, HasGate
  <2>2. CASE ~HasGate
    <3>1. test = "acknowledged"
      BY <2>2 DEF HasGate, Tests, Accepting
    <3>2. QED
      BY <3>1, Unsent, RequestFacts DEF Parts, Documents, Sent
  <2>3. QED
    BY <2>1, <2>2
<1>11. Carrying'
  <2>1. /\ \A r \in Requests : Sent(r)' <=> carries'[r] # "none"
        /\ \A q, r \in Requests : q < r /\ Sent(r)' => Sent(q)'
    BY <1>b, <1>u DEF Parts, Carrying
  <2>2. current' # 1
    BY <1>u, RequestFacts
  <2>3. QED
    BY <1>a, <1>b, <1>u, <1>s, <2>1, <2>2 DEF Carrying
<1>12. Told'
  <2>1. ~early \/ ~HasGate
    BY <1>3 DEF Parts, Told
  <2>2. HasGate => Broken \/ Released
    BY <1>3
  <2>3. fault # "early" /\ Acked => 1 \in committed
    BY DEF Parts, Told
  <2>4. early => fault = "early"
    BY DEF Parts, Told
  <2>5. QED
    BY <1>1, <1>a, <1>b, <1>u, <2>1, <2>2, <2>3, <2>4 DEF Told
<1>13. Documents'
  <2>1. ASSUME \A r \in Requests : carries[r] # "increment"
        PROVE  document = [counter |-> IF committed = {} THEN 0 ELSE 1, marked |-> committed # {}]
    BY <2>1 DEF Parts, Documents
  <2>2. ~Alone => Increments = {} /\ task' # "increment"
    BY <1>u DEF Parts, Documents
  <2>3. ASSUME Alone
        PROVE  /\ \A r \in Requests : carries[r] # "idempotent"
               /\ task' # "idempotent"
               /\ Until(1) => document.counter = Count(1)
               /\ fault # "replay" \/ OneWrite =>
                     /\ Until(2)
                     /\ Sent(2) => current' = 2
                     /\ document.counter = Count(1) + Count(2)
    <3>1. fault # "replay" \/ OneWrite => Until(1) /\ Until(2) /\ document.counter = Count(1) + Count(2)
      BY <2>3 DEF Parts, Documents
    <3>2. Until(1) => ~Sent(2)
      BY RequestFacts DEF Until, Sent
    <3>3. QED
      BY <1>u, <2>3, <3>1, <3>2 DEF Parts, Documents
  <2>4. /\ Stored => committed # {}
        /\ (Stored \/ Caught) /\ test \notin {"before", "acceptedBefore"} => 1 \in committed
        /\ ~Ended /\ ~Ended'
    BY <1>1, <1>a DEF Parts, Documents
  <2>5. QED
    BY <1>1, <1>a, <1>b, <1>c, <1>u, <2>1, <2>2, <2>3, <2>4 DEF Documents
<1>14. Accepted'
  BY <1>b DEF Accepted
<1>15. QED
  BY <1>8, <1>9, <1>10, <1>11, <1>12, <1>13, <1>14 DEF Parts

\* The new mutation after the recovery.
LEMMA WriteNew ==
    ASSUME IInv, Parts, Types', test \in Tests, ~Accepting, Started, NEW n, Now(n), Done,
           Writes("increment"), ~Alone, Applied2, Stored \/ test = "after", ~Wrote3, Wrote3', ~Applied3, Restarted,
           OnlyMoves({"Wrote3"})
    PROVE  Parts'
<1>1. /\ step' \in Nat /\ test' = test /\ fault' = fault /\ verdict = "running" /\ ~Ended
      /\ verdict' \in {"running", "passed"} /\ (verdict' = "passed" <=> Ended')
  BY StepDone
<1>2. step \in Nat
  BY DEF Parts, Types
<1>u. /\ told' = "pending" /\ merged' = FALSE /\ current' = Nobody /\ task' = "increment"
      /\ UNCHANGED <<gates, seen, caught, release, discarded, at, held, gone, committed, alive, offset, place>>
      /\ UNCHANGED <<snapshots, carries, early, document, orphans>>
  BY DEF Writes, vars, gate
<1>3. Wrote1 /\ Wrote2 /\ Crashed /\ Broken
  BY <1>2, Order
<1>4. document.marked /\ document.counter = 1 /\ Increments = {} /\ committed # {}
  <2>1. committed # {}
    <3>1. CASE test = "after"
      <4>1. Caught
        BY <1>2, <1>3, <3>1, OrderWithGate DEF GatedTests
      <4>2. QED
        BY <3>1, <4>1, CaughtOnReturn
    <3>2. CASE Stored
      BY <3>2 DEF Parts, Documents
    <3>3. QED
      BY <3>1, <3>2
  <2>2. QED
    BY <2>1, CounterShows DEF Parts, Documents
<1>8. Progress'
  BY <1>1, <1>3 DEF Parts, Progress, Writes, OnlyMoves
<1>9. Gate'
  BY <1>1 DEF Parts, Gate, Writes, OnlyMoves, vars, gate, HasGate, G, Sent, Until
<1>10. Fate'
  BY <1>1 DEF Parts, Fate, Writes, OnlyMoves, vars
<1>a. /\ (Wrote1' <=> Wrote1) /\ (Restarted' <=> Restarted) /\ (Crashed' <=> Crashed) /\ (Broken' <=> Broken)
      /\ (Settled' <=> Settled) /\ (Released' <=> Released) /\ (Wrote2' <=> Wrote2) /\ (Acked' <=> Acked)
      /\ (Applied2' <=> Applied2) /\ (Applied3' <=> Applied3) /\ (OneWrite' <=> OneWrite) /\ (Stored' <=> Stored)
      /\ (Caught' <=> Caught) /\ (Ended' <=> Ended)
  BY DEF OnlyMoves
<1>b. /\ (Alone' <=> Alone) /\ (Accepting' <=> Accepting) /\ (HasGate' <=> HasGate)
      /\ (Until(1)' <=> Until(1)) /\ (Until(2)' <=> Until(2)) /\ \A r \in Requests : Sent(r)' <=> Sent(r)
      /\ (Sent(1)' <=> Sent(1)) /\ (Sent(2)' <=> Sent(2))
  BY <1>1, <1>u, RequestFacts DEF Alone, Accepting, HasGate, Until, Sent
<1>c. Increments' = {}
  BY <1>4, <1>u DEF Increments
<1>s. Sent(1)
  <2>1. PICK r \in committed : TRUE
    BY <1>4
  <2>2. r \in Requests /\ Sent(r)
    BY <2>1, Unsent DEF Sent
  <2>3. QED
    BY <2>2, RequestFacts DEF Parts, Carrying
<1>11. Carrying'
  <2>1. /\ \A r \in Requests : Sent(r)' <=> carries'[r] # "none"
        /\ \A q, r \in Requests : q < r /\ Sent(r)' => Sent(q)'
    BY <1>b, <1>u DEF Parts, Carrying
  <2>2. current' # 1
    BY <1>u, RequestFacts
  <2>3. QED
    BY <1>3, <1>a, <1>b, <1>u, <1>s, <2>1, <2>2 DEF Carrying
<1>12. Told'
  <2>1. ~(early /\ HasGate)
    <3>1. HasGate => Settled
      BY <1>2, <1>3, OrderWithGate DEF HasGate
    <3>2. QED
      BY <3>1 DEF Parts, Told
  <2>3. fault # "early" /\ Acked => 1 \in committed
    BY DEF Parts, Told
  <2>4. early => fault = "early"
    BY DEF Parts, Told
  <2>5. test # "lost"
    BY DEF Alone
  <2>6. QED
    BY <1>1, <1>3, <1>a, <1>b, <1>u, <2>1, <2>3, <2>4, <2>5 DEF Told
<1>13. Documents'
  <2>1. ASSUME \A r \in Requests : carries[r] # "increment"
        PROVE  document = [counter |-> IF committed = {} THEN 0 ELSE 1, marked |-> committed # {}]
    BY <2>1 DEF Parts, Documents
  <2>2. /\ document'.marked /\ task' # "idempotent" /\ current' = Nobody
        /\ document'.counter = 1
    BY <1>4, <1>u
  <2>4. /\ Stored => committed # {}
        /\ (Stored \/ Caught) /\ test \notin {"before", "acceptedBefore"} => 1 \in committed
        /\ ~Ended /\ ~Ended'
    BY <1>1, <1>a DEF Parts, Documents
  <2>5. QED
    BY <1>1, <1>a, <1>b, <1>c, <1>u, <2>1, <2>2, <2>4 DEF Documents
<1>14. Accepted'
  BY <1>b DEF Accepted
<1>15. QED
  BY <1>8, <1>9, <1>10, <1>11, <1>12, <1>13, <1>14 DEF Parts

\* A new mutation of the test keeps the invariant.
LEMMA WriteKeeps ==
    ASSUME IInv, Parts, Types', test \in Tests, Write
    PROVE  Parts'
<1>1. step \in Nat /\ Done
  BY DEF Parts, Types, Write
<1>2. CASE Now("idempotent") /\ task' = "idempotent"
  <2>1. Writes("idempotent")
    BY <1>2 DEF Write, Writes
  <2>2. /\ ~Accepting /\ ~Alone /\ Started
        /\ \/ ~Wrote1 /\ Wrote1' /\ ~Crashed /\ (HasGate => Gated) /\ OnlyMoves({"Wrote1"})
           \/ /\ Wrote1 /\ Restarted /\ ~Wrote2 /\ Wrote2' /\ OnlyMoves({"Wrote2"})
              /\ test = "acknowledged" => Stored
    BY <1>1, <1>2, AtIdempotent
  <2>3. CASE ~Wrote1 /\ Wrote1' /\ ~Crashed /\ (HasGate => Gated) /\ OnlyMoves({"Wrote1"})
    BY <1>1, <1>2, <2>1, <2>2, <2>3, WriteFirst
  <2>4. CASE /\ Wrote1 /\ Restarted /\ ~Wrote2 /\ Wrote2' /\ OnlyMoves({"Wrote2"})
             /\ test = "acknowledged" => Stored
    <3>1. ~Applied2 /\ ~Wrote3 /\ ~Applied3
      BY <1>1, <2>4, Order
    <3>2. QED
      BY <1>1, <1>2, <2>1, <2>2, <2>4, <3>1, WriteAgain
  <2>5. QED
    BY <2>2, <2>3, <2>4
<1>3. CASE Now("increment") /\ task' = "increment"
  <2>1. Writes("increment")
    BY <1>3 DEF Write, Writes
  <2>2. /\ ~Accepting /\ Started
        /\ \/ Alone /\ ~Wrote1 /\ Wrote1' /\ Gated /\ OnlyMoves({"Wrote1"})
           \/ /\ Alone /\ Settled /\ Released /\ ~Wrote2 /\ Wrote2' /\ ~Applied2
              /\ (OneWrite \/ test = "cancelled") /\ OnlyMoves({"Wrote2"})
           \/ /\ ~Alone /\ Applied2 /\ (Stored \/ test = "after") /\ ~Wrote3 /\ Wrote3' /\ ~Applied3
              /\ Restarted /\ OnlyMoves({"Wrote3"})
    BY <1>1, <1>3, AtIncrement
  <2>3. CASE Alone /\ ~Wrote1 /\ Wrote1' /\ Gated /\ OnlyMoves({"Wrote1"})
    BY <1>1, <1>3, <2>1, <2>2, <2>3, WriteFirst
  <2>4. CASE /\ Alone /\ Settled /\ Released /\ ~Wrote2 /\ Wrote2' /\ ~Applied2
             /\ (OneWrite \/ test = "cancelled") /\ OnlyMoves({"Wrote2"})
    <3>1. Wrote1 /\ ~Wrote3 /\ ~Applied3 /\ test # "acknowledged"
      BY <1>1, <2>4, Order DEF Alone
    <3>2. QED
      BY <1>1, <1>3, <2>1, <2>2, <2>4, <3>1, WriteAgain
  <2>5. CASE /\ ~Alone /\ Applied2 /\ (Stored \/ test = "after") /\ ~Wrote3 /\ Wrote3' /\ ~Applied3
             /\ Restarted /\ OnlyMoves({"Wrote3"})
    BY <1>1, <1>3, <2>1, <2>2, <2>5, WriteNew
  <2>6. QED
    BY <2>2, <2>3, <2>4, <2>5
<1>4. QED
  BY <1>2, <1>3 DEF Write

\* A caller that gives up cuts off the exchange that is held, and no other.
LEMMA CancelKeeps ==
    ASSUME IInv, Parts, Types', test \in Tests, Cancel
    PROVE  Parts'
<1>1. Now("cancel") /\ Done /\ step \in Nat
  BY DEF Cancel, Parts, Types
<1>2. test = "cancelled" /\ Caught /\ ~Released /\ ~Broken /\ Broken' /\ ~Settled /\ ~Wrote2 /\ OnlyMoves({"Broken"})
  BY <1>1, AtCancel
<1>3. /\ step' \in Nat /\ test' = test /\ fault' = fault /\ verdict = "running" /\ ~Ended
      /\ verdict' \in {"running", "passed"} /\ (verdict' = "passed" <=> Ended')
  BY <1>1, StepDone
<1>4. /\ UNCHANGED <<gates, seen, caught, release, discarded, at, held, gone, committed, alive, task, offset, place>>
      /\ UNCHANGED <<merged, current, snapshots, carries, early, document>>
      /\ told' = (IF told = "pending" THEN "unknown" ELSE told) /\ orphans' = orphans \cup InFlight
  BY DEF Cancel, vars, gate
<1>5. HasGate /\ ~Accepting /\ Wrote1 /\ Alone /\ ~Applied2 /\ ~Applied3 /\ ~Wrote3
  BY <1>1, <1>2, Order, OrderWithGate DEF HasGate, GatedTests, Accepting, Alone
<1>s. Started
  BY <1>1, <1>2, Order
<1>6. Progress'
  BY <1>2, <1>3, <1>4, <1>5, <1>s DEF Parts, Progress, OnlyMoves
<1>7. Gate'
  BY <1>2, <1>3, <1>4 DEF Parts, Gate, OnlyMoves, HasGate, G, Sent, Until
<1>f. InFlight \subseteq {1}
  <2>1. Until(1)
    BY <1>2 DEF Parts, Carrying
  <2>2. ASSUME NEW r \in Requests, r # 1 PROVE at[r] = "unsent"
    <3>1. r > 1
      BY <2>2, RequestFacts
    <3>2. QED
      BY <2>1, <3>1 DEF Until
  <2>3. QED
    BY <2>2 DEF InFlight
<1>8. Fate'
  BY <1>2, <1>3, <1>4, <1>f DEF Parts, Fate, OnlyMoves
<1>9. Carrying'
  BY <1>2, <1>3, <1>4 DEF Parts, Carrying, OnlyMoves, Sent, Until, Alone, Accepting
<1>10. Told'
  BY <1>2, <1>3, <1>4, <1>5 DEF Parts, Told, OnlyMoves, HasGate, Accepting
<1>11. Documents'
  BY <1>2, <1>3, <1>4 DEF Parts, Documents, OnlyMoves, Alone, Accepting, Increments, Count, Until, Sent
<1>12. Accepted'
  BY <1>3, <1>5 DEF Accepted, Accepting
<1>13. QED
  BY <1>6, <1>7, <1>8, <1>9, <1>10, <1>11, <1>12 DEF Parts

\* A candidate that starts finds the place where the last one stopped.
LEMMA StartKeeps ==
    ASSUME IInv, Parts, Types', test \in Tests, Start
    PROVE  Parts'
<1>1. Now("start") /\ Done /\ step \in Nat
  BY DEF Start, Parts, Types
<1>3. /\ step' \in Nat /\ test' = test /\ fault' = fault /\ verdict = "running" /\ ~Ended
      /\ verdict' \in {"running", "passed"} /\ (verdict' = "passed" <=> Ended')
  BY <1>1, StepDone
<1>4. /\ UNCHANGED <<gates, seen, caught, release, discarded, at, held, gone, committed, task, offset>>
      /\ UNCHANGED <<told, merged, current, snapshots, carries, early, document, orphans>>
      /\ alive' = TRUE /\ place' \in (IF fault = "place" THEN {0, 1} ELSE {offset})
  BY DEF Start, vars, gate
<1>5. CASE ~Started /\ Started' /\ ~Crashed /\ OnlyMoves({"Started"})
  <2>1. ~Restarted /\ ~Wrote1
    BY <1>1, <1>5, Order
  <2>2. Progress'
    BY <1>3, <1>4, <1>5 DEF Parts, Progress, OnlyMoves
  <2>3. Gate'
    BY <1>3, <1>4, <1>5 DEF Parts, Gate, OnlyMoves, HasGate, G, Sent, Until
  <2>4. Fate'
    BY <1>3, <1>4, <1>5 DEF Parts, Fate, OnlyMoves
  <2>5. Carrying'
    BY <1>3, <1>4, <1>5 DEF Parts, Carrying, OnlyMoves, Sent, Until, Alone, Accepting
  <2>6. Told'
    BY <1>3, <1>4, <1>5 DEF Parts, Told, OnlyMoves, HasGate, Accepting
  <2>7. Documents'
    BY <1>3, <1>4, <1>5 DEF Parts, Documents, OnlyMoves, Alone, Accepting, Increments, Count, Until, Sent
  <2>8. Accepted'
    BY <1>3, <1>4, <1>5, <2>1 DEF Parts, Types, Progress, Accepted, OnlyMoves, HasGate, Accepting, Until, Sent
  <2>9. QED
    BY <2>2, <2>3, <2>4, <2>5, <2>6, <2>7, <2>8 DEF Parts
<1>6. CASE Started /\ Crashed /\ ~Restarted /\ Restarted' /\ (HasGate => Released) /\ OnlyMoves({"Restarted"})
  <2>1. task = "none"
    BY <1>6 DEF Parts, Progress
  <2>2. Progress'
    BY <1>3, <1>4, <1>6 DEF Parts, Progress, OnlyMoves
  <2>3. Gate'
    BY <1>3, <1>4, <1>6 DEF Parts, Gate, OnlyMoves, HasGate, G, Sent, Until
  <2>4. Fate'
    BY <1>3, <1>4, <1>6 DEF Parts, Fate, OnlyMoves
  <2>5. Carrying'
    BY <1>3, <1>4, <1>6, <2>1 DEF Parts, Carrying, OnlyMoves, Sent, Until, Alone, Accepting
  <2>6. Told'
    BY <1>3, <1>4, <1>6 DEF Parts, Told, OnlyMoves, HasGate, Accepting
  <2>7. Documents'
    BY <1>3, <1>4, <1>6 DEF Parts, Documents, OnlyMoves, Alone, Accepting, Increments, Count, Until, Sent
  <2>8. ASSUME Accepting PROVE Accepted'
    <3>1. at[2] = "unsent" /\ ~Sent(2) /\ Until(1)
      BY <1>6, <2>8, RequestFacts DEF Parts, Accepted, Until, Sent
    <3>2. /\ offset \in 0..1 /\ place' \in 0..1 /\ (fault # "early" /\ HasGate => offset = 0)
          /\ Until(2) /\ Sent(1) /\ (fault # "place" => place' = offset)
          /\ (early => offset >= 1)
      BY <1>4, <1>6, <2>8 DEF Parts, Accepted, Types
    <3>3. /\ snapshots = (IF Crashed THEN 1 ELSE 0) +
               (IF merged \/ (IF Crashed THEN ~Until(1) ELSE Sent(1)) THEN 1 ELSE 0)
          /\ (fault # "place" /\ (early \/ test = "acceptedOffset") => offset >= 1)
          /\ (Offset => offset >= 1) /\ ~Drained
      BY <1>1, <1>6, <2>8, Order DEF Parts, Accepted
    <3>4. QED
      BY <1>3, <1>4, <1>6, <2>1, <3>1, <3>2, <3>3 DEF Accepted, OnlyMoves, HasGate, Accepting, Until, Sent
  <2>a. Accepted'
    BY <1>3, <2>8 DEF Accepted, Accepting
  <2>9. QED
    BY <2>2, <2>3, <2>4, <2>5, <2>6, <2>7, <2>a DEF Parts
<1>7. QED
  BY <1>1, <1>5, <1>6, AtStart

\* The test registers its gate, and lets go of what the gate has caught.
LEMMA GatingKeeps ==
    ASSUME IInv, Parts, Types', test \in Tests, Gating
    PROVE  Parts'
<1>1. Done /\ step \in Nat /\ HasGate /\ G = GateOf(test)
  BY DEF Gating, Parts, Types, HasGate, G
<1>2. /\ UNCHANGED <<alive, task, told, offset, place, merged, current, snapshots, carries, early, document, orphans>>
  BY DEF Gating, candidate
<1>3. ASSUME NEW n, Now(n)
      PROVE  /\ step' \in Nat /\ test' = test /\ fault' = fault /\ verdict = "running" /\ ~Ended
             /\ verdict' \in {"running", "passed"} /\ (verdict' = "passed" <=> Ended')
  BY <1>1, <1>3, StepDone
<1>4. ASSUME NEW n, Now(n), UNCHANGED <<at, held, gone, committed, caught, seen>>, Gate',
             NEW S \in {{"Gated"}, {"Released"}}, OnlyMoves(S), S = {"Released"} => Released'
      PROVE  Parts'
  <2>1. /\ step' \in Nat /\ test' = test /\ fault' = fault /\ verdict = "running" /\ ~Ended
        /\ verdict' \in {"running", "passed"} /\ (verdict' = "passed" <=> Ended')
    BY <1>3, <1>4
  <2>2. Progress'
    BY <1>2, <1>4, <2>1 DEF Parts, Progress, OnlyMoves
  <2>4. Fate'
    BY <1>2, <1>4, <2>1 DEF Parts, Fate, OnlyMoves
  <2>5. Carrying'
    BY <1>2, <1>4, <2>1 DEF Parts, Carrying, OnlyMoves, Sent, Until, Alone, Accepting
  <2>6. Told'
    BY <1>2, <1>4, <2>1 DEF Parts, Told, OnlyMoves, HasGate, Accepting
  <2>7. Documents'
    BY <1>2, <1>4, <2>1 DEF Parts, Documents, OnlyMoves, Alone, Accepting, Increments, Count, Until, Sent
  <2>8. Accepted'
    BY <1>2, <1>4, <2>1 DEF Parts, Accepted, OnlyMoves, HasGate, Accepting, Until, Sent
  <2>9. QED
    BY <2>2, <1>4, <2>4, <2>5, <2>6, <2>7, <2>8 DEF Parts
<1>5. CASE Now("hold") /\ Hold(GateOf(test))
  <2>1. ~Gated /\ Gated' /\ OnlyMoves({"Gated"})
    BY <1>1, <1>5, AtHold
  <2>2. gates' = Append(gates, G) /\ UNCHANGED <<seen, release, discarded, caught, at, held, gone, committed>>
    BY <1>1, <1>5 DEF Hold
  <2>3. gates = <<>>
    BY <2>1 DEF Parts, Gate
  <2>4. gates' = <<G>>
    BY <2>2, <2>3
  <2>5. test' = test /\ verdict = "running" /\ G' = G /\ (HasGate' <=> HasGate)
    BY <1>3, <1>5 DEF G, HasGate
  <2>6. Gate'
    BY <1>1, <2>1, <2>2, <2>4, <2>5 DEF Parts, Gate, OnlyMoves, Sent, Until
  <2>7. QED
    BY <1>4, <1>5, <2>1, <2>2, <2>6
<1>6. CASE Now("discard") /\ Discard(GateOf(test))
  <2>1. test \in {"before", "acceptedBefore"} /\ ~Released /\ Released' /\ OnlyMoves({"Released"})
    BY <1>1, <1>6, AtDiscard
  <2>2. /\ release' = [release EXCEPT ![G] = "marked"] /\ discarded' = discarded \cup {G}
        /\ UNCHANGED <<gates, seen, caught, at, held, gone, committed>>
    BY <1>1, <1>6 DEF Discard
  <2>3. G = first /\ G \in Gates
    BY <1>1, <2>1, GateFacts DEF HasGate
  <2>4. \A g \in Gates : g # G => release'[g] = release[g]
    BY <2>2 DEF IInv, Core, TypeOK
  <2>5. test' = test /\ verdict = "running" /\ G' = G /\ (HasGate' <=> HasGate)
    BY <1>3, <1>6 DEF G, HasGate
  <2>6. Gate'
    BY <1>1, <2>1, <2>2, <2>3, <2>4, <2>5 DEF Parts, Gate, OnlyMoves, Sent, Until
  <2>7. QED
    BY <1>4, <1>6, <2>1, <2>2, <2>6
<1>7. CASE Now("open") /\ Open(GateOf(test))
  <2>1. test \notin {"before", "acceptedBefore"} /\ ~Released /\ Released' /\ OnlyMoves({"Released"})
    BY <1>1, <1>7, AtOpen
  <2>2. /\ release' = [release EXCEPT ![G] = "open"]
        /\ UNCHANGED <<gates, seen, discarded, caught, at, held, gone, committed>>
    BY <1>1, <1>7 DEF Open
  <2>3. G # first /\ G \in Gates
    BY <1>1, <2>1, GateFacts DEF HasGate
  <2>4. \A g \in Gates : g # G => release'[g] = release[g]
    BY <2>2 DEF IInv, Core, TypeOK
  <2>5. test' = test /\ verdict = "running" /\ G' = G /\ (HasGate' <=> HasGate)
    BY <1>3, <1>7 DEF G, HasGate
  <2>6. Gate'
    BY <1>1, <2>1, <2>2, <2>3, <2>4, <2>5 DEF Parts, Gate, OnlyMoves, Sent, Until
  <2>7. QED
    BY <1>4, <1>7, <2>1, <2>2, <2>6
<1>8. QED
  BY <1>5, <1>6, <1>7 DEF Gating
-----------------------------------------------------------------------------
(* The candidate.                                                          *)

\* Without a step of the script the marks stay.
LEMMA MarksStay ==
    ASSUME UNCHANGED <<test, step>>
    PROVE  OnlyMoves({})
BY DEF After, Passed, Never, OnlyMoves,
     Gated, Caught, Released, Started, Crashed, Broken, Restarted, Wrote1, Acked,
     Settled, Wrote2, Applied2, Wrote3, Applied3, Offset, Drained, Stored, OneWrite, Ended

\* A worker whose script has a crash behind it has crashed.
LEMMA CrashTaken ==
    ASSUME step \in Nat, Accepting, NEW i \in 1..step, Script(test)[i] = "crash"
    PROVE  Crashed
<1> DEFINE B == Script(test)
<1>1. CASE test \in {"acceptedBefore", "acceptedAfter"}
  <2>1. B[1] = "hold" /\ B[2] = "start" /\ B[3] = "caught" /\ B[4] \in {"backend0", "backend1"} /\ B[5] = "uncommitted"
    BY <1>1 DEF Script
  <2>2. Crashed <=> step >= 6
    BY <1>1 DEF Crashed, After, Passed, Never
  <2>3. B[i] = "crash"
    OBVIOUS
  <2>4. i \notin 1..5
    <3> HIDE DEF B
    <3>1. i # 1 /\ i # 2 /\ i # 3 /\ i # 4 /\ i # 5
      BY <2>1, <2>3
    <3>2. QED
      BY <3>1
  <2>5. QED
    BY <2>2, <2>4
<1>2. CASE test = "acceptedOffset"
  <2>1. B[1] = "start" /\ B[2] = "committed" /\ B[3] = "counter1"
    BY <1>2 DEF Script
  <2>2. Crashed <=> step >= 4
    BY <1>2 DEF Crashed, After, Passed, Never
  <2>3. B[i] = "crash"
    OBVIOUS
  <2>4. i \notin 1..3
    <3> HIDE DEF B
    <3>1. i # 1 /\ i # 2 /\ i # 3
      BY <2>1, <2>3
    <3>2. QED
      BY <3>1
  <2>5. QED
    BY <2>2, <2>4
<1>3. QED
  BY <1>1, <1>2 DEF Accepting

\* While the first write is under way there was no crash, and its caller has
\* not been told that its outcome is unknown.
LEMMA FirstUnderWay ==
    ASSUME step \in Nat, test \in Tests, FirstWrite
    PROVE  ~Crashed /\ (HasGate /\ ~Accepting => ~Settled)
<1> DEFINE B == Script(test)
<1> USE DEF Crashed, Settled, After, Passed, Never
<1>0. \A i \in 1..step : B[i] # "crash" /\ B[i] # "unknown"
  BY DEF FirstWrite
<1>1. CASE test \in {"before", "after"}
  <2>1. B[7] = "crash" /\ B[9] = "unknown"
    BY <1>1 DEF Script
  <2> HIDE DEF B
  <2>2. QED
    BY <1>0, <1>1, <2>1
<1>2. CASE test = "acknowledged"
  <2>1. B[4] = "crash"
    BY <1>2 DEF Script
  <2> HIDE DEF B
  <2>2. QED
    BY <1>0, <1>2, <2>1 DEF HasGate, GatedTests
<1>3. CASE test = "lost"
  <2>1. B[8] = "unknown"
    BY <1>3 DEF Script
  <2> HIDE DEF B
  <2>2. QED
    BY <1>0, <1>3, <2>1
<1>4. CASE test = "cancelled"
  <2>1. B[7] = "unknown"
    BY <1>4 DEF Script
  <2> HIDE DEF B
  <2>2. QED
    BY <1>0, <1>4, <2>1
<1>5. CASE test \in {"acceptedBefore", "acceptedAfter"}
  <2>1. B[6] = "crash"
    BY <1>5 DEF Script
  <2> HIDE DEF B
  <2>2. QED
    BY <1>0, <1>5, <2>1
<1>6. CASE test = "acceptedOffset"
  <2>1. B[4] = "crash"
    BY <1>6 DEF Script
  <2> HIDE DEF B
  <2>2. QED
    BY <1>0, <1>6, <2>1
<1>7. QED
  BY <1>1, <1>2, <1>3, <1>4, <1>5, <1>6 DEF Tests, GatedTests

\* What a candidate at work knows of the script.
LEMMA AtWork ==
    ASSUME Parts, test \in Tests, Working, ByCandidate
    PROVE  /\ OnlyMoves({}) /\ UNCHANGED <<test, step, fault, verdict, document, orphans>>
           /\ step \in Nat /\ verdict = "running" /\ ~Ended /\ alive /\ Started /\ (Crashed => Restarted)
           /\ (Broken => Crashed \/ test = "cancelled")
           /\ (Released => Crashed \/ Alone)
           /\ ~Alone /\ ~Broken => orphans = {} /\ ~Crashed
<1>1. UNCHANGED <<test, step, fault, verdict, document, orphans>>
  BY DEF ByCandidate, script
<1>2. OnlyMoves({})
  BY <1>1, MarksStay
<1>3. verdict = "running" /\ step \in Nat /\ alive /\ ~Ended /\ Started /\ (Crashed => Restarted)
  BY DEF Working, Parts, Types, Progress
<1>4. CASE Accepting
  BY <1>1, <1>2, <1>3, <1>4, Order, OrderWhenAccepting DEF Parts, Fate
<1>5. CASE ~Accepting
  <2>1. CASE Alone
    <3>1. test = "lost" => ~Broken
      BY DEF Broken, After, Never, Passed
    <3>2. QED
      BY <1>1, <1>2, <1>3, <2>1, <3>1 DEF Alone
  <2>2. CASE ~Alone
    BY <1>1, <1>2, <1>3, <1>5, <2>2, Order, OrderOfWrites DEF Parts, Fate
  <2>3. QED
    BY <2>1, <2>2
<1>6. QED
  BY <1>4, <1>5

\* A worker that takes its next record keeps the invariant.
LEMMA TakeKeeps ==
    ASSUME IInv, Parts, Types', test \in Tests, Take
    PROVE  Parts'
<1>1. Working /\ ByCandidate /\ Accepting /\ task = "none"
  BY DEF Take
<1>2. /\ OnlyMoves({}) /\ UNCHANGED <<test, step, fault, verdict, document, orphans>>
      /\ step \in Nat /\ verdict = "running" /\ ~Ended /\ alive /\ Started /\ (Crashed => Restarted)
  BY <1>1, AtWork
<1>3. /\ UNCHANGED <<gates, seen, caught, release, discarded, at, held, gone, committed>>
      /\ UNCHANGED <<alive, snapshots, carries, early>>
  BY DEF Take, vars, gate
<1>4. /\ ~Wrote1 /\ ~Settled /\ ~Wrote2 /\ ~Applied2 /\ ~Wrote3 /\ ~Applied3 /\ ~OneWrite /\ ~Acked
      /\ ~Alone /\ test # "lost" /\ (Restarted => Crashed) /\ (Drained => Restarted)
  BY <1>1, <1>2, Order, OrderWhenAccepting DEF Accepting, Alone
<1>5. Gate'
  BY <1>2, <1>3 DEF Parts, Gate, OnlyMoves, HasGate, G, Sent, Until
<1>6. Fate'
  BY <1>2, <1>3 DEF Parts, Fate, OnlyMoves
<1>7. CASE /\ place = 0 /\ task' = "idempotent" /\ told' = "pending"
           /\ merged' = FALSE /\ current' = Nobody
           /\ UNCHANGED <<offset, place>>
  <2>1. Progress'
    BY <1>2, <1>3, <1>7 DEF Parts, Progress, OnlyMoves
  <2>2. ~Crashed => ~Sent(1)
    BY <1>1, <1>7 DEF Parts, Accepted
  <2>3. Crashed => Sent(1) /\ ~Sent(2)
    BY <1>1, <1>2, <1>7 DEF Parts, Accepted, Sent
  <2>4. Carrying'
    BY <1>1, <1>2, <1>3, <1>4, <1>7, <2>2, <2>3, RequestFacts DEF Parts, Carrying, OnlyMoves, Sent, Until, Alone, Accepting
  <2>5. Told'
    BY <1>1, <1>2, <1>3, <1>4, <1>7 DEF Parts, Told, OnlyMoves, HasGate, Accepting
  <2>6. Documents'
    BY <1>1, <1>2, <1>3, <1>4, <1>7 DEF Parts, Documents, OnlyMoves, Alone, Accepting, Increments, Count, Until, Sent
  <2>7. ~merged
    BY <1>1 DEF Parts, Carrying, Types
  <2>8. /\ offset < 2 /\ ~(Crashed /\ fault # "place" /\ (early \/ test = "acceptedOffset"))
    BY <1>1, <1>2, <1>7 DEF Parts, Accepted, Types
  <2>9. Accepted'
    BY <1>1, <1>2, <1>3, <1>4, <1>7, <2>2, <2>3, <2>7, <2>8
    DEF Parts, Accepted, OnlyMoves, HasGate, Accepting, Until, Sent
  <2>10. QED
    BY <1>5, <1>6, <2>1, <2>4, <2>5, <2>6, <2>9 DEF Parts
<1>8. CASE /\ place = 1 /\ \E i \in 1..step : Script(test)[i] = "crash"
           /\ offset' = 2 /\ place' = 2 /\ UNCHANGED <<task, told, merged, current>>
  <2>1. Progress'
    BY <1>2, <1>3, <1>8 DEF Parts, Progress, OnlyMoves
  <2>2. Crashed /\ Restarted
    BY <1>1, <1>2, <1>8, CrashTaken
  <2>4. Carrying'
    BY <1>2, <1>3, <1>8 DEF Parts, Carrying, OnlyMoves, Sent, Until, Alone, Accepting
  <2>5. Told'
    BY <1>2, <1>3, <1>8 DEF Parts, Told, OnlyMoves, HasGate, Accepting
  <2>6. Documents'
    BY <1>2, <1>3, <1>8 DEF Parts, Documents, OnlyMoves, Alone, Accepting, Increments, Count, Until, Sent
  <2>9. Accepted'
    BY <1>1, <1>2, <1>3, <1>8, <2>2 DEF Parts, Accepted, OnlyMoves, HasGate, Accepting, Until, Sent
  <2>10. QED
    BY <1>5, <1>6, <2>1, <2>4, <2>5, <2>6, <2>9 DEF Parts
<1>9. QED
  BY <1>7, <1>8 DEF Take

\* An exchange that has failed is the first, in a test that wrote it alone.
LEMMA FailedFirst ==
    ASSUME IInv, Parts, test \in Tests, Working, ByCandidate, NEW r \in Requests, at[r] \in Failures
    PROVE  /\ r = 1 /\ (Crashed \/ Alone)
           /\ HasGate => Broken \/ Released
           /\ test = "lost" => Released
<1>1. /\ step \in Nat /\ (Broken => Crashed \/ test = "cancelled") /\ (Released => Crashed \/ Alone)
  BY AtWork
<1>2. CASE at[r] \in {"abandoned", "failed"}
  <2>1. r \in orphans
    BY <1>2 DEF Parts, Fate
  <2>2. Broken /\ r = 1
    BY <2>1 DEF Parts, Fate
  <2>3. test # "lost"
    BY <2>2 DEF Broken, After, Never, Passed
  <2>4. QED
    BY <1>1, <2>2, <2>3 DEF Alone
<1>3. CASE at[r] = "refused"
  <2>1. r = 1 /\ test \in {"before", "acceptedBefore"} /\ Released
    BY <1>3 DEF Parts, Fate
  <2>2. QED
    BY <1>1, <2>1
<1>4. CASE at[r] = "dropped"
  <2>1. r = 1 /\ test = "lost" /\ Released
    BY <1>4 DEF Parts, Fate
  <2>2. QED
    BY <1>1, <2>1 DEF Alone
<1>5. QED
  BY <1>2, <1>3, <1>4 DEF Failures, Finished

\* A candidate that reads and merges keeps the invariant.
LEMMA ReadKeeps ==
    ASSUME IInv, Parts, Types', test \in Tests, Read
    PROVE  Parts'
<1>1. Working /\ ByCandidate /\ task # "none" /\ ~merged
  BY DEF Read
<1>2. /\ OnlyMoves({}) /\ UNCHANGED <<test, step, fault, verdict, document, orphans>>
      /\ step \in Nat /\ verdict = "running" /\ ~Ended /\ alive /\ Started /\ (Crashed => Restarted)
  BY <1>1, AtWork
<1>3. /\ UNCHANGED <<gates, seen, caught, release, discarded, at, held, gone, committed>>
      /\ UNCHANGED <<alive, task, told, offset, place, current, carries, early>>
      /\ merged' = TRUE /\ snapshots' = snapshots + 1
  BY DEF Read, vars, gate
<1>4. current # Nobody => fault = "replay" /\ Alone /\ current = 1 /\ at[1] \in Failures /\ ~Wrote2
  <2> SUFFICES ASSUME current # Nobody PROVE fault = "replay" /\ Alone /\ current = 1 /\ at[1] \in Failures /\ ~Wrote2
    OBVIOUS
  <2>1. current \in Requests /\ Sent(current) /\ Exchange = at[current]
    BY DEF Parts, Types, Carrying, Exchange
  <2>2. fault = "replay" /\ at[current] \in Failures
    BY <2>1 DEF Read, Failures, Sent
  <2>3. current = 1 /\ (Crashed \/ Alone)
    BY <1>1, <2>1, <2>2, FailedFirst
  <2>4. ~Wrote2 /\ ~Restarted
    BY <1>1, <2>3 DEF Parts, Carrying
  <2>5. QED
    BY <1>2, <2>2, <2>3, <2>4
<1>5. Gate'
  BY <1>2, <1>3 DEF Parts, Gate, OnlyMoves, HasGate, G, Sent, Until
<1>6. Fate'
  BY <1>2, <1>3 DEF Parts, Fate, OnlyMoves
<1>7. Progress'
  BY <1>2, <1>3 DEF Parts, Progress, OnlyMoves
<1>8. Carrying'
  BY <1>1, <1>2, <1>3, <1>4 DEF Parts, Carrying, OnlyMoves, Sent, Until, Alone, Accepting
<1>9. Told'
  BY <1>2, <1>3 DEF Parts, Told, OnlyMoves, HasGate, Accepting
<1>10. Documents'
  BY <1>2, <1>3 DEF Parts, Documents, OnlyMoves, Alone, Accepting, Increments, Count, Until, Sent
<1>11. ASSUME Accepting PROVE Accepted'
  <2>1. current = Nobody
    BY <1>4, <1>11 DEF Accepting, Alone
  <2>2. ~Crashed => ~Sent(1)
    BY <1>1, <1>2, <1>11, <2>1, OrderWhenAccepting DEF Parts, Carrying
  <2>3. Crashed => ~Sent(2)
    BY <1>1, <1>2, <1>11, <2>1, RequestFacts DEF Parts, Accepted
  <2>4. Crashed => Until(1)
    BY <2>3, RequestFacts DEF Parts, Carrying, Until, Sent
  <2>5. snapshots = (IF Crashed THEN 1 ELSE 0)
    BY <1>1, <1>11, <2>2, <2>4 DEF Parts, Accepted
  <2>6. snapshots' = (IF Crashed THEN 1 ELSE 0) + 1
    BY <1>3, <2>5
  <2>7. QED
    BY <1>1, <1>2, <1>3, <1>11, <2>6 DEF Parts, Accepted, OnlyMoves, HasGate, Accepting, Until, Sent
<1>12. Accepted'
  BY <1>2, <1>11 DEF Accepted, Accepting
<1>13. QED
  BY <1>5, <1>6, <1>7, <1>8, <1>9, <1>10, <1>12 DEF Parts

\* A candidate that acknowledges too early keeps the invariant: it has broken
\* its promise, and the invariant knows.
LEMMA HastenKeeps ==
    ASSUME IInv, Parts, Types', test \in Tests, Hasten
    PROVE  Parts'
<1>1. Working /\ ByCandidate /\ fault = "early" /\ task # "none" /\ told = "pending" /\ offset = 0
  BY DEF Hasten
<1>2. /\ OnlyMoves({}) /\ UNCHANGED <<test, step, fault, verdict, document, orphans>>
      /\ step \in Nat /\ verdict = "running" /\ ~Ended /\ alive /\ Started /\ (Crashed => Restarted)
  BY <1>1, AtWork
<1>3. /\ UNCHANGED <<gates, seen, caught, release, discarded, at, held, gone, committed>>
      /\ UNCHANGED <<alive, task, merged, snapshots, current, carries>>
      /\ told' = "applied" /\ early' = (early \/ FirstWrite)
      /\ IF Accepting THEN offset' = 1 /\ place' = 1 ELSE UNCHANGED <<offset, place>>
  BY <1>1 DEF Hasten, Tell, vars, gate
<1>4. FirstWrite => ~Crashed /\ (HasGate /\ ~Accepting => ~Settled)
  BY <1>2, FirstUnderWay
<1>5. Gate'
  BY <1>2, <1>3 DEF Parts, Gate, OnlyMoves, HasGate, G, Sent, Until
<1>6. Fate'
  BY <1>2, <1>3 DEF Parts, Fate, OnlyMoves
<1>7. Progress'
  BY <1>2, <1>3 DEF Parts, Progress, OnlyMoves
<1>8. Carrying'
  BY <1>2, <1>3 DEF Parts, Carrying, OnlyMoves, Sent, Until, Alone, Accepting
<1>9. Told'
  <2>1. ~(early /\ HasGate /\ ~Accepting)
    BY <1>1 DEF Parts, Told
  <2>2. early' /\ HasGate /\ ~Accepting => ~Settled
    BY <1>3, <1>4, <2>1 DEF Parts, Types
  <2>3. ~Accepting => Wrote1
    BY <1>1 DEF Parts, Carrying
  <2>4. ~(test = "lost" /\ Settled /\ ~Wrote2)
    BY <1>1 DEF Parts, Told
  <2>5. QED
    BY <1>1, <1>2, <1>3, <2>2, <2>3, <2>4 DEF Parts, Told, OnlyMoves, HasGate, Accepting
<1>10. Documents'
  BY <1>2, <1>3 DEF Parts, Documents, OnlyMoves, Alone, Accepting, Increments, Count, Until, Sent
<1>11. ASSUME Accepting PROVE Accepted'
  <2>1. ~early /\ place = 0 /\ ~Drained /\ ~Offset
    BY <1>1, <1>2, <1>11 DEF Parts, Accepted
  <2>2. early' => ~Crashed
    BY <1>3, <1>4, <2>1
  <2>3. test = "acceptedOffset" => ~Crashed
    BY <1>1, <1>11 DEF Parts, Accepted
  <2>4. QED
    BY <1>1, <1>2, <1>3, <1>11, <2>1, <2>2, <2>3 DEF Parts, Accepted, OnlyMoves, HasGate, Accepting, Until, Sent
<1>12. Accepted'
  BY <1>2, <1>11 DEF Accepted, Accepting
<1>13. QED
  BY <1>5, <1>6, <1>7, <1>8, <1>9, <1>10, <1>12 DEF Parts

\* What a candidate tells its caller at the end of an exchange is true.
LEMMA SettleKeeps ==
    ASSUME IInv, Parts, Types', test \in Tests, Settle
    PROVE  Parts'
<1>1. Working /\ ByCandidate /\ task # "none" /\ ~merged /\ Exchange \in Finished
  BY DEF Settle
<1>2. /\ OnlyMoves({}) /\ UNCHANGED <<test, step, fault, verdict, document, orphans>>
      /\ step \in Nat /\ verdict = "running" /\ ~Ended /\ alive /\ Started /\ (Crashed => Restarted)
      /\ (Broken => Crashed \/ test = "cancelled") /\ (Released => Crashed \/ Alone)
  BY <1>1, AtWork
<1>3. /\ UNCHANGED <<gates, seen, caught, release, discarded, at, held, gone, committed>>
      /\ UNCHANGED <<alive, merged, snapshots, current, carries, early>>
      /\ task' = "none"
      /\ told' = (IF told # "pending" THEN told ELSE IF Exchange = "answered" THEN "applied" ELSE "unknown")
      /\ IF Accepting /\ Exchange = "answered" THEN offset' = 1 /\ place' = 1 ELSE UNCHANGED <<offset, place>>
  BY DEF Settle, Tell, vars, gate
<1>4. current \in Requests /\ Sent(current) /\ Exchange = at[current] /\ current # Nobody
  BY <1>1, RequestFacts DEF Parts, Types, Carrying, Exchange, Finished
<1>5. at[current] = "answered" \/ at[current] \in Failures
  BY <1>1, <1>4 DEF Failures
<1>6. at[current] \in Failures => current = 1 /\ (Crashed \/ Alone) /\ (HasGate => Broken \/ Released) /\ ~Wrote2 /\ ~Restarted
  <2> SUFFICES ASSUME at[current] \in Failures
               PROVE  current = 1 /\ (Crashed \/ Alone) /\ (HasGate => Broken \/ Released) /\ ~Wrote2 /\ ~Restarted
    OBVIOUS
  <2>1. current = 1 /\ (Crashed \/ Alone) /\ (HasGate => Broken \/ Released)
    BY <1>1, <1>4, FailedFirst
  <2>2. QED
    BY <1>1, <2>1 DEF Parts, Carrying
<1>7. Gate'
  BY <1>2, <1>3 DEF Parts, Gate, OnlyMoves, HasGate, G, Sent, Until
<1>8. Fate'
  BY <1>2, <1>3 DEF Parts, Fate, OnlyMoves
<1>9. Progress'
  BY <1>2, <1>3 DEF Parts, Progress, OnlyMoves
<1>10. Carrying'
  BY <1>1, <1>2, <1>3 DEF Parts, Carrying, OnlyMoves, Sent, Until, Alone, Accepting
<1>o. Until(1) => current = 1
  BY <1>4, RequestFacts DEF Until, Sent
<1>11. Told'
  <2>1. fault # "early" /\ HasGate /\ Wrote1 /\ ~Broken => Released
    <3> SUFFICES ASSUME HasGate, Wrote1, ~Broken, ~Released PROVE FALSE
      OBVIOUS
    <3>1. ~Wrote2
      <4>1. CASE Accepting
        BY <1>2, <4>1, OrderWhenAccepting
      <4>2. CASE ~Accepting
        BY <1>2, <4>2, OrderWithGate DEF HasGate
      <4>3. QED
        BY <4>1, <4>2
    <3>2. Until(1)
      BY <3>1 DEF Parts, Carrying
    <3>3. at[1] = "answered"
      BY <1>5, <1>6, <1>o, <3>2
    <3>4. QED
      BY <3>3 DEF Parts, Gate
  <2>2. test = "lost" /\ fault \notin {"early", "replay"} /\ ~Wrote2 => told' # "applied"
    <3> SUFFICES ASSUME test = "lost", fault \notin {"early", "replay"}, ~Wrote2 PROVE told' # "applied"
      OBVIOUS
    <3>1. ~Broken
      BY DEF Broken, After, Never, Passed
    <3>2. Until(1)
      BY <3>1 DEF Parts, Carrying
    <3>3. at[current] # "answered"
      BY <1>o, <3>2 DEF Parts, Gate, HasGate, GatedTests
    <3>4. QED
      BY <1>3, <1>4, <3>3 DEF Parts, Told
  <2>3. ~Accepting /\ (Wrote2 \/ (test = "acknowledged" /\ ~Crashed)) => told' # "unknown"
    <3> SUFFICES ASSUME ~Accepting, Wrote2 \/ (test = "acknowledged" /\ ~Crashed) PROVE told' # "unknown"
      OBVIOUS
    <3>1. at[current] \notin Failures
      BY <1>6 DEF Alone
    <3>2. QED
      BY <1>3, <1>4, <1>5, <3>1 DEF Parts, Told
  <2>4. fault # "early" /\ ~Accepting /\ told' = "applied" /\ (Crashed => Wrote2) => at[current] = "answered"
    BY <1>3, <1>4 DEF Parts, Told
  <2>5. /\ fault # "early" /\ HasGate /\ ~Accepting /\ Broken /\ ~Wrote2 => told' = "unknown"
        /\ test = "lost" /\ Settled /\ ~Wrote2 => told' = "unknown"
        /\ early /\ HasGate /\ ~Accepting => told' = "applied" /\ ~Settled
        /\ Applied3 \/ (Applied2 /\ ~Wrote3) => told' = "applied"
    BY <1>3 DEF Parts, Told
  <2>6. /\ early => fault = "early"
        /\ ~Accepting /\ ~Wrote1 => ~early
        /\ fault # "early" /\ Acked => 1 \in committed
    BY DEF Parts, Told
  <2>7. /\ (Alone' <=> Alone) /\ (Accepting' <=> Accepting) /\ (HasGate' <=> HasGate)
    BY <1>2 DEF Alone, Accepting, HasGate
  <2>8. QED
    BY <1>2, <1>3, <1>4, <2>1, <2>2, <2>3, <2>4, <2>5, <2>6, <2>7 DEF Told, OnlyMoves
<1>12. Documents'
  BY <1>2, <1>3 DEF Parts, Documents, OnlyMoves, Alone, Accepting, Increments, Count, Until, Sent
<1>13. ASSUME Accepting PROVE Accepted'
  <2>1. at[current] = "answered"
    <3>1. ~Alone /\ ~Restarted => ~Crashed
      BY <1>2
    <3>2. QED
      BY <1>2, <1>5, <1>6, <1>13 DEF Alone, Accepting
  <2>2. offset' = 1 /\ place' = 1 /\ offset < 2 /\ ~Drained
    BY <1>1, <1>3, <1>4, <1>13, <2>1 DEF Parts, Accepted, Types
  <2>3. CASE ~Crashed
    <3>1. current = 1 /\ ~Restarted
      BY <1>1, <1>2, <1>4, <1>13, <2>3, <1>o, Order DEF Parts, Accepted
    <3>2. ~HasGate
      BY <1>2, <1>13, <2>1, <2>3, <3>1 DEF Parts, Gate, Alone, Accepting
    <3>3. QED
      BY <1>1, <1>2, <1>3, <1>13, <2>1, <2>2, <2>3, <3>1, <3>2
      DEF Parts, Accepted, OnlyMoves, HasGate, Accepting, Until, Sent
  <2>4. CASE Crashed
    <3>1. Restarted
      BY <1>2, <2>4
    <3>2. current # 1 /\ Until(2)
      BY <1>1, <1>13, <3>1 DEF Parts, Carrying, Accepted
    <3>3. current = 2
      BY <1>4, <3>2, RequestFacts DEF Until, Sent
    <3>4. QED
      BY <1>1, <1>2, <1>3, <1>13, <2>1, <2>2, <2>4, <3>1, <3>3
      DEF Parts, Accepted, OnlyMoves, HasGate, Accepting, Until, Sent
  <2>5. QED
    BY <2>3, <2>4
<1>14. Accepted'
  BY <1>2, <1>13 DEF Accepted, Accepting
<1>15. QED
  BY <1>7, <1>8, <1>9, <1>10, <1>11, <1>12, <1>14 DEF Parts

\* What Send assigns when it sends exchange r.
Sends(r) ==
    /\ at[r] = "unsent" /\ \A q \in 1..(r - 1) : at[q] # "unsent"
    /\ Arrive(r)
    /\ current' = r /\ carries' = [carries EXCEPT ![r] = task]

\* The first exchange of a test, or of a crashed worker, and no other, is sent
\* where the script allows one only.
LEMMA SendsWhich ==
    ASSUME IInv, Parts, test \in Tests, Working, ByCandidate, task # "none", merged,
           NEW r \in Requests, Sends(r)
    PROVE  /\ r # 1 => Sent(1) /\ (~Accepting => Wrote1)
           /\ (r = 1 <=> ~Sent(1)) /\ (r = 2 => ~Sent(2)) /\ (r > 2 => Sent(2))
           /\ current # Nobody => fault = "replay" /\ Alone /\ current = 1 /\ at[1] \in Failures /\ ~Wrote2 /\ (Broken \/ Released) /\ r # 1
           /\ current = Nobody /\ ~Wrote2 /\ ~Crashed => r = 1
           /\ Wrote2 \/ Restarted => r # 1
           /\ Accepting => r = IF Crashed THEN 2 ELSE 1
           /\ Alone /\ Wrote2 /\ (fault # "replay" \/ OneWrite) => r = 2
           /\ Alone /\ ~Wrote2 /\ (fault # "replay" \/ OneWrite) => r = 1
<1>1. /\ step \in Nat /\ (Crashed => Restarted)
  BY AtWork
<1>2. at[r] = "unsent" /\ \A q \in 1..(r - 1) : at[q] # "unsent"
  BY DEF Sends
<1>3. (r = 1 <=> ~Sent(1)) /\ (r = 2 => ~Sent(2)) /\ (r > 2 => Sent(2))
  BY <1>2, RequestFacts DEF Sent
<1>4. current # Nobody => fault = "replay" /\ Alone /\ current = 1 /\ at[1] \in Failures /\ ~Wrote2
  BY DEF Parts, Carrying
<1>5. current # Nobody => (Broken \/ Released) /\ r # 1 /\ (test = "lost" => Released)
  BY <1>3, <1>4, FailedFirst, RequestFacts DEF Failures, Finished, Sent, Alone, HasGate, GatedTests
<1>6. current = Nobody /\ ~Wrote2 /\ ~Crashed => r = 1
  BY <1>3 DEF Parts, Carrying
<1>7. Wrote2 \/ Restarted => r # 1
  BY <1>3 DEF Parts, Carrying
<1>8. ASSUME Accepting PROVE r = IF Crashed THEN 2 ELSE 1
  <2>1. current = Nobody /\ ~Wrote2
    BY <1>1, <1>4, <1>8, OrderWhenAccepting DEF Alone, Accepting
  <2>2. CASE ~Crashed
    BY <1>6, <2>1, <2>2
  <2>3. CASE Crashed
    <3>1. ~Sent(2) /\ Sent(1)
      BY <1>1, <1>8, <2>1, <2>3, RequestFacts DEF Parts, Accepted
    <3>2. r = 2
      BY <1>3, <3>1, RequestFacts
    <3>3. QED
      BY <2>3, <3>2
  <2>4. QED
    BY <2>2, <2>3
<1>9. ASSUME Alone, Wrote2, fault # "replay" \/ OneWrite PROVE r = 2
  <2>1. current = Nobody
    BY <1>4, <1>9
  <2>2. ~Sent(2)
    BY <1>9, <2>1, RequestFacts DEF Parts, Documents
  <2>3. r # 1
    BY <1>7, <1>9
  <2>4. QED
    BY <1>3, <2>2, <2>3, RequestFacts
<1>10. ASSUME Alone, ~Wrote2, fault # "replay" \/ OneWrite PROVE r = 1
  <2>1. ~OneWrite
    <3>1. OneWrite => test = "lost" /\ Settled
      BY <1>1, Order DEF OneWrite, After, Never, Passed
    <3>2. OneWrite => told = "unknown" /\ Wrote1
      BY <1>1, <1>10, <3>1, Order DEF Parts, Told
    <3>3. QED
      BY <1>10, <3>1, <3>2 DEF Parts, Told
  <2>2. current = Nobody
    BY <1>4, <1>10, <2>1
  <2>3. ~Crashed
    BY <1>1, <1>10, OrderOfWrites DEF Alone, Accepting
  <2>4. QED
    BY <1>6, <1>10, <2>2, <2>3
<1>11. ~Accepting => Wrote1
  BY DEF Parts, Carrying
<1>12. QED
  BY <1>3, <1>4, <1>5, <1>6, <1>7, <1>8, <1>9, <1>10, <1>11

\* The first exchange a candidate sends is the one the gate catches.
LEMMA SendKeeps ==
    ASSUME IInv, Parts, Types', test \in Tests, Send
    PROVE  Parts'
<1>1. Working /\ ByCandidate /\ merged /\ task # "none"
  BY DEF Send, Parts, Carrying
<1>2. /\ OnlyMoves({}) /\ UNCHANGED <<test, step, fault, verdict, document, orphans>>
      /\ step \in Nat /\ verdict = "running" /\ ~Ended /\ alive /\ Started /\ (Crashed => Restarted)
  BY <1>1, AtWork
<1>3. PICK r \in Requests : Sends(r)
  BY DEF Send, Sends
<1>4. /\ UNCHANGED <<gates, release, discarded, gone, committed>>
      /\ at[r] = "unsent" /\ at' = [at EXCEPT ![r] = "request"]
      /\ seen' = Counted(r, FALSE)
      /\ held' = [held EXCEPT ![r] = Catching(r, FALSE)]
      /\ caught' = [g \in Gates |-> IF g \in Catching(r, FALSE) THEN r ELSE caught[g]]
      /\ current' = r /\ carries' = [carries EXCEPT ![r] = task]
  BY <1>3 DEF Sends, Arrive
<1>5. /\ UNCHANGED <<alive, task, told, offset, place, snapshots, early>> /\ merged' = FALSE
  BY DEF Send
<1>6. /\ r # 1 => Sent(1) /\ (~Accepting => Wrote1)
      /\ (r = 1 <=> ~Sent(1)) /\ (r = 2 => ~Sent(2)) /\ (r > 2 => Sent(2))
      /\ current # Nobody => fault = "replay" /\ Alone /\ current = 1 /\ at[1] \in Failures /\ ~Wrote2 /\ (Broken \/ Released) /\ r # 1
      /\ current = Nobody /\ ~Wrote2 /\ ~Crashed => r = 1
      /\ Wrote2 \/ Restarted => r # 1
      /\ Accepting => r = IF Crashed THEN 2 ELSE 1
      /\ Alone /\ Wrote2 /\ (fault # "replay" \/ OneWrite) => r = 2
      /\ Alone /\ ~Wrote2 /\ (fault # "replay" \/ OneWrite) => r = 1
  BY <1>1, <1>3, SendsWhich
<1>7. /\ at'[r] = "request" /\ \A q \in Requests : q # r => at'[q] = at[q]
      /\ carries'[r] = task /\ \A q \in Requests : q # r => carries'[q] = carries[q]
      /\ held'[r] = Catching(r, FALSE) /\ \A q \in Requests : q # r => held'[q] = held[q]
  BY <1>4 DEF IInv, Core, TypeOK, Parts, Types
<1>8. Sent(r)' /\ \A q \in Requests : q # r => (Sent(q)' <=> Sent(q))
  BY <1>7 DEF Sent
<1>9. \A q \in Requests : q < r => Sent(q)
  BY <1>3, RequestFacts DEF Sends, Sent
<1>10. /\ (Alone' <=> Alone) /\ (Accepting' <=> Accepting) /\ (HasGate' <=> HasGate) /\ G' = G
  BY <1>2 DEF Alone, Accepting, HasGate, G
<1>11. /\ r = 1 /\ Until(1) => Until(1)'
       /\ r = 2 /\ Until(2) => Until(2)'
       /\ Until(1)' => Until(1) /\ r = 1
       /\ Until(2)' => Until(2)
       /\ Until(1) => Until(2)
       /\ Until(1)' => Until(2)'
  BY <1>7, RequestFacts DEF Until
<1>12. ~Sent(1) => Until(1)
  BY RequestFacts DEF Parts, Carrying, Until, Sent
<1>m. \A q \in Requests : Sent(q)' <=> q = r \/ Sent(q)
  BY <1>8
<1>13. Progress'
  BY <1>2, <1>5 DEF Parts, Progress, OnlyMoves
<1>14. Gate'
  <2>1. HasGate => Gated
    <3>1. CASE Accepting
      BY <1>2, <3>1, OrderWhenAccepting
    <3>2. CASE ~Accepting
      BY <1>1, <1>2, <3>2, OrderWithGate DEF HasGate, Parts, Carrying
    <3>3. QED
      BY <3>1, <3>2
  <2>2. Range(gates) = IF HasGate THEN {G} ELSE {}
    BY <2>1, OneGate DEF Parts
  <2>3. HasGate => G \in Gates /\ Matches[G] = Requests /\ Nth[G] = 1 /\ (OnResponse[G] <=> G # first) /\ OnResponse[G] \in BOOLEAN
    BY GateFacts, GatesAssumption DEF HasGate
  <2>4. \A g \in Gates : seen[g] \in Nat
    BY DEF IInv, Core, TypeOK
  <2>5. CASE HasGate /\ G = first /\ r = 1
    <3>1. seen[G] = 0
      BY <1>6, <2>5 DEF Parts, Gate
    <3>2. Catching(r, FALSE) = {G}
      BY <2>2, <2>3, <2>5, <3>1 DEF Catching
    <3>3. /\ caught'[G] = 1 /\ seen'[G] = 1 /\ held'[1] = {G}
          /\ \A g \in Gates : g # G => caught'[g] = caught[g] /\ seen'[g] = seen[g]
      <4>1. caught'[G] = 1 /\ held'[1] = {G} /\ \A g \in Gates : g # G => caught'[g] = caught[g]
        BY <1>4, <1>7, <2>3, <2>5, <3>2
      <4>2. \A g \in Gates : g # G => seen'[g] = seen[g]
        BY <1>4, <2>2, <2>5 DEF Counted
      <4>3. seen'[G] = seen[G] + 1
        BY <1>4, <2>2, <2>3, <2>5 DEF Counted
      <4>4. QED
        BY <3>1, <4>1, <4>2, <4>3
    <3>5. at'[1] = "request" /\ Sent(1)' /\ gates' = IF HasGate' /\ Gated' THEN <<G'>> ELSE <<>>
      BY <1>2, <1>4, <1>7, <1>10, <1>m, <2>5 DEF Parts, Gate, OnlyMoves
    <3>6. \A g \in Gates : caught'[g] # Nobody => HasGate /\ g = G /\ caught'[g] = 1 /\ Sent(1)' /\ seen'[g] # 0
      BY <2>5, <3>3, <3>5 DEF Parts, Gate
    <3>7. \A g \in Gates : ~(HasGate /\ g = G /\ Released) /\ verdict = "running" => release'[g] = "shut"
      BY <1>4 DEF Parts, Gate
    <3>8. /\ \A g \in discarded' : HasGate /\ g = G /\ g = first /\ Released
          /\ HasGate /\ G = first /\ Released => G \in discarded'
      BY <1>4 DEF Parts, Gate
    <3>9. \A q \in Requests : \A g \in held'[q] : q = 1 /\ HasGate /\ g = G /\ seen'[g] # 0
      BY <1>7, <2>5, <3>3 DEF Parts, Gate
    <3>10. QED
      BY <1>2, <1>10, <2>1, <2>5, <3>3, <3>5, <3>6, <3>7, <3>8, <3>9 DEF Gate, OnlyMoves
  <2>6. CASE ~(HasGate /\ G = first /\ r = 1)
    <3>1. Catching(r, FALSE) = {}
      <4>1. HasGate /\ G = first => seen[G] # 0
        BY <1>6, <2>3, <2>6, RequestFacts DEF Parts, Gate
      <4>2. HasGate /\ G = first => seen[G] + 1 # 1
        BY <2>3, <2>4, <4>1
      <4>3. QED
        BY <2>2, <2>3, <4>2 DEF Catching
    <3>2. caught' = caught /\ held'[r] = {}
      BY <1>4, <1>7, <3>1 DEF IInv, Core, TypeOK
    <3>3. \A g \in Gates : seen'[g] = seen[g] \/ (HasGate /\ G = first /\ g = G /\ seen'[g] = seen[g] + 1)
      BY <1>4, <2>2, <2>3 DEF Counted
    <3>4. \A g \in Gates : seen[g] # 0 => seen'[g] # 0
      BY <2>4, <3>3
    <3>5. HasGate /\ G # first => seen'[G] = seen[G]
      BY <2>3, <3>3
    <3>6. HasGate /\ r # 1 => caught[G] = 1
      <4>1. CASE G = first
        BY <1>6, <4>1 DEF Parts, Gate
      <4>2. CASE HasGate /\ r # 1
        <5>1. Wrote2 \/ Restarted \/ Broken \/ Released
          BY <1>2, <1>6, <4>2
        <5>2. Caught
          <6>1. Released \/ Restarted => Caught
            BY <1>2, <4>2, Order, OrderWithGate DEF HasGate
          <6>2. Broken => Caught
            BY <1>2, <4>2, OrderWithGate DEF HasGate
          <6>3. Wrote2 => Caught
            <7>1. CASE Accepting
              BY <1>2, <7>1, OrderWhenAccepting
            <7>2. CASE ~Accepting
              BY <1>2, <4>2, <7>2, Order, OrderWithGate DEF HasGate
            <7>3. QED
              BY <7>1, <7>2
          <6>4. QED
            BY <5>1, <6>1, <6>2, <6>3
        <5>3. QED
          BY <4>2, <5>2 DEF Parts, Gate
      <4>3. QED
        BY <4>1, <4>2
    <3>7. HasGate /\ ~Until(1)' => caught[G] = 1
      BY <1>6, <1>11, <1>12, <3>6
    <3>8. HasGate /\ at'[1] = "answered" => at[1] = "answered"
      BY <1>7, RequestFacts
    <3>9. r = 1 => at[1] = "unsent" /\ at'[1] = "request"
      BY <1>4, <1>7
    <3>10. r # 1 => at'[1] = at[1] /\ held'[1] = held[1]
      BY <1>7, RequestFacts
    <3>11. Sent(1)' /\ (HasGate => (Sent(1) \/ G # first))
      BY <1>6, <1>m, <2>6, RequestFacts
    <3>12. gates' = IF HasGate' /\ Gated' THEN <<G'>> ELSE <<>>
      BY <1>2, <1>4, <1>10 DEF Parts, Gate, OnlyMoves
    <3>13. /\ \A g \in Gates : caught'[g] # Nobody => HasGate /\ g = G /\ caught'[g] = 1 /\ Sent(1)' /\ seen'[g] # 0
           /\ \A g \in Gates : ~(HasGate /\ g = G /\ Released) /\ verdict = "running" => release'[g] = "shut"
           /\ \A g \in discarded' : HasGate /\ g = G /\ g = first /\ Released
           /\ HasGate /\ G = first /\ Released => G \in discarded'
           /\ \A q \in Requests : \A g \in held'[q] : q = 1 /\ HasGate /\ g = G /\ seen'[g] # 0
           /\ HasGate /\ Caught => caught'[G] = 1
      <4>1. \A g \in Gates : caught'[g] # Nobody => HasGate /\ g = G /\ caught'[g] = 1 /\ Sent(1)' /\ seen'[g] # 0
        BY <3>2, <3>4, <3>11 DEF Parts, Gate
      <4>2. \A g \in Gates : ~(HasGate /\ g = G /\ Released) /\ verdict = "running" => release'[g] = "shut"
        BY <1>4 DEF Parts, Gate
      <4>3. /\ \A g \in discarded' : HasGate /\ g = G /\ g = first /\ Released
            /\ HasGate /\ G = first /\ Released => G \in discarded'
        BY <1>4 DEF Parts, Gate
      <4>4. \A q \in Requests : \A g \in held'[q] : q = 1 /\ HasGate /\ g = G /\ seen'[g] # 0
        <5>1. \A q \in Requests : held'[q] \subseteq held[q]
          BY <1>7, <3>2
        <5>2. QED
          BY <3>4, <5>1, <2>3 DEF Parts, Gate
      <4>5. HasGate /\ Caught => caught'[G] = 1
        BY <3>2 DEF Parts, Gate
      <4>6. QED
        BY <4>1, <4>2, <4>3, <4>4, <4>5
    <3>14. /\ HasGate /\ at'[1] = "answered" => Released /\ test # "lost"
           /\ HasGate /\ G = first => (Sent(1)' => caught'[G] = 1)
           /\ HasGate /\ G # first /\ at'[1] \in {"unsent", "request", "executed"} => seen'[G] = 0
           /\ HasGate /\ G # first /\ at'[1] = "response" /\ (~Released \/ Drops[G]) => held'[1] = {G}
      BY <3>2, <3>5, <3>8, <3>9, <3>10, <3>11 DEF Parts, Gate
    <3>15. QED
      BY <1>2, <1>10, <2>1, <3>2, <3>7, <3>11, <3>12, <3>13, <3>14 DEF Gate, OnlyMoves
  <2>7. QED
    BY <2>5, <2>6
<1>15. Fate'
  BY <1>2, <1>4, <1>7 DEF Parts, Fate, OnlyMoves
<1>16. Carrying'
  <2>1. \A q \in Requests : Sent(q)' <=> carries'[q] # "none"
    BY <1>1, <1>7, <1>m DEF Parts, Carrying
  <2>2. \A p, q \in Requests : p < q /\ Sent(q)' => Sent(p)'
    BY <1>9, <1>m DEF Parts, Carrying
  <2>3. current' # Nobody /\ Sent(current)' /\ carries'[current'] = task
    BY <1>4, <1>7, <1>m, RequestFacts
  <2>4. Wrote2 \/ Restarted => Sent(1)' /\ current' # 1
    BY <1>4, <1>6, <1>m, RequestFacts
  <2>5. ~Broken /\ ~Wrote2 /\ (fault # "replay" \/ ~Released) => Until(1)'
    <3> SUFFICES ASSUME ~Broken, ~Wrote2, fault # "replay" \/ ~Released PROVE Until(1)'
      OBVIOUS
    <3>1. current = Nobody
      BY <1>6
    <3>2. ~Crashed
      BY <1>2, Order
    <3>3. r = 1 /\ Until(1)
      BY <1>6, <3>1, <3>2 DEF Parts, Carrying
    <3>4. QED
      BY <1>11, <3>3
  <2>6. ~Alone /\ (IF Accepting THEN ~Restarted ELSE ~Wrote2) => Until(1)'
    <3> SUFFICES ASSUME ~Alone, IF Accepting THEN ~Restarted ELSE ~Wrote2 PROVE Until(1)'
      OBVIOUS
    <3>1. current = Nobody
      BY <1>6
    <3>2. ~Wrote2
      <4>1. CASE Accepting
        BY <1>2, <4>1, OrderWhenAccepting
      <4>2. QED
        BY <4>1
    <3>3. ~Crashed
      BY <1>1, <1>2, <3>2 DEF Parts, Carrying
    <3>4. r = 1 /\ Until(1)
      BY <1>6, <3>1, <3>2, <3>3 DEF Parts, Carrying
    <3>5. QED
      BY <1>11, <3>4
  <2>7. ~Accepting => Wrote1 /\ (Crashed => Wrote2)
    BY <1>1 DEF Parts, Carrying
  <2>8. QED
    BY <1>2, <1>5, <1>10, <2>1, <2>2, <2>3, <2>4, <2>5, <2>6, <2>7 DEF Carrying, OnlyMoves
<1>17. Told'
  <2>1. ~(fault # "early" /\ ~Accepting /\ told = "applied" /\ (Crashed => Wrote2))
    BY <1>6 DEF Parts, Told, Failures
  <2>2. QED
    BY <1>2, <1>4, <1>5, <1>10, <2>1 DEF Parts, Told, OnlyMoves
<1>18. Documents'
  <2>1. (\A q \in Requests : carries'[q] # "increment") =>
            document = [counter |-> IF committed = {} THEN 0 ELSE 1, marked |-> committed # {}]
    <3>1. carries[r] = "none"
      BY <1>4 DEF Parts, Carrying, Sent
    <3>2. (\A q \in Requests : carries'[q] # "increment") => \A q \in Requests : carries[q] # "increment"
      BY <1>7, <3>1
    <3>3. QED
      BY <3>2 DEF Parts, Documents
  <2>2. Increments' = (IF task = "increment" THEN Increments \cup {r} ELSE Increments)
    <3>1. carries[r] = "none" /\ r \notin Increments
      BY <1>4 DEF Parts, Carrying, Sent, Increments
    <3>2. QED
      BY <1>7, <3>1 DEF Increments
  <2>3. ~Alone /\ ~Wrote3 => Increments' = {} /\ task # "increment"
    BY <2>2 DEF Parts, Documents
  <2>4. ASSUME ~Alone, Wrote3
        PROVE  /\ document.marked /\ task # "idempotent"
               /\ \A q \in Increments' : q = r
               /\ r \in Increments'
               /\ document.counter = IF Increments' \cap committed = {} THEN 1 ELSE 2
    <3>1. current = Nobody
      BY <1>6, <2>4
    <3>2. Increments = {} /\ task # "idempotent" /\ document.marked
      <4>1. \A q \in Increments : q = Nobody /\ q \in Requests
        BY <2>4, <3>1 DEF Parts, Documents, Increments
      <4>2. Increments = {}
        BY <4>1, RequestFacts
      <4>3. QED
        BY <2>4, <4>2 DEF Parts, Documents
    <3>3. Increments' = {r}
      BY <1>1, <2>2, <3>2 DEF Parts, Types
    <3>4. document.counter = 1 /\ r \notin committed
      BY <1>4, <2>4, <3>2, Unsent DEF Parts, Documents
    <3>5. QED
      BY <3>2, <3>3, <3>4
  <2>5. Count(1)' = Count(1) /\ Count(2)' = Count(2)
    BY <1>4 DEF Count
  <2>6. ASSUME Alone
        PROVE  /\ \A q \in Requests : carries'[q] # "idempotent"
               /\ task # "idempotent"
               /\ Until(1)' => document.counter = Count(1)
               /\ fault # "replay" \/ OneWrite =>
                      /\ ~Wrote2 => Until(1)'
                      /\ Until(2)'
                      /\ Sent(2)' => r = 2
                      /\ document.counter = Count(1) + Count(2)
    <3>1. /\ \A q \in Requests : carries'[q] # "idempotent"
          /\ task # "idempotent"
          /\ Until(1)' => document.counter = Count(1)
      BY <1>7, <1>11, <2>6 DEF Parts, Documents
    <3>2. ASSUME fault # "replay" \/ OneWrite
          PROVE  /\ ~Wrote2 => Until(1)'
                 /\ Until(2)'
                 /\ Sent(2)' => r = 2
                 /\ document.counter = Count(1) + Count(2)
      <4>1. (~Wrote2 => Until(1)) /\ Until(2) /\ document.counter = Count(1) + Count(2)
        BY <2>6, <3>2 DEF Parts, Documents
      <4>2. ~Wrote2 => r = 1 /\ Until(1)'
        BY <1>6, <1>11, <2>6, <3>2, <4>1
      <4>3. Until(1)' => Until(2)' /\ ~Sent(2)'
        BY RequestFacts DEF Until, Sent
      <4>4. Wrote2 => r = 2 /\ Until(2)'
        BY <1>6, <1>11, <2>6, <3>2, <4>1
      <4>5. QED
        BY <4>1, <4>2, <4>3, <4>4
    <3>3. QED
      BY <3>1, <3>2
  <2>7. /\ Stored => committed # {}
        /\ (Stored \/ Caught) /\ test \notin {"before", "acceptedBefore"} => 1 \in committed
    BY DEF Parts, Documents
  <2>8. QED
    BY <1>2, <1>4, <1>5, <1>10, <2>1, <2>3, <2>4, <2>5, <2>6, <2>7 DEF Documents, OnlyMoves
<1>19. ASSUME Accepting PROVE Accepted'
  <2>1. r = IF Crashed THEN 2 ELSE 1
    BY <1>6, <1>19
  <2>2. Until(2)' /\ (~Restarted => Until(1)')
    <3>1. Until(2) /\ (~Crashed => Until(1) /\ r = 1) /\ (~Restarted => ~Crashed) /\ (Crashed => r = 2)
      BY <1>2, <1>19, <2>1, Order DEF Parts, Accepted
    <3>2. QED
      BY <1>11, <3>1
  <2>3. Sent(1)' /\ (Crashed => Sent(2)' /\ ~Until(1)')
    BY <1>6, <1>11, <1>m, <2>1, RequestFacts
  <2>4. /\ at'[1] = (IF Crashed THEN at[1] ELSE "request")
        /\ Crashed => at'[2] = "request" /\ at[2] = "unsent"
        /\ ~Crashed => at[1] = "unsent"
    BY <1>4, <1>7, <2>1, RequestFacts
  <2>5. snapshots = (IF Crashed THEN 1 ELSE 0) + 1
    BY <1>1, <1>19 DEF Parts, Accepted
  <2>6. CASE Crashed
    <3>1. Restarted /\ r = 2
      BY <1>2, <2>1, <2>6
    <3>2. QED
      BY <1>1, <1>2, <1>4, <1>5, <1>10, <1>19, <2>2, <2>3, <2>4, <2>5, <2>6, <3>1 DEF Parts, Accepted, OnlyMoves
  <2>7. CASE ~Crashed
    <3>1. ~Restarted /\ r = 1
      BY <1>2, <2>1, <2>7, Order
    <3>2. ~(fault # "early" /\ offset = 1)
      BY <1>19, <2>4, <2>7 DEF Parts, Accepted
    <3>3. QED
      BY <1>1, <1>2, <1>4, <1>5, <1>10, <1>19, <2>2, <2>3, <2>4, <2>5, <2>7, <3>1, <3>2 DEF Parts, Accepted, OnlyMoves
  <2>8. QED
    BY <2>6, <2>7
<1>20. Accepted'
  BY <1>10, <1>19 DEF Accepted
<1>21. QED
  BY <1>13, <1>14, <1>15, <1>16, <1>17, <1>18, <1>20 DEF Parts
-----------------------------------------------------------------------------
(* The proxy.                                                              *)

\* What a step of a handler leaves alone.
LEMMA HandlerSteps ==
    ASSUME IInv, NEW r \in Requests, Handle(r)
    PROVE  /\ at[r] \in {"request", "executed", "response"}
           /\ at'[r] \in {"request", "executed", "response"} \cup Finished
           /\ \A q \in Requests : q # r => at'[q] = at[q] /\ held'[q] = held[q]
           /\ committed' \in {committed, committed \cup {r}}
           /\ UNCHANGED <<gates, release, discarded, gone, phase>>
<1> USE DEF IInv, Core, TypeOK, Finished, gate
<1>1. CASE PassRequest(r)
  BY <1>1 DEF PassRequest
<1>2. CASE AbandonRequest(r)
  BY <1>2 DEF AbandonRequest
<1>3. CASE Forward(r)
  BY <1>3 DEF Forward
<1>4. CASE ForwardFails(r)
  BY <1>4 DEF ForwardFails
<1>5. CASE Respond(r)
  BY <1>5 DEF Respond
<1>6. CASE Reach(r)
  BY <1>6 DEF Reach
<1>7. CASE PassResponse(r)
  BY <1>7 DEF PassResponse
<1>8. CASE AbandonResponse(r)
  BY <1>8 DEF AbandonResponse
<1>9. CASE Deliver(r)
  BY <1>9 DEF Deliver
<1>10. QED
  BY <1>1, <1>2, <1>3, <1>4, <1>5, <1>6, <1>7, <1>8, <1>9 DEF Handle

\* The gate of a test is open only once the test has let go.
LEMMA OpenIsReleased ==
    ASSUME Parts, test \in Tests, verdict # "failed", HasGate, release[G] = "open"
    PROVE  Released
<1>1. G \in Gates /\ step \in Nat
  BY GateFacts DEF HasGate, Parts, Types
<1>2. CASE verdict = "running"
  BY <1>1, <1>2 DEF Parts, Gate
<1>3. CASE verdict = "passed"
  BY <1>1, <1>3, OrderWithGate DEF Parts, Progress, HasGate
<1>4. QED
  BY <1>2, <1>3 DEF Parts, Types

\* A handler step that keeps the gate and the fate of the exchanges keeps all
\* but the document.
LEMMA HandlerKeeps ==
    ASSUME IInv, Parts, Types', test \in Tests, NEW r \in Requests, Handle(r),
           UNCHANGED <<script, candidate, orphans>>, Gate', Documents',
           at'[r] \in {"abandoned", "failed"} => r \in gone,
           at'[r] = "refused" => r = 1 /\ test \in {"before", "acceptedBefore"} /\ Released,
           at'[r] = "dropped" => r = 1 /\ test = "lost" /\ Released
    PROVE  Parts'
<1>1. /\ at[r] \in {"request", "executed", "response"}
      /\ at'[r] \in {"request", "executed", "response"} \cup Finished
      /\ \A q \in Requests : q # r => at'[q] = at[q] /\ held'[q] = held[q]
      /\ committed \subseteq committed'
      /\ UNCHANGED <<gates, release, discarded, gone, phase>>
  BY HandlerSteps
<1>2. /\ UNCHANGED <<test, fault, step, verdict, alive, task, told, offset, place, merged, current, snapshots>>
      /\ UNCHANGED <<carries, early, orphans>>
  BY DEF script, candidate
<1>3. OnlyMoves({})
  BY <1>2, MarksStay
<1>4. /\ \A q \in Requests : Sent(q)' <=> Sent(q)
      /\ \A q \in Requests : at[q] = "unsent" => at'[q] = "unsent"
      /\ \A q \in Requests : at[q] = "answered" => at'[q] = "answered"
      /\ \A q \in Requests : at[q] \in Failures => at'[q] \in Failures
  BY <1>1 DEF Sent, Failures, Finished
<1>5. /\ (Alone' <=> Alone) /\ (Accepting' <=> Accepting) /\ (HasGate' <=> HasGate) /\ G' = G
  BY <1>2 DEF Alone, Accepting, HasGate, G
<1>6. (Until(0)' <=> Until(0)) /\ (Until(1)' <=> Until(1)) /\ (Until(2)' <=> Until(2))
  BY <1>4 DEF Until, Sent
<1>7. (Sent(1)' <=> Sent(1)) /\ (Sent(2)' <=> Sent(2))
  BY <1>4, RequestFacts
<1>8. Progress'
  BY <1>2, <1>3 DEF Parts, Progress, OnlyMoves
<1>9. Fate'
  BY <1>1, <1>2, <1>3 DEF Parts, Fate, OnlyMoves
<1>10. Carrying'
  <2>1. current # Nobody => (Sent(current)' <=> Sent(current))
    <3>1. ASSUME current # Nobody PROVE Sent(current)' <=> Sent(current)
      <4>1. current \in Requests /\ current' = current
        BY <1>2, <3>1 DEF Parts, Types
      <4>2. QED
        BY <1>4, <4>1 DEF Sent
    <3>2. QED
      BY <3>1
  <2>2. at[1] \in Failures => at'[1] \in Failures
    BY <1>4, RequestFacts
  <2>3. /\ \A q \in Requests : Sent(q)' <=> carries'[q] # "none"
        /\ \A p, q \in Requests : p < q /\ Sent(q)' => Sent(p)'
    BY <1>2, <1>4 DEF Parts, Carrying
  <2>4. QED
    BY <1>2, <1>3, <1>5, <1>6, <1>7, <2>1, <2>2, <2>3 DEF Parts, Carrying, OnlyMoves
<1>11. Told'
  <2>1. current # Nobody /\ at[current] = "answered" => at'[current] = "answered"
    BY <1>4 DEF Parts, Types
  <2>2. QED
    BY <1>1, <1>2, <1>3, <1>5, <2>1 DEF Parts, Told, OnlyMoves
<1>12. Accepted'
  <2>1. /\ at[1] = "answered" => at'[1] = "answered"
        /\ at[2] = "answered" => at'[2] = "answered"
        /\ at[2] = "unsent" => at'[2] = "unsent"
    BY <1>4, RequestFacts
  <2>2. QED
    BY <1>2, <1>3, <1>5, <1>6, <1>7, <2>1 DEF Parts, Accepted, OnlyMoves
<1>13. QED
  BY <1>8, <1>9, <1>10, <1>11, <1>12 DEF Parts

\* Executing an exchange leaves the document that the invariant names.
LEMMA DocumentKept ==
    ASSUME IInv, Parts, Types', test \in Tests, verdict # "failed", NEW r \in Requests, Proxy(r)
    PROVE  Documents'
<1>1. /\ at[r] \in {"request", "executed", "response"}
      /\ at'[r] \in {"request", "executed", "response"} \cup Finished
      /\ \A q \in Requests : q # r => at'[q] = at[q] /\ held'[q] = held[q]
      /\ committed' \in {committed, committed \cup {r}}
  BY HandlerSteps DEF Proxy
<1>2. /\ UNCHANGED <<test, fault, step, verdict, alive, task, told, offset, place, merged, current, snapshots>>
      /\ UNCHANGED <<carries, early, orphans>>
  BY DEF Proxy, script, candidate
<1>3. OnlyMoves({}) /\ step \in Nat
  BY <1>2, MarksStay DEF Parts, Types
<1>4. Sent(r) /\ carries[r] # "none"
  BY <1>1 DEF Sent, Parts, Carrying
<1>5. /\ (Alone' <=> Alone) /\ (Accepting' <=> Accepting)
      /\ (Until(1)' <=> Until(1)) /\ (Until(2)' <=> Until(2)) /\ (Sent(2)' <=> Sent(2))
  BY <1>1, <1>2, RequestFacts DEF Alone, Accepting, Until, Sent, Finished
<1>6. Increments' = Increments
  BY <1>2 DEF Increments
<1>7. CASE committed' = committed
  <2>1. document' = document /\ Count(1)' = Count(1) /\ Count(2)' = Count(2)
    BY <1>7 DEF Proxy, Count
  <2>2. QED
    BY <1>2, <1>3, <1>5, <1>6, <1>7, <2>1 DEF Parts, Documents, OnlyMoves
<1>8. CASE committed' = committed \cup {r} /\ r \notin committed
  <2>1. document' = Executed(r)
    BY <1>8 DEF Proxy
  <2>2. document.counter \in Nat /\ document.marked \in BOOLEAN /\ document = [counter |-> document.counter, marked |-> document.marked]
    BY DEF Parts, Types
  <2>3. carries[r] \in {"idempotent", "increment"}
    BY <1>4 DEF Parts, Types
  <2>4. carries[r] = "idempotent" /\ document.marked => document' = document
    BY <2>1 DEF Executed
  <2>5. carries[r] = "idempotent" /\ ~document.marked => document' = [counter |-> document.counter + 1, marked |-> TRUE]
    BY <2>1 DEF Executed
  <2>6. carries[r] = "increment" => document'.counter = document.counter + 1 /\ document'.marked = document.marked
    BY <2>1, <2>2 DEF Executed
  <2>7. committed' # {}
    BY <1>8
  <2>8. ASSUME \A q \in Requests : carries[q] # "increment"
        PROVE  document' = [counter |-> IF committed' = {} THEN 0 ELSE 1, marked |-> committed' # {}]
    <3>1. document.counter = (IF committed = {} THEN 0 ELSE 1) /\ (document.marked <=> committed # {})
      <4>1. document.counter = (IF committed = {} THEN 0 ELSE 1) /\ document.marked = (committed # {})
        BY <2>8 DEF Parts, Documents
      <4>2. QED
        BY <4>1, Zenon
    <3>2. carries[r] = "idempotent"
      BY <2>3, <2>8
    <3>3. document' = [counter |-> 1, marked |-> TRUE]
      <4>1. CASE document.marked
        <5>1. document' = document /\ document.counter = 1 /\ document.marked = TRUE
          BY <2>2, <2>4, <3>1, <3>2, <4>1
        <5>2. QED
          BY <2>2, <5>1
      <4>2. CASE ~document.marked
        <5>1. document.counter = 0 /\ document' = [counter |-> document.counter + 1, marked |-> TRUE]
          BY <2>5, <3>1, <3>2, <4>2
        <5>2. QED
          BY <5>1
      <4>3. QED
        BY <4>1, <4>2
    <3>4. (committed' # {}) = TRUE
      BY <2>7
    <3>5. QED
      BY <2>7, <3>3, <3>4
  <2>9. ~Alone /\ ~Wrote3 => Increments = {} /\ task # "increment"
    BY DEF Parts, Documents
  <2>10. ASSUME ~Alone, Wrote3
         PROVE  /\ document'.marked /\ task # "idempotent"
                /\ \A q \in Increments : q = current
                /\ current # Nobody => current \in Increments
                /\ document'.counter = IF Increments \cap committed' = {} THEN 1 ELSE 2
    <3>1. /\ document.marked /\ task # "idempotent"
          /\ \A q \in Increments : q = current
          /\ current # Nobody => current \in Increments
          /\ document.counter = IF Increments \cap committed = {} THEN 1 ELSE 2
      BY <2>10 DEF Parts, Documents
    <3>2. CASE carries[r] = "idempotent"
      <4>1. r \notin Increments /\ document' = document
        BY <2>4, <3>1, <3>2 DEF Increments
      <4>2. Increments \cap committed' = Increments \cap committed
        BY <1>8, <4>1
      <4>3. QED
        BY <3>1, <4>1, <4>2
    <3>3. CASE carries[r] = "increment"
      <4>1. r \in Increments
        BY <3>3 DEF Increments
      <4>2. Increments \cap committed = {} /\ Increments \cap committed' # {}
        BY <1>8, <3>1, <4>1
      <4>3. document.counter = 1
        BY <3>1, <4>2
      <4>4. document'.counter = 2
        BY <2>6, <3>3, <4>3
      <4>5. document'.marked
        BY <2>6, <3>1, <3>3
      <4>6. QED
        BY <3>1, <4>2, <4>4, <4>5
    <3>4. QED
      BY <2>3, <3>2, <3>3
  <2>11. ASSUME Alone
         PROVE  /\ \A q \in Requests : carries[q] # "idempotent"
                /\ task # "idempotent"
                /\ Until(1) => document'.counter = Count(1)'
                /\ fault # "replay" \/ OneWrite =>
                       /\ ~Wrote2 => Until(1)
                       /\ Until(2)
                       /\ Sent(2) => current = 2
                       /\ document'.counter = Count(1)' + Count(2)'
    <3>1. carries[r] = "increment" /\ document'.counter = document.counter + 1
      BY <2>3, <2>6, <2>11 DEF Parts, Documents
    <3>2. Until(1) => r = 1
      BY <1>4, RequestFacts DEF Until, Sent
    <3>3. Until(2) => r = 1 \/ r = 2
      BY <1>4, RequestFacts DEF Until, Sent
    <3>4. /\ r = 1 => Count(1) = 0 /\ Count(1)' = 1 /\ Count(2)' = Count(2)
          /\ r = 2 => Count(2) = 0 /\ Count(2)' = 1 /\ Count(1)' = Count(1)
          /\ Count(1) \in Nat /\ Count(2) \in Nat
      BY <1>8 DEF Count
    <3>5. Until(1) => document'.counter = Count(1)'
      BY <2>11, <3>1, <3>2, <3>4 DEF Parts, Documents
    <3>6. ASSUME fault # "replay" \/ OneWrite
          PROVE  /\ ~Wrote2 => Until(1)
                 /\ Until(2)
                 /\ Sent(2) => current = 2
                 /\ document'.counter = Count(1)' + Count(2)'
      <4>1. /\ ~Wrote2 => Until(1)
            /\ Until(2)
            /\ Sent(2) => current = 2
            /\ document.counter = Count(1) + Count(2)
        BY <2>11, <3>6 DEF Parts, Documents
      <4>2. document'.counter = Count(1)' + Count(2)'
        BY <3>1, <3>3, <3>4, <4>1
      <4>3. QED
        BY <4>1, <4>2
    <3>7. QED
      BY <2>11, <3>5, <3>6 DEF Parts, Documents
  <2>12. ASSUME ~Alone, Ended PROVE document'.counter = IF Accepting THEN 1 ELSE 2
    <3>1. document.counter = IF Accepting THEN 1 ELSE 2
      BY <2>12 DEF Parts, Documents
    <3>2. carries[r] = "idempotent" /\ document.marked
      <4>1. CASE Accepting
        <5>1. ~Wrote3
          BY <1>3, <4>1, OrderWhenAccepting
        <5>2. r \notin Increments
          BY <2>9, <2>12, <5>1
        <5>3. document.marked
          <6>1. document.counter # 0
            BY <3>1, <4>1
          <6>2. QED
            BY <2>12, <5>1, <6>1, CounterShows
        <5>4. QED
          BY <2>3, <5>2, <5>3 DEF Increments
      <4>2. CASE ~Accepting
        <5>1. Wrote3
          BY <1>3, <2>12, <4>2, Order, OrderOfWrites
        <5>2. /\ document.marked /\ \A q \in Increments : q = current
              /\ document.counter = IF Increments \cap committed = {} THEN 1 ELSE 2
          BY <2>12, <5>1 DEF Parts, Documents
        <5>3. Increments \cap committed # {}
          BY <3>1, <4>2, <5>2
        <5>4. r \notin Increments
          BY <1>8, <5>2, <5>3
        <5>5. QED
          BY <2>3, <5>2, <5>4 DEF Increments
      <4>3. QED
        BY <4>1, <4>2
    <3>3. QED
      BY <2>4, <3>1, <3>2
  <2>l. test = "lost" /\ Ended => 2 \in committed'
    BY <1>8 DEF Parts, Documents
  <2>13. (Stored \/ Caught) /\ test \notin {"before", "acceptedBefore"} => 1 \in committed'
    BY <1>8 DEF Parts, Documents
  <2>14. QED
    BY <1>2, <1>3, <1>5, <1>6, <2>7, <2>8, <2>9, <2>10, <2>11, <2>12, <2>13, <2>l DEF Documents, OnlyMoves
<1>9. QED
  BY <1>1, <1>7, <1>8

\* The gate keeps what it has said of the first exchange.
LEMMA GateKept ==
    ASSUME IInv, Parts, Types', test \in Tests, verdict # "failed", NEW r \in Requests, Proxy(r)
    PROVE  /\ Gate'
           /\ at'[r] \in {"abandoned", "failed"} => r \in gone
           /\ at'[r] = "refused" => r = 1 /\ test \in {"before", "acceptedBefore"} /\ Released
           /\ at'[r] = "dropped" => r = 1 /\ test = "lost" /\ Released
<1>1. /\ at[r] \in {"request", "executed", "response"}
      /\ at'[r] \in {"request", "executed", "response"} \cup Finished
      /\ \A q \in Requests : q # r => at'[q] = at[q] /\ held'[q] = held[q]
      /\ UNCHANGED <<gates, release, discarded, gone, phase>>
  BY HandlerSteps DEF Proxy
<1>2. UNCHANGED <<test, fault, step, verdict>> /\ Handle(r)
  BY DEF Proxy, script
<1>3. OnlyMoves({}) /\ step \in Nat
  BY <1>2, MarksStay DEF Parts, Types
<1>4. (HasGate' <=> HasGate) /\ G' = G
  BY <1>2 DEF HasGate, G
<1>5. /\ \A q \in Requests : Sent(q)' <=> Sent(q)
      /\ (Sent(1)' <=> Sent(1)) /\ (Until(1)' <=> Until(1))
  BY <1>1, RequestFacts DEF Sent, Until, Finished
<1>6. /\ at \in [Requests -> Stages] /\ held \in [Requests -> SUBSET Gates]
      /\ caught \in [Gates -> Requests \cup {Nobody}] /\ \A g \in Gates : seen[g] \in Nat
  BY DEF IInv, Core, TypeOK, Stages
<1>7. HasGate => G \in Gates /\ Matches[G] = Requests /\ Nth[G] = 1 /\ (OnResponse[G] <=> G # first) /\ OnResponse[G] \in BOOLEAN
                 /\ (G = first <=> test \in {"before", "acceptedBefore"}) /\ (Drops[G] <=> test = "lost")
  BY GateFacts, GatesAssumption DEF HasGate
<1>8. Sent(r) /\ (r = 1 => Sent(1)) /\ (r # 1 => Sent(1) /\ ~Until(1))
  BY <1>1, RequestFacts DEF Sent, Until, Parts, Carrying
<1>9. HasGate => Gated
  BY <1>8 DEF Parts, Gate
<1>10. Range(gates) = IF HasGate THEN {G} ELSE {}
  BY <1>9, OneGate DEF Parts
<1>g. /\ \A g \in Gates : ~(HasGate /\ g = G /\ Released) /\ verdict = "running" => release'[g] = "shut"
      /\ \A g \in discarded' : HasGate /\ g = G /\ g = first /\ Released
      /\ HasGate /\ G = first /\ Released => G \in discarded'
      /\ gates' = IF HasGate /\ Gated THEN <<G>> ELSE <<>>
  BY <1>1 DEF Parts, Gate
\* A step that neither counts nor catches, and lets exchanges only go.
<1>11. ASSUME UNCHANGED <<seen, caught>>, held'[r] \subseteq held[r],
              r = 1 /\ HasGate /\ at'[1] = "answered" => Released /\ test # "lost",
              r = 1 /\ HasGate /\ G # first /\ at'[1] \in {"request", "executed"} => seen[G] = 0,
              r = 1 /\ HasGate /\ G # first /\ at'[1] = "response" /\ (~Released \/ Drops[G]) => held'[1] = {G}
       PROVE  Gate'
  <2>1. \A q \in Requests : held'[q] \subseteq held[q]
    BY <1>1, <1>11
  <2>2. r # 1 => at'[1] = at[1] /\ held'[1] = held[1]
    BY <1>1, RequestFacts
  <2>3. at'[1] # "unsent"
    BY <1>5, <1>8 DEF Sent
  <2>4. \A q \in Requests : \A g \in held'[q] : q = 1 /\ HasGate /\ g = G /\ seen'[g] # 0
    BY <1>11, <2>1 DEF Parts, Gate
  <2>5. /\ \A g \in Gates : caught'[g] # Nobody => HasGate /\ g = G /\ caught'[g] = 1 /\ Sent(1) /\ seen'[g] # 0
        /\ HasGate /\ Caught => caught'[G] = 1
        /\ HasGate /\ ~Until(1) => caught'[G] = 1
        /\ HasGate /\ G = first => (Sent(1) => caught'[G] = 1)
    BY <1>11 DEF Parts, Gate
  <2>6. /\ HasGate /\ at'[1] = "answered" => Released /\ test # "lost"
        /\ HasGate /\ G # first /\ at'[1] \in {"unsent", "request", "executed"} => seen'[G] = 0
        /\ HasGate /\ G # first /\ at'[1] = "response" /\ (~Released \/ Drops[G]) => held'[1] = {G}
    BY <1>11, <2>2, <2>3 DEF Parts, Gate
  <2>7. QED
    BY <1>2, <1>3, <1>4, <1>5, <1>8, <1>9, <1>g, <2>4, <2>5, <2>6 DEF Gate, OnlyMoves
<1>h. \A g \in held[r] : g \in Gates /\ r = 1 /\ HasGate /\ g = G /\ seen[g] # 0
  BY <1>6 DEF Parts, Gate
<1>12. CASE PassRequest(r)
  <2>1. PICK g \in Gates : /\ g \in held[r] /\ release[g] = "open" /\ at[r] = "request"
                           /\ \/ g \in discarded /\ at' = [at EXCEPT ![r] = "refused"] /\ UNCHANGED held
                              \/ g \notin discarded /\ held' = [held EXCEPT ![r] = @ \ {g}] /\ UNCHANGED at
    BY <1>12 DEF PassRequest, Turn
  <2>2. UNCHANGED <<seen, caught>>
    BY <1>12 DEF PassRequest, gate
  <2>3. r = 1 /\ HasGate /\ g = G /\ ~OnResponse[g]
    BY <1>h, <2>1 DEF IInv, Core, HeldInTurn
  <2>4. G = first /\ test \in {"before", "acceptedBefore"} /\ Released
    BY <1>7, <2>1, <2>3, OpenIsReleased
  <2>5. held'[r] \subseteq held[r] /\ at'[r] \in {"request", "refused"}
    BY <1>6, <2>1
  <2>6. QED
    BY <1>11, <2>2, <2>3, <2>4, <2>5
<1>13. CASE AbandonRequest(r)
  <2>1. at'[r] = "abandoned" /\ UNCHANGED <<seen, caught, held>> /\ r \in gone
    BY <1>6, <1>13 DEF AbandonRequest, gate
  <2>2. QED
    BY <1>11, <2>1
<1>14. CASE Forward(r)
  <2>1. at[r] = "request" /\ at'[r] = "executed" /\ UNCHANGED <<seen, caught, held>>
    BY <1>6, <1>14 DEF Forward, gate
  <2>2. r = 1 /\ HasGate /\ G # first => seen[G] = 0
    BY <2>1 DEF Parts, Gate
  <2>3. QED
    BY <1>11, <2>1, <2>2
<1>15. CASE ForwardFails(r)
  <2>1. at'[r] = "failed" /\ UNCHANGED <<seen, caught, held>> /\ r \in gone
    BY <1>6, <1>15 DEF ForwardFails, gate
  <2>2. QED
    BY <1>11, <2>1
<1>16. CASE Respond(r)
  <2>1. /\ at[r] = "executed" /\ at'[r] = "response" /\ seen' = Counted(r, TRUE)
        /\ held'[r] = Catching(r, TRUE) /\ UNCHANGED caught
    BY <1>6, <1>16 DEF Respond
  <2>2. r # 1 => at'[1] = at[1] /\ held'[1] = held[1]
    BY <1>1, RequestFacts
  <2>3. CASE HasGate /\ G # first /\ r = 1
    <3>1. seen[G] = 0
      BY <2>1, <2>3 DEF Parts, Gate
    <3>2. Catching(r, TRUE) = {G}
      BY <1>7, <1>10, <2>3, <3>1 DEF Catching
    <3>3. seen'[G] = 1 /\ \A g \in Gates : g # G => seen'[g] = seen[g]
      <4>1. \A g \in Gates : g # G => seen'[g] = seen[g]
        BY <1>10, <2>1, <2>3 DEF Counted
      <4>2. seen'[G] = seen[G] + 1
        BY <1>7, <1>10, <2>1, <2>3 DEF Counted
      <4>3. QED
        BY <3>1, <4>1, <4>2
    <3>4. /\ \A g \in Gates : caught'[g] # Nobody => HasGate /\ g = G /\ caught'[g] = 1 /\ Sent(1) /\ seen'[g] # 0
          /\ HasGate /\ Caught => caught'[G] = 1
          /\ HasGate /\ ~Until(1) => caught'[G] = 1
      <4>1. \A g \in Gates : caught[g] # Nobody => HasGate /\ g = G /\ caught[g] = 1 /\ Sent(1)
        BY DEF Parts, Gate
      <4>2. /\ HasGate /\ Caught => caught[G] = 1
            /\ HasGate /\ ~Until(1) => caught[G] = 1
        BY DEF Parts, Gate
      <4>3. caught' = caught
        BY <2>1
      <4>4. ASSUME NEW g \in Gates, caught'[g] # Nobody
            PROVE  HasGate /\ g = G /\ caught'[g] = 1 /\ Sent(1) /\ seen'[g] # 0
        <5>1. HasGate /\ g = G /\ caught[g] = 1 /\ Sent(1)
          BY <4>1, <4>3, <4>4
        <5>2. seen'[g] = 1
          BY <3>3, <5>1
        <5>3. QED
          BY <4>3, <5>1, <5>2
      <4>5. QED
        BY <4>2, <4>3, <4>4
    <3>5. \A q \in Requests : \A g \in held'[q] : q = 1 /\ HasGate /\ g = G /\ seen'[g] # 0
      <4>1. \A q \in Requests : q # 1 => held'[q] = held[q]
        BY <1>1, <2>3
      <4>2. \A q \in Requests : q # 1 => held'[q] = {}
        BY <1>6, <4>1 DEF Parts, Gate
      <4>3. held'[1] = {G}
        BY <2>1, <2>3, <3>2
      <4>4. QED
        BY <2>3, <3>3, <4>2, <4>3
    <3>6. at'[1] = "response" /\ held'[1] = {G}
      BY <2>1, <2>3, <3>2
    <3>7. QED
      BY <1>2, <1>3, <1>4, <1>5, <1>8, <1>9, <1>g, <2>3, <3>4, <3>5, <3>6 DEF Gate, OnlyMoves
  <2>4. CASE ~(HasGate /\ G # first /\ r = 1)
    <3>1. HasGate /\ G # first => caught[G] = 1 /\ seen[G] # 0
      BY <1>7, <1>8, <2>4, RequestFacts DEF Parts, Gate
    <3>2. Catching(r, TRUE) = {}
      <4>1. HasGate /\ G # first => seen[G] + 1 # 1
        BY <1>6, <1>7, <3>1
      <4>2. QED
        BY <1>7, <1>10, <4>1 DEF Catching
    <3>3. /\ \A g \in Gates : seen[g] # 0 => seen'[g] # 0
          /\ HasGate /\ G = first => seen'[G] = seen[G]
      BY <1>6, <1>7, <2>1 DEF Counted
    <3>4. \A q \in Requests : \A g \in held'[q] : q = 1 /\ HasGate /\ g = G /\ seen'[g] # 0
      <4>1. \A q \in Requests : held'[q] \subseteq held[q]
        BY <1>1, <2>1, <3>2
      <4>2. QED
        BY <1>6, <3>3, <4>1 DEF Parts, Gate
    <3>5. /\ \A g \in Gates : caught'[g] # Nobody => HasGate /\ g = G /\ caught'[g] = 1 /\ Sent(1) /\ seen'[g] # 0
          /\ HasGate /\ Caught => caught'[G] = 1
          /\ HasGate /\ ~Until(1) => caught'[G] = 1
          /\ HasGate /\ G = first => (Sent(1) => caught'[G] = 1)
      BY <2>1, <3>3 DEF Parts, Gate
    <3>6. HasGate /\ G # first => r # 1 /\ at'[1] = at[1] /\ held'[1] = held[1] /\ at[1] \notin {"unsent", "request", "executed"}
      BY <2>2, <2>4, <3>1 DEF Parts, Gate
    <3>7. HasGate /\ G # first /\ at'[1] = "response" /\ (~Released \/ Drops[G]) => held'[1] = {G}
      BY <3>6 DEF Parts, Gate
    <3>8. HasGate /\ at'[1] = "answered" => Released /\ test # "lost"
      BY <2>1, <2>2 DEF Parts, Gate
    <3>9. ~(HasGate /\ G # first /\ at'[1] \in {"unsent", "request", "executed"})
      BY <3>6
    <3>10. Sent(1) /\ Sent(1)'
      BY <1>5, <1>8, RequestFacts
    <3>11. /\ (Gated' <=> Gated) /\ (Caught' <=> Caught) /\ (Released' <=> Released)
           /\ UNCHANGED <<test, verdict>>
      BY <1>2, <1>3 DEF OnlyMoves
    <3>12. QED
      BY <1>4, <1>5, <1>9, <1>g, <2>1, <3>4, <3>5, <3>7, <3>8, <3>9, <3>10, <3>11 DEF Gate
  <2>5. QED
    BY <2>1, <2>3, <2>4
<1>17. CASE Reach(r)
  <2>1. PICK g \in Gates : g \in held[r] /\ at[r] = "response" /\ caught[g] = Nobody /\ caught' = [caught EXCEPT ![g] = r]
    BY <1>17 DEF Reach, Turn
  <2>2. UNCHANGED <<seen, at, held>>
    BY <1>17 DEF Reach, gate
  <2>3. r = 1 /\ HasGate /\ g = G /\ OnResponse[g] /\ seen[G] # 0
    BY <1>h, <2>1 DEF IInv, Core, HeldInTurn
  <2>4. caught'[G] = 1 /\ \A h \in Gates : h # G => caught'[h] = caught[h]
    BY <1>6, <2>1, <2>3
  <2>5. /\ \A h \in Gates : caught'[h] # Nobody => HasGate /\ h = G /\ caught'[h] = 1 /\ Sent(1) /\ seen'[h] # 0
        /\ \A q \in Requests : \A h \in held'[q] : q = 1 /\ HasGate /\ h = G /\ seen'[h] # 0
    BY <1>8, <2>2, <2>3, <2>4 DEF Parts, Gate
  <2>6. QED
    BY <1>1, <1>2, <1>3, <1>4, <1>5, <1>9, <1>g, <2>1, <2>2, <2>3, <2>4, <2>5 DEF Parts, Gate, OnlyMoves
<1>18. CASE PassResponse(r)
  <2>1. PICK g \in Gates : /\ g \in held[r] /\ release[g] = "open" /\ at[r] = "response"
                           /\ \/ Lost(g) /\ at' = [at EXCEPT ![r] = "dropped"] /\ UNCHANGED held
                              \/ ~Lost(g) /\ held' = [held EXCEPT ![r] = @ \ {g}] /\ UNCHANGED at
    BY <1>18 DEF PassResponse, Turn
  <2>2. UNCHANGED <<seen, caught>>
    BY <1>18 DEF PassResponse, gate
  <2>3. r = 1 /\ HasGate /\ g = G
    BY <1>h, <2>1
  <2>4. Released
    BY <2>1, <2>3, OpenIsReleased
  <2>5. CASE Lost(g) /\ at' = [at EXCEPT ![r] = "dropped"] /\ UNCHANGED held
    <3>1. test = "lost" /\ at'[r] = "dropped"
      BY <1>6, <1>7, <2>3, <2>5 DEF Lost
    <3>2. QED
      BY <1>11, <2>2, <2>3, <2>4, <2>5, <3>1
  <2>6. CASE ~Lost(g) /\ held' = [held EXCEPT ![r] = @ \ {g}] /\ UNCHANGED at
    <3>1. ~Drops[G] /\ held'[r] \subseteq held[r] /\ at'[r] = "response"
      BY <1>6, <2>1, <2>3, <2>6 DEF Lost
    <3>2. QED
      BY <1>11, <2>2, <2>3, <2>4, <3>1
  <2>7. QED
    BY <2>1, <2>5, <2>6
<1>19. CASE AbandonResponse(r)
  <2>1. at'[r] = "failed" /\ UNCHANGED <<seen, caught, held>> /\ r \in gone
    BY <1>6, <1>19 DEF AbandonResponse, gate
  <2>2. QED
    BY <1>11, <2>1
<1>20. CASE Deliver(r)
  <2>1. at[r] = "response" /\ held[r] = {} /\ at'[r] = "answered" /\ UNCHANGED <<seen, caught, held>>
    BY <1>6, <1>20 DEF Deliver, gate
  <2>2. r = 1 /\ HasGate => Released /\ test # "lost"
    <3> SUFFICES ASSUME r = 1, HasGate PROVE Released /\ test # "lost"
      OBVIOUS
    <3>1. CASE G # first
      <4>1. ~(~Released \/ Drops[G])
        BY <2>1, <3>1 DEF Parts, Gate
      <4>2. QED
        BY <1>7, <4>1
    <3>2. CASE G = first
      <4>1. caught[G] = 1 /\ ~OnResponse[G]
        BY <1>7, <1>8, <3>2 DEF Parts, Gate
      <4>2. release[G] = "open"
        BY <1>7, <2>1, <4>1 DEF IInv, Core, RequestsAreHeld
      <4>3. QED
        BY <1>7, <3>2, <4>2, OpenIsReleased
    <3>3. QED
      BY <3>1, <3>2
  <2>3. QED
    BY <1>11, <2>1, <2>2
<1>21. QED
  BY <1>2, <1>12, <1>13, <1>14, <1>15, <1>16, <1>17, <1>18, <1>19, <1>20 DEF Handle

\* The handlers of the proxy keep the invariant.
LEMMA ProxyKeeps ==
    ASSUME IInv, Parts, Types', test \in Tests, verdict # "failed", NEW r \in Requests, Proxy(r)
    PROVE  Parts'
<1>1. Handle(r) /\ UNCHANGED <<script, candidate, orphans>>
  BY DEF Proxy
<1>2. QED
  BY <1>1, GateKept, DocumentKept, HandlerKeeps

\* A step that leaves the exchanges where they are keeps the invariant: it may
\* tell the proxy of a closed connection of an orphan, and let go of gates the
\* running script has let go of.
LEMMA AsideKeeps ==
    ASSUME Parts, Types', test \in Tests,
           UNCHANGED <<script, candidate, document, orphans>>,
           UNCHANGED <<gates, seen, caught, discarded, at, held, committed>>,
           gone \subseteq gone', gone' \subseteq orphans,
           \A g \in Gates : ~(HasGate /\ g = G /\ Released) /\ verdict = "running" => release'[g] = "shut"
    PROVE  Parts'
<1>1. UNCHANGED <<test, fault, step, verdict>>
  BY DEF script
<1>2. OnlyMoves({})
  BY <1>1, MarksStay
<1>3. UNCHANGED <<alive, task, told, offset, place, merged, current, snapshots, carries, early>>
  BY DEF candidate
<1>4. Progress'
  BY <1>1, <1>2, <1>3 DEF Parts, Progress, OnlyMoves
<1>5. Gate'
  BY <1>1, <1>2 DEF Parts, Gate, OnlyMoves, HasGate, G, Sent, Until
<1>6. Fate'
  BY <1>1, <1>2 DEF Parts, Fate, OnlyMoves
<1>7. Carrying'
  BY <1>1, <1>2, <1>3 DEF Parts, Carrying, OnlyMoves, Sent, Until, Alone, Accepting
<1>8. Told'
  BY <1>1, <1>2, <1>3 DEF Parts, Told, OnlyMoves, HasGate, Accepting
<1>9. Documents'
  BY <1>1, <1>2, <1>3 DEF Parts, Documents, OnlyMoves, Alone, Accepting, Increments, Count, Until, Sent
<1>10. Accepted'
  BY <1>1, <1>2, <1>3 DEF Parts, Accepted, OnlyMoves, HasGate, Accepting, Until, Sent
<1>11. QED
  BY <1>4, <1>5, <1>6, <1>7, <1>8, <1>9, <1>10 DEF Parts

\* The proxy learns of closed connections, the cleanup opens the gates, the
\* server closes.
LEMMA ServerKeeps ==
    ASSUME IInv, Parts, Types', test \in Tests, verdict # "failed",
           (\E r \in Requests : Part(r)) \/ Cleanup \/ Close
    PROVE  Parts'
<1>0. release \in [Gates -> {"shut", "marked", "open"}]
  BY DEF IInv, Core, TypeOK
<1>s. \A g \in Gates : ~(HasGate /\ g = G /\ Released) /\ verdict = "running" => release[g] = "shut"
  BY DEF Parts, Gate
<1>g. gone \subseteq orphans
  BY DEF Parts, Fate
<1>1. ASSUME NEW r \in Requests, Part(r) PROVE Parts'
  <2>1. /\ gone' = gone \cup {r} /\ r \in orphans
        /\ UNCHANGED <<gates, seen, release, discarded, caught, at, held, committed, phase>>
        /\ UNCHANGED <<script, candidate, document, orphans>>
    BY <1>1 DEF Part, Disconnect, gate
  <2>2. QED
    BY <1>s, <1>g, <2>1, AsideKeeps
<1>2. CASE Cleanup
  <2>1. /\ verdict # "running"
        /\ UNCHANGED <<gates, seen, discarded, caught, at, held, gone, committed>>
        /\ UNCHANGED <<script, candidate, document, orphans>>
    BY <1>2 DEF Cleanup, OpenAll, Tests, GatedTests
  <2>2. QED
    BY <1>g, <2>1, AsideKeeps
<1>3. CASE \E g \in Gates : CloseRelease(g) /\ UNCHANGED <<script, candidate, document, orphans>>
  <2>1. PICK g \in Gates : CloseRelease(g)
    BY <1>3
  <2>2. /\ release[g] = "marked" /\ release' = [release EXCEPT ![g] = "open"]
        /\ UNCHANGED <<gates, seen, discarded, caught, at, held, gone, committed>>
        /\ UNCHANGED <<script, candidate, document, orphans>>
    BY <1>3, <2>1 DEF CloseRelease
  <2>3. \A h \in Gates : release[h] = "shut" => release'[h] = "shut"
    BY <1>0, <2>2
  <2>4. QED
    BY <1>s, <1>g, <2>2, <2>3, AsideKeeps
<1>4. CASE CloseServer /\ UNCHANGED <<script, candidate, document, orphans>>
  <2>1. /\ UNCHANGED <<gates, seen, release, discarded, caught, at, held, gone, committed>>
        /\ UNCHANGED <<script, candidate, document, orphans>>
    BY <1>4 DEF CloseServer, gate
  <2>2. QED
    BY <1>s, <1>g, <2>1, AsideKeeps
<1>5. QED
  BY <1>1, <1>2, <1>3, <1>4 DEF Close

\* A script that has failed stays failed, and goes on with no other test.
LEMMA FailureStays ==
    ASSUME [AllNext]_allVars
    PROVE  test' = test /\ fault' = fault /\ (verdict = "failed" => verdict' = "failed")
<1>1. CASE Gating \/ Write \/ Cancel \/ Crash \/ Start
  BY <1>1 DEF Gating, Write, Cancel, Crash, Start, Now, Done
<1>2. CASE Awaiting
  BY <1>2 DEF Awaiting, Now, Require, Done
<1>3. CASE Asserting
  BY <1>3 DEF Asserting, Now, Require, Done
<1>4. CASE TimeOut
  BY <1>4 DEF TimeOut
<1>5. CASE Candidate
  BY <1>5 DEF Candidate, Take, Read, Send, Settle, Hasten, ByCandidate, script
<1>6. CASE Free \/ Cleanup \/ Close
  BY <1>6 DEF Free, Cleanup, Close, script
<1>7. ASSUME NEW r \in Requests, Proxy(r) \/ Part(r) PROVE test' = test /\ fault' = fault /\ verdict' = verdict
  BY <1>7 DEF Proxy, Part, script
<1>8. CASE UNCHANGED allVars
  BY <1>8 DEF allVars, script
<1>9. QED
  BY <1>1, <1>2, <1>3, <1>4, <1>5, <1>6, <1>7, <1>8 DEF AllNext, TestStep

\* Before its first step a script has written nothing.
LEMMA InitScripts == AllInit => Types /\ (Going => Parts)
<1> SUFFICES ASSUME AllInit PROVE Types /\ Parts
  OBVIOUS
<1>1. Types
  <2>1. /\ test \in Tests \cup {"any"} /\ fault \in {"none", "early", "replay", "place"}
        /\ step = 0 /\ verdict = "running"
    BY DEF AllInit
  <2>2. /\ alive = FALSE /\ task = "none" /\ told = "pending" /\ offset = 0 /\ place = 0
        /\ merged = FALSE /\ current = Nobody /\ snapshots = 0 /\ document = [counter |-> 0, marked |-> FALSE]
        /\ orphans = {} /\ early = FALSE
    BY DEF AllInit
  <2>3. carries \in [Requests -> {"idempotent", "increment", "none"}]
    BY DEF AllInit
  <2>4. document \in [counter : Nat, marked : BOOLEAN]
    BY <2>2
  <2>b. /\ alive \in BOOLEAN /\ merged \in BOOLEAN /\ early \in BOOLEAN
    BY <2>2
  <2>c. current \in Requests \cup {Nobody}
    BY <2>2
  <2>5. /\ task \in {"idempotent", "increment", "none"} /\ told \in {"pending", "applied", "unknown"}
        /\ offset \in 0..2 /\ place \in 0..2 /\ snapshots \in Nat /\ orphans \subseteq Requests /\ step \in Nat
        /\ verdict \in {"running", "passed", "failed"}
    BY <2>1, <2>2
  <2>6. QED
    BY <2>1, <2>3, <2>4, <2>5, <2>b, <2>c DEF Types
<1>2. /\ ~Gated /\ ~Caught /\ ~Released /\ ~Started /\ ~Crashed /\ ~Broken /\ ~Restarted /\ ~Wrote1 /\ ~Acked
      /\ ~Settled /\ ~Wrote2 /\ ~Applied2 /\ ~Wrote3 /\ ~Applied3 /\ ~Offset /\ ~Drained /\ ~Stored /\ ~OneWrite /\ ~Ended
  BY DEF AllInit, After, Passed, Never, Gated, Caught, Released, Started, Crashed, Broken, Restarted, Wrote1, Acked,
     Settled, Wrote2, Applied2, Wrote3, Applied3, Offset, Drained, Stored, OneWrite, Ended
<1>3. /\ gates = <<>> /\ \A g \in Gates : seen[g] = 0 /\ caught[g] = Nobody /\ release[g] = "shut"
      /\ discarded = {} /\ \A r \in Requests : at[r] = "unsent" /\ held[r] = {} /\ carries[r] = "none"
      /\ gone = {} /\ committed = {}
      /\ orphans = {} /\ current = Nobody /\ task = "none" /\ ~merged /\ ~early /\ told = "pending" /\ ~alive
      /\ offset = 0 /\ place = 0 /\ snapshots = 0 /\ document = [counter |-> 0, marked |-> FALSE] /\ verdict = "running"
  BY DEF AllInit, Init
<1>4. /\ \A r \in Requests : ~Sent(r)
      /\ \A n : Until(n)
      /\ Increments = {} /\ ~Sent(1) /\ ~Sent(2) /\ Count(1) = 0 /\ Count(2) = 0
  BY <1>3, RequestFacts DEF Sent, Until, Increments, Count
<1>5. Progress
  BY <1>2, <1>3 DEF Progress
<1>6. Gate
  BY <1>2, <1>3, <1>4, GateFacts, RequestFacts DEF Gate, HasGate
<1>7. Fate
  BY <1>2, <1>3 DEF Fate
<1>8. Carrying
  BY <1>2, <1>3, <1>4 DEF Carrying
<1>9. Told
  BY <1>2, <1>3 DEF Told
<1>10. Documents
  <2>1. document.counter = 0 /\ document = [counter |-> IF committed = {} THEN 0 ELSE 1, marked |-> committed # {}]
    <3>1. (committed # {}) = FALSE /\ (IF committed = {} THEN 0 ELSE 1) = 0
      BY <1>3
    <3>2. document = [counter |-> 0, marked |-> FALSE]
      BY <1>3
    <3>3. QED
      BY <3>1, <3>2
  <2>2. /\ \A r \in Requests : carries[r] = "none"
        /\ task = "none"
    BY <1>3
  <2>3. QED
    BY <1>2, <1>4, <2>1, <2>2 DEF Documents
<1>11. Accepted
  BY <1>2, <1>3, <1>4, RequestFacts DEF Accepted
<1>12. QED
  BY <1>1, <1>5, <1>6, <1>7, <1>8, <1>9, <1>10, <1>11 DEF Parts

\* Every step keeps the invariant of a script that has not failed.
LEMMA StepScripts ==
    ASSUME IInv, Types, Going => Parts, [AllNext]_allVars
    PROVE  Types' /\ (Going' => Parts')
<1>1. Types'
  BY StepTypes
<1>2. SUFFICES ASSUME Going' PROVE Parts'
  BY <1>1
<1>3. test \in Tests /\ verdict # "failed" /\ verdict' # "failed" /\ Parts
  BY <1>2, FailureStays DEF Going
<1>4. CASE Gating
  BY <1>1, <1>3, <1>4, GatingKeeps
<1>5. CASE Awaiting
  BY <1>1, <1>3, <1>5, AwaitingKeeps
<1>6. CASE Asserting
  BY <1>1, <1>3, <1>6, AssertingKeeps
<1>7. CASE Write
  BY <1>1, <1>3, <1>7, WriteKeeps
<1>8. CASE Cancel
  BY <1>1, <1>3, <1>8, CancelKeeps
<1>9. CASE Crash
  BY <1>1, <1>3, <1>9, CrashKeeps
<1>10. CASE Start
  BY <1>1, <1>3, <1>10, StartKeeps
<1>11. CASE TimeOut
  BY <1>3, <1>11 DEF TimeOut
<1>12. CASE Take
  BY <1>1, <1>3, <1>12, TakeKeeps
<1>13. CASE Read
  BY <1>1, <1>3, <1>13, ReadKeeps
<1>14. CASE Send
  BY <1>1, <1>3, <1>14, SendKeeps
<1>15. CASE Settle
  BY <1>1, <1>3, <1>15, SettleKeeps
<1>16. CASE Hasten
  BY <1>1, <1>3, <1>16, HastenKeeps
<1>17. CASE Free
  BY <1>3, <1>17 DEF Free, Tests, GatedTests
<1>18. CASE Cleanup \/ Close
  BY <1>1, <1>3, <1>18, ServerKeeps
<1>19. ASSUME NEW r \in Requests, Proxy(r) PROVE Parts'
  BY <1>1, <1>3, <1>19, ProxyKeeps
<1>20. ASSUME NEW r \in Requests, Part(r) PROVE Parts'
  BY <1>1, <1>3, <1>20, ServerKeeps
<1>21. CASE UNCHANGED allVars
  <2>1. /\ UNCHANGED <<gates, seen, release, discarded, caught, at, held, gone, committed>>
        /\ UNCHANGED <<script, candidate, document, orphans>>
    BY <1>21 DEF allVars, vars, gate
  <2>2. /\ \A g \in Gates : ~(HasGate /\ g = G /\ Released) /\ verdict = "running" => release[g] = "shut"
        /\ gone \subseteq orphans
    BY <1>3 DEF Parts, Gate, Fate
  <2>3. QED
    BY <1>1, <1>3, <2>1, <2>2, AsideKeeps
<1>22. QED
  BY <1>4, <1>5, <1>6, <1>7, <1>8, <1>9, <1>10, <1>11, <1>12, <1>13, <1>14, <1>15, <1>16, <1>17, <1>18, <1>19, <1>20, <1>21
  DEF AllNext, TestStep, Candidate
-----------------------------------------------------------------------------
(* A script fails no honest candidate, and what it claims is true.         *)

\* Where the script is when it compares what it sees with what it expects.
LEMMA Judging ==
    ASSUME test \in Tests, step \in Nat
    PROVE  /\ Now("applied") =>
              ~Accepting /\ (Wrote2 \/ (test = "acknowledged" /\ ~Crashed))
           /\ Now("unknown") =>
              HasGate /\ ~Accepting /\ Wrote1 /\ ~Wrote2 /\ (IF test = "lost" THEN Released ELSE Broken)
           /\ Now("committed") =>
              Accepting /\ ~Restarted
           /\ Now("counter0") =>
              test \in {"before", "acceptedBefore"} /\ Caught /\ Released /\ (IF Accepting THEN ~Restarted ELSE ~Wrote2)
           /\ Now("backend0") =>
              test \in {"before", "acceptedBefore"} /\ Caught /\ ~Released /\ ~Broken /\ ~Restarted /\ ~Wrote2
           /\ Now("backend1") =>
              HasGate /\ test \notin {"before", "acceptedBefore"} /\ Caught /\ ~Broken /\ ~Wrote2 /\ ~Wrote3
           /\ Now("counter1") =>
              /\ ~Alone => ~Wrote3
              /\ Alone => Caught /\ ~Wrote2
              /\ test = "before" => Applied2
              /\ test \in {"after", "acceptedAfter"} => Caught
              /\ test = "acknowledged" => Acked
              /\ test = "acceptedBefore" => Drained
              /\ test = "acceptedOffset" => Offset /\ (Stored \/ ~Crashed)
           /\ Now("counter2") =>
              ~Accepting /\ Wrote2 /\ (IF Alone THEN Applied2 /\ ~Wrote3 ELSE Wrote3 /\ Applied3)
           /\ Now("pending") =>
              HasGate /\ Wrote1 /\ ~Broken /\ ~Released
           /\ Now("uncommitted") =>
              Accepting /\ HasGate /\ ~Restarted
           /\ Now("oneWrite") =>
              Alone /\ HasGate /\ Caught /\ ~Wrote2
           /\ Now("replayed") =>
              Accepting /\ HasGate /\ Crashed /\ Drained
           /\ Now("notReplayed") =>
              Accepting /\ test = "acceptedOffset" /\ Crashed
<1>1. ASSUME Now("applied")
      PROVE  ~Accepting /\ (Wrote2 \/ (test = "acknowledged" /\ ~Crashed))
  <2>1. \/ (test = "before" /\ step \in {12, 15})
        \/ (test = "after" /\ step \in {12, 15})
        \/ (test = "acknowledged" /\ step \in {2, 7, 10})
        \/ (test = "lost" /\ step = 11)
        \/ (test = "cancelled" /\ step = 10)
    BY <1>1, Due
  <2>2. QED
    BY <2>1 DEF After, Passed, Never, HasGate, Alone, Accepting, GatedTests, Tests,
       Gated, Caught, Released, Started, Crashed, Broken, Restarted, Wrote1, Acked,
       Settled, Wrote2, Applied2, Wrote3, Applied3, Offset, Drained, Stored, OneWrite, Ended
<1>2. ASSUME Now("unknown")
      PROVE  HasGate /\ ~Accepting /\ Wrote1 /\ ~Wrote2 /\ (IF test = "lost" THEN Released ELSE Broken)
  <2>1. \/ (test = "before" /\ step = 8)
        \/ (test = "after" /\ step = 8)
        \/ (test = "lost" /\ step = 7)
        \/ (test = "cancelled" /\ step = 6)
    BY <1>2, Due
  <2>2. QED
    BY <2>1 DEF After, Passed, Never, HasGate, Alone, Accepting, GatedTests, Tests,
       Gated, Caught, Released, Started, Crashed, Broken, Restarted, Wrote1, Acked,
       Settled, Wrote2, Applied2, Wrote3, Applied3, Offset, Drained, Stored, OneWrite, Ended
<1>3. ASSUME Now("committed")
      PROVE  Accepting /\ ~Restarted
  <2>1. \/ (test = "acceptedOffset" /\ step = 1)
    BY <1>3, Due
  <2>2. QED
    BY <2>1 DEF After, Passed, Never, HasGate, Alone, Accepting, GatedTests, Tests,
       Gated, Caught, Released, Started, Crashed, Broken, Restarted, Wrote1, Acked,
       Settled, Wrote2, Applied2, Wrote3, Applied3, Offset, Drained, Stored, OneWrite, Ended
<1>4. ASSUME Now("counter0")
      PROVE  test \in {"before", "acceptedBefore"} /\ Caught /\ Released /\ (IF Accepting THEN ~Restarted ELSE ~Wrote2)
  <2>1. \/ (test = "before" /\ step = 10)
        \/ (test = "acceptedBefore" /\ step = 7)
    BY <1>4, Due
  <2>2. QED
    BY <2>1 DEF After, Passed, Never, HasGate, Alone, Accepting, GatedTests, Tests,
       Gated, Caught, Released, Started, Crashed, Broken, Restarted, Wrote1, Acked,
       Settled, Wrote2, Applied2, Wrote3, Applied3, Offset, Drained, Stored, OneWrite, Ended
<1>5. ASSUME Now("backend0")
      PROVE  test \in {"before", "acceptedBefore"} /\ Caught /\ ~Released /\ ~Broken /\ ~Restarted /\ ~Wrote2
  <2>1. \/ (test = "before" /\ step = 4)
        \/ (test = "acceptedBefore" /\ step = 3)
    BY <1>5, Due
  <2>2. QED
    BY <2>1 DEF After, Passed, Never, HasGate, Alone, Accepting, GatedTests, Tests,
       Gated, Caught, Released, Started, Crashed, Broken, Restarted, Wrote1, Acked,
       Settled, Wrote2, Applied2, Wrote3, Applied3, Offset, Drained, Stored, OneWrite, Ended
<1>6. ASSUME Now("backend1")
      PROVE  HasGate /\ test \notin {"before", "acceptedBefore"} /\ Caught /\ ~Broken /\ ~Wrote2 /\ ~Wrote3
  <2>1. \/ (test = "after" /\ step = 4)
        \/ (test = "lost" /\ step = 4)
        \/ (test = "cancelled" /\ step = 4)
        \/ (test = "acceptedAfter" /\ step = 3)
    BY <1>6, Due
  <2>2. QED
    BY <2>1 DEF After, Passed, Never, HasGate, Alone, Accepting, GatedTests, Tests,
       Gated, Caught, Released, Started, Crashed, Broken, Restarted, Wrote1, Acked,
       Settled, Wrote2, Applied2, Wrote3, Applied3, Offset, Drained, Stored, OneWrite, Ended
<1>7. ASSUME Now("counter1")
      PROVE  /\ ~Alone => ~Wrote3
             /\ Alone => Caught /\ ~Wrote2
             /\ test = "before" => Applied2
             /\ test \in {"after", "acceptedAfter"} => Caught
             /\ test = "acknowledged" => Acked
             /\ test = "acceptedBefore" => Drained
             /\ test = "acceptedOffset" => Offset /\ (Stored \/ ~Crashed)
  <2>1. \/ (test = "before" /\ step = 13)
        \/ (test = "after" /\ step \in {10, 13})
        \/ (test = "acknowledged" /\ step \in {5, 8})
        \/ (test = "lost" /\ step = 8)
        \/ (test = "cancelled" /\ step = 8)
        \/ (test = "acceptedBefore" /\ step = 10)
        \/ (test = "acceptedAfter" /\ step = 9)
        \/ (test = "acceptedOffset" /\ step \in {2, 6})
    BY <1>7, Due
  <2>2. QED
    BY <2>1 DEF After, Passed, Never, HasGate, Alone, Accepting, GatedTests, Tests,
       Gated, Caught, Released, Started, Crashed, Broken, Restarted, Wrote1, Acked,
       Settled, Wrote2, Applied2, Wrote3, Applied3, Offset, Drained, Stored, OneWrite, Ended
<1>8. ASSUME Now("counter2")
      PROVE  ~Accepting /\ Wrote2 /\ (IF Alone THEN Applied2 /\ ~Wrote3 ELSE Wrote3 /\ Applied3)
  <2>1. \/ (test = "before" /\ step = 16)
        \/ (test = "after" /\ step = 16)
        \/ (test = "acknowledged" /\ step = 11)
        \/ (test = "lost" /\ step = 12)
        \/ (test = "cancelled" /\ step = 11)
    BY <1>8, Due
  <2>2. QED
    BY <2>1 DEF After, Passed, Never, HasGate, Alone, Accepting, GatedTests, Tests,
       Gated, Caught, Released, Started, Crashed, Broken, Restarted, Wrote1, Acked,
       Settled, Wrote2, Applied2, Wrote3, Applied3, Offset, Drained, Stored, OneWrite, Ended
<1>9. ASSUME Now("pending")
      PROVE  HasGate /\ Wrote1 /\ ~Broken /\ ~Released
  <2>1. \/ (test = "before" /\ step = 5)
        \/ (test = "after" /\ step = 5)
        \/ (test = "lost" /\ step = 5)
    BY <1>9, Due
  <2>2. QED
    BY <2>1 DEF After, Passed, Never, HasGate, Alone, Accepting, GatedTests, Tests,
       Gated, Caught, Released, Started, Crashed, Broken, Restarted, Wrote1, Acked,
       Settled, Wrote2, Applied2, Wrote3, Applied3, Offset, Drained, Stored, OneWrite, Ended
<1>10. ASSUME Now("uncommitted")
      PROVE  Accepting /\ HasGate /\ ~Restarted
  <2>1. \/ (test = "acceptedBefore" /\ step = 4)
        \/ (test = "acceptedAfter" /\ step = 4)
    BY <1>10, Due
  <2>2. QED
    BY <2>1 DEF After, Passed, Never, HasGate, Alone, Accepting, GatedTests, Tests,
       Gated, Caught, Released, Started, Crashed, Broken, Restarted, Wrote1, Acked,
       Settled, Wrote2, Applied2, Wrote3, Applied3, Offset, Drained, Stored, OneWrite, Ended
<1>11. ASSUME Now("oneWrite")
      PROVE  Alone /\ HasGate /\ Caught /\ ~Wrote2
  <2>1. \/ (test = "lost" /\ step = 9)
    BY <1>11, Due
  <2>2. QED
    BY <2>1 DEF After, Passed, Never, HasGate, Alone, Accepting, GatedTests, Tests,
       Gated, Caught, Released, Started, Crashed, Broken, Restarted, Wrote1, Acked,
       Settled, Wrote2, Applied2, Wrote3, Applied3, Offset, Drained, Stored, OneWrite, Ended
<1>12. ASSUME Now("replayed")
      PROVE  Accepting /\ HasGate /\ Crashed /\ Drained
  <2>1. \/ (test = "acceptedBefore" /\ step = 11)
        \/ (test = "acceptedAfter" /\ step = 10)
    BY <1>12, Due
  <2>2. QED
    BY <2>1 DEF After, Passed, Never, HasGate, Alone, Accepting, GatedTests, Tests,
       Gated, Caught, Released, Started, Crashed, Broken, Restarted, Wrote1, Acked,
       Settled, Wrote2, Applied2, Wrote3, Applied3, Offset, Drained, Stored, OneWrite, Ended
<1>13. ASSUME Now("notReplayed")
      PROVE  Accepting /\ test = "acceptedOffset" /\ Crashed
  <2>1. \/ (test = "acceptedOffset" /\ step = 7)
    BY <1>13, Due
  <2>2. QED
    BY <2>1 DEF After, Passed, Never, HasGate, Alone, Accepting, GatedTests, Tests,
       Gated, Caught, Released, Started, Crashed, Broken, Restarted, Wrote1, Acked,
       Settled, Wrote2, Applied2, Wrote3, Applied3, Offset, Drained, Stored, OneWrite, Ended
<1>14. QED
  BY <1>1, <1>2, <1>3, <1>4, <1>5, <1>6, <1>7, <1>8, <1>9, <1>10, <1>11, <1>12, <1>13

\* What a script waits for of a candidate that keeps its promises comes as it
\* expects it.
LEMMA AwaitingIsFair ==
    ASSUME IInv, Parts, test \in Tests, fault = "none", Awaiting
    PROVE  verdict' # "failed"
<1>1. step \in Nat
  BY DEF Parts, Types
<1>2. Done => verdict' # "failed"
  BY DEF Done
<1>3. CASE Now("applied") /\ told # "pending" /\ Require(told = "applied")
  <2>1. ~Accepting /\ (Wrote2 \/ (test = "acknowledged" /\ ~Crashed))
    BY <1>1, <1>3, Judging
  <2>2. told = "applied"
    BY <1>3, <2>1 DEF Parts, Told, Types
  <2>3. QED
    BY <1>2, <1>3, <2>2 DEF Require
<1>4. CASE Now("unknown") /\ told # "pending" /\ Require(told = "unknown")
  <2>1. HasGate /\ ~Accepting /\ Wrote1 /\ ~Wrote2 /\ (IF test = "lost" THEN Released ELSE Broken)
    BY <1>1, <1>4, Judging
  <2>2. told = "unknown"
    BY <1>4, <2>1 DEF Parts, Told, Types
  <2>3. QED
    BY <1>2, <1>4, <2>2 DEF Require
<1>5. CASE Now("committed") /\ offset # 0 /\ Require(offset = 1)
  <2>1. offset = 1
    BY <1>1, <1>5, Judging DEF Parts, Accepted
  <2>2. QED
    BY <1>2, <1>5, <2>1 DEF Require
<1>6. QED
  BY <1>2, <1>3, <1>4, <1>5 DEF Awaiting

\* A gate that still holds its request, or has discarded it, keeps it from the
\* backend.
LEMMA NothingStored ==
    ASSUME IInv, Parts, test \in {"before", "acceptedBefore"}, verdict = "running", Caught,
           IF Accepting THEN ~Restarted ELSE ~Wrote2
    PROVE  document.counter = 0
<1>1. HasGate /\ ~Alone /\ test \in Tests /\ G \in Gates /\ ~OnResponse[G] /\ G = first
  BY GateFacts DEF HasGate, GatedTests, Tests, Alone
<1>2. caught[G] = 1 /\ (Released => G \in discarded) /\ (~Released => release[G] = "shut")
  BY <1>1 DEF Parts, Gate
<1>3. at[1] \in {"refused", "abandoned", "request"}
  BY <1>1, <1>2, RequestFacts DEF IInv, Core, RequestsAreHeld
<1>4. 1 \notin committed
  BY <1>3, RequestFacts DEF IInv, Core, Committed, RequestStages
<1>5. Until(1)
  BY <1>1 DEF Parts, Carrying
<1>6. committed = {}
  BY <1>4, <1>5, Unsent
<1>7. ~Wrote3
  BY <1>1, Order, OrderWhenAccepting DEF Parts, Types
<1>8. QED
  BY <1>1, <1>6, <1>7, CounterShows

\* One exchange that the backend has executed stores one mutation.
LEMMA OnceStored ==
    ASSUME IInv, Parts, test \in Tests, fault = "none", committed # {},
           IF Alone THEN 1 \in committed /\ ~Wrote2 ELSE ~Wrote3
    PROVE  document.counter = 1
<1>1. CASE ~Alone
  BY <1>1, CounterShows
<1>2. CASE Alone
  <2>1. Until(1)
    BY <1>2 DEF Parts, Documents
  <2>2. QED
    BY <1>2, <2>1 DEF Parts, Documents, Count
<1>3. QED
  BY <1>1, <1>2

\* A record that an honest worker has committed is stored, after a crash by
\* its second exchange where the first was lost.
LEMMA CommittedIsStored ==
    ASSUME IInv, Parts, test \in Tests, fault = "none", Accepting
    PROVE  /\ HasGate /\ Drained => at[2] = "answered" /\ 2 \in committed /\ ~Until(1)
           /\ test = "acceptedOffset" /\ Offset /\ (Stored \/ ~Crashed) => committed # {}
<1>0. step \in Nat
  BY DEF Parts, Types
<1>1. ASSUME HasGate, Drained PROVE at[2] = "answered" /\ 2 \in committed /\ ~Until(1)
  <2>1. place >= 1
    BY <1>1 DEF Parts, Accepted
  <2>2. at[2] = "answered"
    BY <1>1, <2>1 DEF Parts, Accepted
  <2>3. QED
    BY <2>2, Unsent, RequestFacts DEF Until
<1>2. ASSUME test = "acceptedOffset", Offset, Stored \/ ~Crashed PROVE committed # {}
  <2>1. CASE Stored
    BY <2>1 DEF Parts, Documents
  <2>2. CASE ~Crashed
    <3>1. ~Restarted
      BY <1>0, <2>2, Order
    <3>2. offset = 1
      BY <1>2, <3>1 DEF Parts, Accepted
    <3>3. at[1] = "answered"
      BY <2>2, <3>2 DEF Parts, Accepted
    <3>4. QED
      BY <3>3, Unsent, RequestFacts
  <2>3. QED
    BY <1>2, <2>1, <2>2
<1>3. QED
  BY <1>1, <1>2

\* What a script compares it finds as it expects it of a candidate that keeps
\* its promises.
LEMMA AssertingIsFair ==
    ASSUME IInv, Parts, test \in Tests, fault = "none", Asserting
    PROVE  verdict' # "failed"
<1>1. step \in Nat
  BY DEF Parts, Types
<1>2. Done => verdict' # "failed"
  BY DEF Done
<1>3. \A n : Now(n) => verdict = "running"
  BY DEF Now
<1>4. CASE (Now("counter0") \/ Now("backend0")) /\ Require(document.counter = 0)
  <2>1. test \in {"before", "acceptedBefore"} /\ Caught /\ (IF Accepting THEN ~Restarted ELSE ~Wrote2)
    BY <1>1, <1>4, Judging
  <2>2. document.counter = 0
    BY <1>3, <1>4, <2>1, NothingStored
  <2>3. QED
    BY <1>2, <1>4, <2>2 DEF Require
<1>5. CASE Now("backend1") /\ Require(document.counter = 1)
  <2>1. HasGate /\ test \notin {"before", "acceptedBefore"} /\ Caught /\ ~Broken /\ ~Wrote2 /\ ~Wrote3
    BY <1>1, <1>5, Judging
  <2>2. 1 \in committed
    BY <2>1, CaughtOnReturn
  <2>3. document.counter = 1
    BY <2>1, <2>2, OnceStored
  <2>4. QED
    BY <1>2, <1>5, <2>3 DEF Require
<1>6. CASE Now("counter1") /\ Require(document.counter = 1)
  <2>1. /\ ~Alone => ~Wrote3
        /\ Alone => Caught /\ ~Wrote2
        /\ test = "before" => Applied2
        /\ test \in {"after", "acceptedAfter"} => Caught
        /\ test = "acknowledged" => Acked
        /\ test = "acceptedBefore" => Drained
        /\ test = "acceptedOffset" => Offset /\ (Stored \/ ~Crashed)
    BY <1>1, <1>6, Judging
  <2>2. CASE Alone
    <3>1. 1 \in committed
      BY <2>1, <2>2, CaughtOnReturn DEF Alone
    <3>2. document.counter = 1
      BY <2>1, <2>2, <3>1, OnceStored
    <3>3. QED
      BY <1>2, <1>6, <3>2 DEF Require
  <2>3. CASE test \in {"after", "acceptedAfter", "acknowledged"}
    <3>1. 1 \in committed
      BY <2>1, <2>3, CaughtOnReturn DEF Parts, Told
    <3>2. document.counter = 1
      BY <2>1, <2>3, <3>1, OnceStored DEF Alone
    <3>3. QED
      BY <1>2, <1>6, <3>2 DEF Require
  <2>4. CASE test = "before"
    <3>1. ~Accepting /\ ~Alone
      BY <2>4 DEF Accepting, Alone
    <3>2. told = "applied" /\ Wrote2
      BY <1>1, <2>1, <2>4, <3>1, Order DEF Parts, Told
    <3>3. current # Nobody /\ at[current] = "answered"
      BY <3>1, <3>2 DEF Parts, Told
    <3>4. committed # {}
      BY <3>3, Unsent DEF Parts, Types
    <3>5. document.counter = 1
      BY <2>1, <3>1, <3>4, OnceStored
    <3>6. QED
      BY <1>2, <1>6, <3>5 DEF Require
  <2>5. CASE test \in {"acceptedBefore", "acceptedOffset"}
    <3>1. Accepting /\ ~Alone /\ (test = "acceptedBefore" => HasGate)
      BY <2>5 DEF Accepting, Alone, HasGate, GatedTests
    <3>2. committed # {}
      BY <2>1, <2>5, <3>1, CommittedIsStored
    <3>3. document.counter = 1
      BY <2>1, <3>1, <3>2, OnceStored
    <3>4. QED
      BY <1>2, <1>6, <3>3 DEF Require
  <2>6. QED
    BY <2>2, <2>3, <2>4, <2>5 DEF Tests, GatedTests, Alone
<1>7. CASE Now("counter2") /\ Require(document.counter = 2)
  <2>1. ~Accepting /\ Wrote2 /\ (IF Alone THEN Applied2 /\ ~Wrote3 ELSE Wrote3 /\ Applied3)
    BY <1>1, <1>7, Judging
  <2>2. told = "applied"
    BY <2>1 DEF Parts, Told
  <2>3. current # Nobody /\ at[current] = "answered"
    BY <2>1, <2>2 DEF Parts, Told
  <2>4. current \in Requests /\ current \in committed /\ Sent(current)
    BY <2>3, Unsent DEF Parts, Types, Sent
  <2>5. CASE ~Alone
    <3>1. /\ current \in Increments
          /\ document.counter = IF Increments \cap committed = {} THEN 1 ELSE 2
      BY <2>1, <2>3, <2>5 DEF Parts, Documents
    <3>2. document.counter = 2
      BY <2>4, <3>1
    <3>3. QED
      BY <1>2, <1>7, <3>2 DEF Require
  <2>6. CASE Alone
    <3>1. Until(2) /\ document.counter = Count(1) + Count(2)
      BY <2>6 DEF Parts, Documents
    <3>2. current # 1
      BY <2>1 DEF Parts, Carrying
    <3>3. current = 2
      BY <2>4, <3>1, <3>2, RequestFacts DEF Until, Sent
    <3>4. Caught
      BY <1>1, <2>1, <2>6, Order, OrderWithGate DEF Alone, GatedTests
    <3>5. 1 \in committed
      BY <2>6, <3>4, CaughtOnReturn DEF Alone
    <3>6. document.counter = 2
      BY <2>4, <3>1, <3>3, <3>5 DEF Count
    <3>7. QED
      BY <1>2, <1>7, <3>6 DEF Require
  <2>7. QED
    BY <2>5, <2>6
<1>8. CASE Now("pending") /\ Require(told = "pending")
  <2>1. HasGate /\ Wrote1 /\ ~Broken /\ ~Released
    BY <1>1, <1>8, Judging
  <2>2. told = "pending"
    BY <2>1 DEF Parts, Told
  <2>3. QED
    BY <1>2, <1>8, <2>2 DEF Require
<1>9. CASE Now("uncommitted") /\ Require(offset = 0)
  <2>1. Accepting /\ HasGate /\ ~Restarted
    BY <1>1, <1>9, Judging
  <2>2. offset = 0
    BY <2>1 DEF Parts, Accepted
  <2>3. QED
    BY <1>2, <1>9, <2>2 DEF Require
<1>10. CASE Now("oneWrite") /\ Require(Exchanges = 1)
  <2>1. Alone /\ HasGate /\ Caught /\ ~Wrote2
    BY <1>1, <1>10, Judging
  <2>2. Until(1)
    BY <2>1 DEF Parts, Documents
  <2>3. 1 \in committed
    BY <2>1, CaughtOnReturn DEF Alone
  <2>4. Sent(1)
    BY <2>3, Unsent, RequestFacts DEF Sent
  <2>5. QED
    BY <1>2, <1>10, <2>2, <2>4, Counting DEF Require
<1>11. CASE Now("replayed") /\ Require(ReadTimes(Nat \ {0, 1}))
  <2>1. Accepting /\ HasGate /\ Crashed /\ Drained
    BY <1>1, <1>11, Judging
  <2>2. ~Until(1)
    BY <2>1, CommittedIsStored
  <2>3. snapshots = 2
    BY <2>1, <2>2 DEF Parts, Accepted
  <2>4. QED
    BY <1>2, <1>11, <2>3 DEF Require, ReadTimes
<1>12. CASE Now("notReplayed") /\ Require(ReadTimes({1}))
  <2>1. Accepting /\ test = "acceptedOffset" /\ Crashed
    BY <1>1, <1>12, Judging
  <2>2. task = "none" /\ ~Sent(2)
    BY <2>1 DEF Parts, Accepted
  <2>3. Until(1)
    BY <2>2, RequestFacts DEF Parts, Carrying, Until, Sent
  <2>4. ~merged
    BY <2>2 DEF Parts, Carrying
  <2>5. snapshots = 1
    BY <2>1, <2>3, <2>4 DEF Parts, Accepted
  <2>6. QED
    BY <1>2, <1>12, <2>5 DEF Require, ReadTimes
<1>13. QED
  BY <1>4, <1>5, <1>6, <1>7, <1>8, <1>9, <1>10, <1>11, <1>12 DEF Asserting

\* The scripts, their candidate and the proxy, until a script fails; and no
\* script fails a candidate that keeps its promises.
ScriptsInv ==
    /\ Types
    /\ Going => Parts
    /\ test = "any" => verdict = "running"
    /\ NoFalseFailure

\* A step fails no candidate that keeps its promises, and the test that is no
\* script has no verdict.
LEMMA StepIsFair ==
    ASSUME IInv, ScriptsInv, [AllNext]_allVars
    PROVE  NoFalseFailure' /\ (test' = "any" => verdict' = "running")
<1>1. test' = test /\ fault' = fault
  BY FailureStays
<1>2. SUFFICES /\ fault = "none" /\ test # "any" => verdict' # "failed"
               /\ test = "any" => verdict' = "running"
  BY <1>1 DEF NoFalseFailure
<1>3. /\ fault = "none" /\ test # "any" => test \in Tests /\ Parts
      /\ fault = "none" => verdict # "failed"
      /\ test = "any" => verdict = "running"
  BY DEF ScriptsInv, NoFalseFailure, Types, Going
<1>4. CASE Gating \/ Write \/ Cancel \/ Crash \/ Start
  BY <1>4 DEF Gating, Write, Cancel, Crash, Start, Now, Done
<1>5. CASE Awaiting
  <2>1. test # "any"
    BY <1>5 DEF Awaiting, Now
  <2>2. QED
    BY <1>3, <1>5, <2>1, AwaitingIsFair
<1>6. CASE Asserting
  <2>1. test # "any"
    BY <1>6 DEF Asserting, Now
  <2>2. QED
    BY <1>3, <1>6, <2>1, AssertingIsFair
<1>7. CASE TimeOut
  BY <1>7 DEF TimeOut, Now
<1>8. CASE Candidate
  BY <1>3, <1>8 DEF Candidate, Take, Read, Send, Settle, Hasten, ByCandidate, script
<1>9. CASE Free \/ Cleanup \/ Close
  BY <1>3, <1>9 DEF Free, Cleanup, Close, script
<1>10. ASSUME NEW r \in Requests, Proxy(r) \/ Part(r)
       PROVE  /\ fault = "none" /\ test # "any" => verdict' # "failed"
              /\ test = "any" => verdict' = "running"
  BY <1>3, <1>10 DEF Proxy, Part, script
<1>11. CASE UNCHANGED allVars
  BY <1>3, <1>11 DEF allVars, script
<1>12. QED
  BY <1>4, <1>5, <1>6, <1>7, <1>8, <1>9, <1>10, <1>11 DEF AllNext, TestStep

\* A script that has ended has counted every mutation once.
LEMMA EndedIsSafe ==
    ASSUME IInv, Parts, test \in Tests, Ended
    PROVE  /\ test \in GatedTests => ~early
           /\ test # "cancelled" => document.counter = IF Accepting THEN 1 ELSE 2
           /\ test \in {"lost", "acceptedBefore", "acceptedAfter"} => Exchanges = 2
           /\ test = "acceptedOffset" => Exchanges = 1
<1>0. step \in Nat
  BY DEF Parts, Types
<1>1. ASSUME test \in GatedTests PROVE ~early
  <2>1. HasGate
    BY <1>1 DEF HasGate
  <2>2. CASE Accepting
    BY <2>1, <2>2 DEF Parts, Accepted
  <2>3. CASE ~Accepting
    <3>1. Settled
      BY <1>0, <1>1, <2>3, OrderWithGate, Order
    <3>2. QED
      BY <2>1, <2>3, <3>1 DEF Parts, Told
  <2>4. QED
    BY <2>2, <2>3
<1>2. ASSUME test = "lost" PROVE document.counter = 2 /\ Exchanges = 2
  <2>1. Alone /\ OneWrite /\ ~Accepting
    <3>1. step >= 13
      BY <1>0, <1>2 DEF Ended, After, Passed, Never
    <3>2. QED
      BY <1>0, <1>2, <3>1 DEF Alone, OneWrite, After, Passed, Never, Accepting
  <2>2. Until(2) /\ document.counter = Count(1) + Count(2)
    BY <2>1 DEF Parts, Documents
  <2>3. Caught
    BY <1>0, <1>2, <2>1, Order
  <2>4. 1 \in committed
    BY <1>2, <2>3, CaughtOnReturn
  <2>5. 2 \in committed
    BY <1>2 DEF Parts, Documents
  <2>6. Sent(2)
    BY <2>5, Unsent, RequestFacts DEF Sent
  <2>7. QED
    BY <2>2, <2>4, <2>5, <2>6, Counting DEF Count
<1>3. ASSUME ~Alone PROVE document.counter = IF Accepting THEN 1 ELSE 2
  BY <1>3 DEF Parts, Documents
<1>4. ASSUME test \in {"acceptedBefore", "acceptedAfter"} PROVE Exchanges = 2
  <2>1. Accepting /\ HasGate
    BY <1>4 DEF Accepting, HasGate, GatedTests
  <2>2. Sent(2) /\ Until(2)
    BY <2>1 DEF Parts, Accepted
  <2>3. QED
    BY <2>2, Counting
<1>5. ASSUME test = "acceptedOffset" PROVE Exchanges = 1
  <2>1. Accepting /\ ~Alone /\ ~HasGate
    BY <1>5 DEF Accepting, Alone, HasGate, GatedTests
  <2>2. Until(1)
    BY <1>5, <2>1 DEF Parts, Accepted
  <2>3. Crashed
    BY <1>0, <2>1, Order, OrderWhenAccepting
  <2>4. Sent(1)
    BY <2>1, <2>3 DEF Parts, Accepted
  <2>5. QED
    BY <2>2, <2>4, Counting
<1>6. QED
  BY <1>1, <1>2, <1>3, <1>4, <1>5 DEF Alone, Accepting

\* The invariant says that a candidate that passes is safe.
LEMMA PassedMeaning == IInv /\ ScriptsInv => PassedIsSafe
<1> SUFFICES ASSUME IInv, ScriptsInv, verdict = "passed"
             PROVE  /\ test \in GatedTests => ~early
                    /\ test # "cancelled" => document.counter = IF Accepting THEN 1 ELSE 2
                    /\ test \in {"lost", "acceptedBefore", "acceptedAfter"} => Exchanges = 2
                    /\ test = "acceptedOffset" => Exchanges = 1
  BY DEF PassedIsSafe
<1>1. test \in Tests /\ Parts
  BY DEF ScriptsInv, Types, Going
<1>2. Ended
  BY <1>1 DEF Parts, Progress
<1>3. QED
  BY <1>1, <1>2, EndedIsSafe

\* A script has failed nobody before its first step.
LEMMA InitScriptsInv == AllInit => ScriptsInv
<1> SUFFICES ASSUME AllInit PROVE ScriptsInv
  OBVIOUS
<1>1. Types /\ (Going => Parts)
  BY InitScripts
<1>2. verdict = "running"
  BY DEF AllInit
<1>3. QED
  BY <1>1, <1>2 DEF ScriptsInv, NoFalseFailure

\* Every step keeps the invariant.
LEMMA StepScriptsInv == IInv /\ ScriptsInv /\ [AllNext]_allVars => ScriptsInv'
<1> SUFFICES ASSUME IInv, ScriptsInv, [AllNext]_allVars PROVE ScriptsInv'
  OBVIOUS
<1>1. Types' /\ (Going' => Parts')
  BY StepScripts DEF ScriptsInv
<1>2. NoFalseFailure' /\ (test' = "any" => verdict' = "running")
  BY StepIsFair
<1>3. QED
  BY <1>1, <1>2 DEF ScriptsInv

\* In every crash and fault test, for any exchanges, the script, its candidate
\* and the proxy stay as the script believes them to be until it fails.
THEOREM ScriptsInvariance == AllSpec => [](IInv /\ ScriptsInv)
<1>1. AllSpec => []IInv
  BY TestsRunTheProxy, Invariance
<1>2. QED
  BY <1>1, InitScriptsInv, StepScriptsInv, PTL DEF AllSpec

\* No script fails a candidate that keeps its promises, wherever the crash or
\* the lost exchange falls.
THEOREM HonestPasses == AllSpec => []NoFalseFailure
<1>1. ScriptsInv => NoFalseFailure
  BY DEF ScriptsInv
<1>2. QED
  BY <1>1, ScriptsInvariance, PTL

\* What a passing script claims of its candidate is true: it acknowledged
\* nothing too early and wrote every mutation once.
THEOREM PassedScriptsAreSafe == AllSpec => []PassedIsSafe
BY PassedMeaning, ScriptsInvariance, PTL
=============================================================================
