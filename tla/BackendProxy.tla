---------------------------- MODULE BackendProxy ----------------------------
(***************************************************************************)
(* The fault-injecting proxy of conformance/harness_test.go between the    *)
(* candidate and its real backend.  A request gate stops the nth matching  *)
(* request before the backend sees it, a response gate the nth matching    *)
(* response before the candidate sees it.  A test waits until a gate has   *)
(* caught its exchange, crashes the candidate or not, and opens or         *)
(* discards the gate; what it concludes rests on where the exchange is.    *)
(* The backend and the candidate's connections are external.               *)
(***************************************************************************)
EXTENDS Integers, Sequences, Functions

CONSTANTS
    Requests,      \* the exchanges of the candidate with the backend
    Gates,
    Nobody,
    Matches,       \* Matches[g]: the exchanges with the path and key of g
    Nth,           \* Nth[g]: which of them g stops
    OnResponse,    \* OnResponse[g]: g stops the response
    Drops          \* Drops[g]: and loses it

ASSUME GatesAssumption ==
    /\ Nobody \notin Requests
    /\ Matches \in [Gates -> SUBSET Requests] /\ Nth \in [Gates -> Nat \ {0}]
    /\ OnResponse \in [Gates -> BOOLEAN] /\ Drops \in [Gates -> BOOLEAN]
    /\ \A g \in Gates : Drops[g] => OnResponse[g]

VARIABLES
    gates,       \* the registered gates, in order
    seen,        \* exchanges each gate has counted
    caught,      \* the exchange that closed the entered channel of a gate
    release,     \* the release channel of a gate: "shut", "marked", "open"
    discarded,   \* the gates discarded
    at,          \* where the handler of each exchange is
    held,        \* the gates it has still to pass
    gone,        \* exchanges whose connection the proxy knows is closed
    committed,   \* exchanges the backend has executed
    phase        \* "testing", "opened" (the gates), "closed" (the server)

gate == <<gates, seen, release, discarded>>
vars == <<gate, caught, at, held, gone, committed, phase>>

Finished == {"refused", "abandoned", "failed", "dropped", "answered"}

Init ==
    /\ gates = <<>> /\ seen = [g \in Gates |-> 0] /\ caught = [g \in Gates |-> Nobody]
    /\ release = [g \in Gates |-> "shut"] /\ discarded = {}
    /\ at = [r \in Requests |-> "unsent"] /\ held = [r \in Requests |-> {}]
    /\ gone = {} /\ committed = {} /\ phase = "testing"
-----------------------------------------------------------------------------
(* The test. *)

\* hold and holdResponse: the gate sees what arrives from now on.
Hold(g) ==
    /\ phase = "testing" /\ g \notin Range(gates)
    /\ gates' = Append(gates, g)
    /\ UNCHANGED <<seen, release, discarded, caught, at, held, gone, committed, phase>>

\* open: only the first open or discard of a gate has an effect.
Open(g) ==
    /\ phase = "testing" /\ g \in Range(gates) /\ release[g] = "shut"
    /\ release' = [release EXCEPT ![g] = "open"]
    /\ UNCHANGED <<gates, seen, discarded, caught, at, held, gone, committed, phase>>

\* discard marks the gate and then closes its release channel.
Discard(g) ==
    /\ phase = "testing" /\ g \in Range(gates) /\ release[g] = "shut"
    /\ release' = [release EXCEPT ![g] = "marked"]
    /\ discarded' = discarded \cup {g}
    /\ UNCHANGED <<gates, seen, caught, at, held, gone, committed, phase>>

CloseRelease(g) ==
    /\ release[g] = "marked"
    /\ release' = [release EXCEPT ![g] = "open"]
    /\ UNCHANGED <<gates, seen, discarded, caught, at, held, gone, committed, phase>>
-----------------------------------------------------------------------------
(* The handlers. *)

\* The gates that stop exchange r on its way to or from the backend.
Catching(r, response) ==
    {g \in Range(gates) :
        r \in Matches[g] /\ OnResponse[g] = response /\ seen[g] + 1 = Nth[g]}

\* The gates that count it.
Counted(r, response) ==
    [g \in Gates |-> IF g \in Range(gates) /\ r \in Matches[g] /\ OnResponse[g] = response
                     THEN seen[g] + 1 ELSE seen[g]]

\* A request arrives; the gates that stop it have all caught it at once.
Arrive(r) ==
    /\ phase # "closed" /\ at[r] = "unsent"
    /\ at' = [at EXCEPT ![r] = "request"]
    /\ seen' = Counted(r, FALSE)
    /\ held' = [held EXCEPT ![r] = Catching(r, FALSE)]
    /\ caught' = [g \in Gates |-> IF g \in Catching(r, FALSE) THEN r ELSE caught[g]]
    /\ UNCHANGED <<gates, release, discarded, gone, committed, phase>>

\* Gate g is the next of those that stop exchange r: they are passed in the
\* order of their registration.
Earlier(h, g) == \E i, j \in 1..Len(gates) : i < j /\ gates[i] = h /\ gates[j] = g
Turn(g, r) == g \in held[r] /\ \A h \in held[r] : ~Earlier(h, g)

\* Mutated forms: the gate need not be open, and its mark is not read.
PassShut(r) ==
    /\ at[r] = "request"
    /\ \E g \in Gates : Turn(g, r) /\ held' = [held EXCEPT ![r] = @ \ {g}]
    /\ UNCHANGED <<gate, caught, at, gone, committed, phase>>
PassUnmarked(r) ==
    /\ at[r] = "request"
    /\ \E g \in Gates : /\ Turn(g, r) /\ release[g] = "open"
                        /\ held' = [held EXCEPT ![r] = @ \ {g}]
    /\ UNCHANGED <<gate, caught, at, gone, committed, phase>>

\* A held request passes its next gate, or is lost there.
PassRequest(r) ==
    /\ at[r] = "request"
    /\ \E g \in Gates :
          /\ Turn(g, r) /\ release[g] = "open"
          /\ \/ g \in discarded /\ at' = [at EXCEPT ![r] = "refused"] /\ UNCHANGED held
             \/ g \notin discarded /\ held' = [held EXCEPT ![r] = @ \ {g}] /\ UNCHANGED at
    /\ UNCHANGED <<gate, caught, gone, committed, phase>>

\* The connection of a held request is closed: it is not forwarded.
AbandonRequest(r) ==
    /\ at[r] = "request" /\ held[r] # {} /\ r \in gone
    /\ at' = [at EXCEPT ![r] = "abandoned"]
    /\ UNCHANGED <<gate, caught, held, gone, committed, phase>>

\* The backend executes a request that no gate holds, and answers.
Forward(r) ==
    /\ at[r] = "request" /\ held[r] = {}
    /\ committed' = committed \cup {r}
    /\ at' = [at EXCEPT ![r] = "executed"]
    /\ UNCHANGED <<gate, caught, held, gone, phase>>

\* Forwarding fails because the connection is closed; the backend may have
\* executed the request.
ForwardFails(r) ==
    /\ at[r] = "request" /\ held[r] = {} /\ r \in gone
    /\ committed' \in {committed, committed \cup {r}}
    /\ at' = [at EXCEPT ![r] = "failed"]
    /\ UNCHANGED <<gate, caught, held, gone, phase>>

\* ModifyResponse: the response meets the response gates.
Respond(r) ==
    /\ at[r] = "executed"
    /\ at' = [at EXCEPT ![r] = "response"]
    /\ seen' = Counted(r, TRUE)
    /\ held' = [held EXCEPT ![r] = Catching(r, TRUE)]
    /\ UNCHANGED <<gates, release, discarded, caught, gone, committed, phase>>

\* The response reaches its next gate, which only now has caught it.
Reach(r) ==
    /\ at[r] = "response"
    /\ \E g \in Gates : /\ Turn(g, r) /\ caught[g] = Nobody
                        /\ caught' = [caught EXCEPT ![g] = r]
    /\ UNCHANGED <<gate, at, held, gone, committed, phase>>

\* Mutated form: the gate is not asked whether it drops the response.
NeverLost(g) == FALSE

Lost(g) == Drops[g]

\* The response passes that gate, or is lost there.
PassResponse(r) ==
    /\ at[r] = "response"
    /\ \E g \in Gates :
          /\ Turn(g, r) /\ caught[g] = r /\ release[g] = "open"
          /\ \/ Lost(g) /\ at' = [at EXCEPT ![r] = "dropped"] /\ UNCHANGED held
             \/ ~Lost(g) /\ held' = [held EXCEPT ![r] = @ \ {g}] /\ UNCHANGED at
    /\ UNCHANGED <<gate, caught, gone, committed, phase>>

\* The connection of a held response is closed: reading it fails before the
\* first gate, or waiting at a gate ends.
AbandonResponse(r) ==
    /\ at[r] = "response" /\ r \in gone
    /\ \E g \in Gates :
          Turn(g, r) /\ (caught[g] = r \/ \A h \in Gates : OnResponse[h] => caught[h] # r)
    /\ at' = [at EXCEPT ![r] = "failed"]
    /\ UNCHANGED <<gate, caught, held, gone, committed, phase>>

Deliver(r) ==
    /\ at[r] = "response" /\ held[r] = {}
    /\ at' = [at EXCEPT ![r] = "answered"]
    /\ UNCHANGED <<gate, caught, held, gone, committed, phase>>

\* External: the proxy learns that the candidate closed the connection, at
\* once or long after a crash.
Disconnect(r) ==
    /\ at[r] \notin Finished \cup {"unsent"} /\ r \notin gone
    /\ gone' = gone \cup {r}
    /\ UNCHANGED <<gate, caught, at, held, committed, phase>>
-----------------------------------------------------------------------------
(* The end of the test: its cleanups run in the reverse order of their     *)
(* registration.                                                           *)

\* Mutated form: the cleanup leaves the gates shut.
OpenedNone == release

\* The gates nobody opened.
Opened == [g \in Gates |-> IF g \in Range(gates) THEN "open" ELSE release[g]]

OpenAll ==
    /\ phase = "testing"
    /\ \A g \in Gates : release[g] # "marked"
    /\ release' = Opened
    /\ phase' = "opened"
    /\ UNCHANGED <<gates, seen, discarded, caught, at, held, gone, committed>>

\* server.Close waits for the handlers.
CloseServer ==
    /\ phase = "opened"
    /\ \A r \in Requests : at[r] \in Finished \cup {"unsent"}
    /\ phase' = "closed"
    /\ UNCHANGED <<gate, caught, at, held, gone, committed>>

Handle(r) ==
    \/ PassRequest(r) \/ AbandonRequest(r) \/ Forward(r) \/ ForwardFails(r)
    \/ Respond(r) \/ Reach(r) \/ PassResponse(r) \/ AbandonResponse(r) \/ Deliver(r)

Next ==
    \/ \E g \in Gates : Hold(g) \/ Open(g) \/ Discard(g) \/ CloseRelease(g)
    \/ \E r \in Requests : Arrive(r) \/ Handle(r) \/ Disconnect(r)
    \/ OpenAll \/ CloseServer

Spec == Init /\ [][Next]_vars

-----------------------------------------------------------------------------
TypeOK ==
    /\ gates \in Seq(Gates)
    /\ seen \in [Gates -> Nat] /\ caught \in [Gates -> Requests \cup {Nobody}]
    /\ release \in [Gates -> {"shut", "marked", "open"}] /\ discarded \subseteq Gates
    /\ at \in [Requests -> {"unsent", "request", "executed", "response"} \cup Finished]
    /\ held \in [Requests -> SUBSET Gates]
    /\ gone \subseteq Requests /\ committed \subseteq Requests
    /\ phase \in {"testing", "opened", "closed"}

\* What a test may conclude when wait returns and it has not let go: behind a
\* request gate the backend has not seen the request, behind a response gate
\* it has executed it and the candidate has not been told.
CrashBoundary ==
    \A g \in Gates : caught[g] # Nobody /\ release[g] # "open" =>
        IF OnResponse[g] THEN caught[g] \in committed /\ at[caught[g]] # "answered"
                         ELSE caught[g] \notin committed

\* A discarded request never reaches the backend, however late the proxy
\* learns that the candidate is gone, and whoever else opens the gate.
DiscardedIsLost ==
    \A g \in discarded : ~OnResponse[g] /\ caught[g] # Nobody => caught[g] \notin committed

\* The end of a test never hangs on an exchange that a gate still holds.
Closes == <>(phase = "closed")
=============================================================================
