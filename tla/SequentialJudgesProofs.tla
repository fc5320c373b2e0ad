----------------------- MODULE SequentialJudgesProofs -----------------------
(***************************************************************************)
(* The two judges that run alone: the validator of test events and the     *)
(* checker of sequences of writes.                                         *)
(*                                                                         *)
(* The validator accepts exactly the green runs, for any number of         *)
(* packages, tests and repetitions, and any list of required names.  While *)
(* nothing has been lost, its maps hold what the packages and tests are    *)
(* really doing.  The list of passed names is the exception, since a name  *)
(* stays on it when its test runs again; the map of the tests that were    *)
(* started makes up for it at the end.                                     *)
(*                                                                         *)
(* The state checker, for any keys, any sequence and batches of any size:  *)
(* what it predicts, write by write, is the sequential semantics.  A batch *)
(* executed as a whole does what its writes do one by one, so a server     *)
(* that has not erred has answered and stored what was predicted, and one  *)
(* that answers and stores it has done what the semantics demands.         *)
(***************************************************************************)
EXTENDS TestEvents, StateCheck, WellFoundedInduction, TLAPS

-----------------------------------------------------------------------------
(* Test events. *)

Maps ==
  /\ life \in [Packages -> {"waiting", "open", "passed", "lost"}]
  /\ status \in [TestKeys -> {"waiting", "running", "passed", "lost"}]
  /\ tests \in Nat
  /\ list \in Lists
  /\ verdict \in {"opening", "reading", "accepted", "rejected"}

\* Nothing was lost, or the reading has ended.
NothingLost ==
  /\ \A p \in Packages : life[p] # "lost"
  /\ \A k \in TestKeys : status[k] # "lost"

\* The maps follow the packages and the tests.
Followed ==
  /\ DOMAIN packages = {p \in Packages : life[p] # "waiting"}
  /\ \A p \in DOMAIN packages : packages[p] = (life[p] = "passed")
  /\ DOMAIN started = {k \in TestKeys : status[k] # "waiting"}
  /\ \A k \in DOMAIN started : started[k] = (status[k] = "passed")

\* A name that passed belongs to a test that was started, and a test that has
\* passed is on the list and counted.
Listed ==
  /\ \A t \in passed : t \in Tests /\ \E p \in Packages : status[<<p, t>>] # "waiting"
  /\ \A p \in Packages, t \in Tests : status[<<p, t>>] = "passed" => t \in passed
  /\ tests > 0 <=> passed # {}

\* A test runs in a package that was started.
Begun == \A p \in Packages, t \in Tests : status[<<p, t>>] # "waiting" => life[p] # "waiting"

Kept == NothingLost /\ Followed /\ Listed /\ Begun

EventsIInv ==
  /\ Maps
  /\ verdict # "rejected" => Kept
  /\ verdict = "accepted" => Sufficient
-----------------------------------------------------------------------------
\* The invariant holds before the first event.
LEMMA InitEventsIInv == EventsInit => EventsIInv
<1> SUFFICES ASSUME EventsInit PROVE EventsIInv
  OBVIOUS
<1>1. DOMAIN started = {} /\ DOMAIN packages = {}
  BY DEF EventsInit
<1>2. \A p \in Packages, t \in Tests : status[<<p, t>>] = "waiting"
  BY DEF EventsInit, TestKeys
<1>3. Kept
  BY <1>1, <1>2 DEF EventsInit, Kept, NothingLost, Followed, Listed, Begun
<1>4. QED
  BY <1>3 DEF EventsInit, EventsIInv, Maps

\* What the conditions at the end of the stream say of the run.
LEMMA SufficientIsGreen ==
  ASSUME EventsIInv, Kept
  PROVE  Sufficient <=> Green
<1>1. Maps /\ NothingLost /\ Followed /\ Listed /\ Begun
  BY DEF EventsIInv, Kept
<1>2. Complete(packages) <=> \A p \in Packages : life[p] \in {"waiting", "passed"}
  BY <1>1 DEF Complete, Followed, Maps
<1>3. Complete(started) <=> \A k \in TestKeys : status[k] \in {"waiting", "passed"}
  BY <1>1 DEF Complete, Followed, Maps
<1>4. \A k \in TestKeys : \E p \in Packages, t \in Tests : k = <<p, t>>
  BY DEF TestKeys
<1>5. \A p \in Packages, t \in Tests : <<p, t>> \in TestKeys
  BY DEF TestKeys
<1>6. ASSUME \A k \in TestKeys : status[k] \in {"waiting", "passed"}
      PROVE  \A t : t \in passed <=> t \in Tests /\ \E p \in Packages : status[<<p, t>>] = "passed"
  BY <1>1, <1>5, <1>6 DEF Listed
<1>7. ASSUME \A k \in TestKeys : status[k] \in {"waiting", "passed"}
      PROVE  /\ tests > 0 <=> \E k \in TestKeys : status[k] = "passed"
             /\ tests > 0 => DOMAIN packages # {}
  <2>1. passed # {} => \E k \in TestKeys : status[k] = "passed"
    BY <1>5, <1>6, <1>7
  <2>2. (\E k \in TestKeys : status[k] = "passed") => passed # {}
    BY <1>1, <1>4 DEF Listed
  <2>3. (\E k \in TestKeys : status[k] = "passed") => DOMAIN packages # {}
    BY <1>1, <1>4 DEF Begun, Followed
  <2>4. QED
    BY <1>1, <2>1, <2>2, <2>3 DEF Listed
<1>8. ASSUME \A k \in TestKeys : status[k] \in {"waiting", "passed"}
      PROVE  Required \subseteq passed <=>
                \/ list = Absent
                \/ \A t \in Range(list) : t \in Tests /\ \E p \in Packages : status[<<p, t>>] = "passed"
  BY <1>6, <1>8 DEF Required
<1>9. QED
  BY <1>2, <1>3, <1>7, <1>8 DEF Sufficient, Green
-----------------------------------------------------------------------------
\* A package starts.
LEMMA PackageStartsIInv ==
  ASSUME EventsIInv, NEW p \in Packages, PackageStarts(p)
  PROVE  EventsIInv'
<1>1. /\ Maps /\ Kept /\ life[p] = "waiting" /\ verdict = "reading" /\ verdict' = verdict
      /\ life' = [life EXCEPT ![p] = "open"] /\ packages' = Set(packages, p, FALSE)
      /\ UNCHANGED <<status, list, started, passed, tests>>
  BY DEF EventsIInv, PackageStarts, Reading, OnStart
<1>2. life'[p] = "open" /\ \A q \in Packages : q # p => life'[q] = life[q]
  BY <1>1 DEF Maps
<1>3. /\ DOMAIN packages' = DOMAIN packages \cup {p} /\ packages'[p] = FALSE
      /\ \A q \in DOMAIN packages : q # p => packages'[q] = packages[q]
  BY <1>1 DEF Set
<1>4. Maps'
  BY <1>1 DEF Maps
<1>5. NothingLost' /\ Begun' /\ Listed'
  BY <1>1, <1>2 DEF Kept, NothingLost, Begun, Listed
<1>6. Followed'
  <2>1. Followed
    BY <1>1 DEF Kept
  <2>2. DOMAIN packages' = {q \in Packages : life'[q] # "waiting"}
    BY <1>1, <1>2, <1>3, <2>1 DEF Followed
  <2>3. ASSUME NEW q \in DOMAIN packages' PROVE packages'[q] = (life'[q] = "passed")
    BY <1>2, <1>3, <2>1, <2>2 DEF Followed
  <2>4. QED
    BY <1>1, <2>1, <2>2, <2>3 DEF Followed
<1>7. QED
  BY <1>1, <1>4, <1>5, <1>6 DEF EventsIInv, Kept

\* A package passes.
LEMMA PackagePassesIInv ==
  ASSUME EventsIInv, NEW p \in Packages, PackagePasses(p)
  PROVE  EventsIInv'
<1>1. /\ Maps /\ Kept /\ life[p] = "open" /\ verdict = "reading" /\ verdict' = verdict
      /\ life' = [life EXCEPT ![p] = "passed"] /\ packages' = Set(packages, p, TRUE)
      /\ UNCHANGED <<status, list, started, passed, tests>>
  BY DEF EventsIInv, PackagePasses, Reading, Open, OnPackagePass
<1>2. life'[p] = "passed" /\ \A q \in Packages : q # p => life'[q] = life[q]
  BY <1>1 DEF Maps
<1>3. /\ DOMAIN packages' = DOMAIN packages \cup {p} /\ packages'[p] = TRUE
      /\ \A q \in DOMAIN packages : q # p => packages'[q] = packages[q]
  BY <1>1 DEF Set
<1>4. Maps'
  BY <1>1 DEF Maps
<1>5. NothingLost' /\ Begun' /\ Listed'
  BY <1>1, <1>2 DEF Kept, NothingLost, Begun, Listed
<1>6. Followed'
  <2>1. Followed
    BY <1>1 DEF Kept
  <2>2. DOMAIN packages' = {q \in Packages : life'[q] # "waiting"}
    BY <1>1, <1>2, <1>3, <2>1 DEF Followed
  <2>3. ASSUME NEW q \in DOMAIN packages' PROVE packages'[q] = (life'[q] = "passed")
    BY <1>2, <1>3, <2>1, <2>2 DEF Followed
  <2>4. QED
    BY <1>1, <2>1, <2>2, <2>3 DEF Followed
<1>7. QED
  BY <1>1, <1>4, <1>5, <1>6 DEF EventsIInv, Kept

\* A test starts.
LEMMA TestRunsIInv ==
  ASSUME EventsIInv, NEW p \in Packages, NEW t \in Tests, TestRuns(p, t)
  PROVE  EventsIInv'
<1> DEFINE key == <<p, t>>
<1>1. /\ Maps /\ Kept /\ life[p] = "open" /\ verdict = "reading" /\ verdict' = verdict
      /\ status' = [status EXCEPT ![key] = "running"] /\ started' = Set(started, key, FALSE)
      /\ UNCHANGED <<life, list, packages, passed, tests>>
  BY DEF EventsIInv, TestRuns, Reading, Open, OnRun, Key
<1>2. key \in TestKeys /\ \A q \in Packages, u \in Tests : <<q, u>> \in TestKeys /\ (<<q, u>> = key => q = p /\ u = t)
  BY DEF TestKeys
<1> HIDE DEF key
<1>3. status'[key] = "running" /\ \A k \in TestKeys : k # key => status'[k] = status[k]
  BY <1>1, <1>2 DEF Maps
<1>4. /\ DOMAIN started' = DOMAIN started \cup {key} /\ started'[key] = FALSE
      /\ \A k \in DOMAIN started : k # key => started'[k] = started[k]
  BY <1>1 DEF Set
<1>5. Maps'
  BY <1>1 DEF Maps
<1>6. NothingLost' /\ Begun'
  BY <1>1, <1>2, <1>3 DEF Kept, NothingLost, Begun
<1>7. Followed'
  <2>1. Followed
    BY <1>1 DEF Kept
  <2>2. DOMAIN started' = {k \in TestKeys : status'[k] # "waiting"}
    BY <1>2, <1>3, <1>4, <2>1 DEF Followed
  <2>3. ASSUME NEW k \in DOMAIN started' PROVE started'[k] = (status'[k] = "passed")
    BY <1>3, <1>4, <2>1, <2>2 DEF Followed
  <2>4. QED
    BY <1>1, <2>1, <2>2, <2>3 DEF Followed
<1>8. Listed'
  <2>1. ASSUME NEW u \in passed PROVE u \in Tests /\ \E q \in Packages : status'[<<q, u>>] # "waiting"
    <3>1. u \in Tests /\ \E q \in Packages : status[<<q, u>>] # "waiting"
      BY <1>1 DEF Kept, Listed
    <3>2. QED
      BY <1>2, <1>3, <3>1
  <2>2. \A q \in Packages, u \in Tests : status'[<<q, u>>] = "passed" => u \in passed
    BY <1>1, <1>2, <1>3 DEF Kept, Listed
  <2>3. QED
    BY <1>1, <2>1, <2>2 DEF Kept, Listed
<1>9. QED
  BY <1>1, <1>5, <1>6, <1>7, <1>8 DEF EventsIInv, Kept

\* A test passes.
LEMMA TestPassesIInv ==
  ASSUME EventsIInv, NEW p \in Packages, NEW t \in Tests, TestPasses(p, t)
  PROVE  EventsIInv'
<1> DEFINE key == <<p, t>>
<1>1. /\ Maps /\ Kept /\ life[p] = "open" /\ verdict = "reading" /\ status[key] = "running"
      /\ status' = [status EXCEPT ![key] = "passed"] /\ UNCHANGED <<life, list>>
      /\ OnTestPass(p, t)
  BY DEF EventsIInv, TestPasses, Reading, Open
<1>2. key \in TestKeys /\ \A q \in Packages, u \in Tests : <<q, u>> \in TestKeys /\ (<<q, u>> = key => q = p /\ u = t)
  BY DEF TestKeys
<1>3. key \in DOMAIN started
  BY <1>1, <1>2 DEF Kept, Followed
<1>4. /\ started' = Set(started, key, TRUE) /\ passed' = passed \cup {t} /\ tests' = tests + 1
      /\ UNCHANGED <<packages, verdict>>
  BY <1>1, <1>3 DEF OnTestPass, Key
<1> HIDE DEF key
<1>5. status'[key] = "passed" /\ \A k \in TestKeys : k # key => status'[k] = status[k]
  BY <1>1, <1>2 DEF Maps
<1>6. /\ DOMAIN started' = DOMAIN started \cup {key} /\ started'[key] = TRUE
      /\ \A k \in DOMAIN started : k # key => started'[k] = started[k]
  BY <1>4 DEF Set
<1>7. Maps'
  <2>1. tests' \in Nat
    BY <1>1, <1>4 DEF Maps
  <2>2. status' \in [TestKeys -> {"waiting", "running", "passed", "lost"}]
    BY <1>1 DEF Maps
  <2>3. QED
    BY <1>1, <1>4, <2>1, <2>2 DEF Maps
<1>8. NothingLost' /\ Begun'
  BY <1>1, <1>2, <1>5 DEF Kept, NothingLost, Begun
<1>9. Followed'
  <2>1. DOMAIN started' = {k \in TestKeys : status'[k] # "waiting"}
    BY <1>1, <1>2, <1>3, <1>5, <1>6 DEF Kept, Followed
  <2>2. \A k \in DOMAIN started' : started'[k] = (status'[k] = "passed")
    <3>1. ASSUME NEW k \in DOMAIN started, k # key PROVE started'[k] = (status'[k] = "passed")
      BY <1>1, <1>5, <1>6, <3>1 DEF Kept, Followed
    <3>2. started'[key] = (status'[key] = "passed")
      BY <1>5, <1>6
    <3>3. QED
      BY <1>6, <3>1, <3>2
  <2>3. QED
    BY <1>1, <1>4, <2>1, <2>2 DEF Kept, Followed
<1>10. Listed'
  <2>1. ASSUME NEW u \in passed' PROVE u \in Tests /\ \E q \in Packages : status'[<<q, u>>] # "waiting"
    <3>1. CASE u = t
      BY <1>5, <3>1 DEF key
    <3>2. CASE u \in passed
      <4>1. u \in Tests /\ \E q \in Packages : status[<<q, u>>] # "waiting"
        BY <1>1, <3>2 DEF Kept, Listed
      <4>2. QED
        BY <1>2, <1>5, <4>1
    <3>3. QED
      BY <1>4, <2>1, <3>1, <3>2
  <2>2. \A q \in Packages, u \in Tests : status'[<<q, u>>] = "passed" => u \in passed'
    BY <1>1, <1>2, <1>4, <1>5 DEF Kept, Listed
  <2>3. tests' > 0 /\ passed' # {}
    BY <1>1, <1>4 DEF Maps
  <2>4. QED
    BY <2>1, <2>2, <2>3 DEF Listed
<1>11. QED
  BY <1>1, <1>4, <1>7, <1>8, <1>9, <1>10 DEF EventsIInv, Kept

\* Opening the file, the end of the stream and every rejection.
LEMMA OtherSteps ==
  ASSUME EventsIInv,
         \/ OpenFile \/ EndOfStream \/ Truncated \/ UNCHANGED eventsVars
         \/ \E p \in Packages : PackageFailsOrSkips(p) \/ \E t \in Tests : TestFailsOrSkips(p, t)
  PROVE  EventsIInv'
<1> DEFINE Same == UNCHANGED <<life, status, started, passed, packages, tests, list>>
<1>1. ASSUME Same PROVE (Kept => Kept') /\ (Sufficient => Sufficient')
  BY <1>1 DEF Kept, NothingLost, Followed, Listed, Begun, TestKeys, Sufficient, Complete, Required
<1>2. CASE OpenFile \/ EndOfStream
  <2>1. Same /\ verdict \in {"opening", "reading"} /\ verdict' \in {"reading", "accepted", "rejected"}
        /\ (verdict' = "accepted" => Sufficient)
    BY <1>2 DEF OpenFile, EndOfStream
  <2>2. QED
    BY <1>1, <2>1 DEF EventsIInv, Maps, TestKeys
<1>3. CASE UNCHANGED eventsVars
  <2>1. Same /\ verdict' = verdict
    BY <1>3 DEF eventsVars, evidence
  <2>2. QED
    BY <1>1, <2>1 DEF EventsIInv, Maps, TestKeys
<1>4. CASE Truncated
  BY <1>4 DEF Truncated, Reject, EventsIInv, Maps, TestKeys
<1>5. ASSUME NEW p \in Packages, PackageFailsOrSkips(p) PROVE EventsIInv'
  BY <1>5 DEF PackageFailsOrSkips, Reject, EventsIInv, Maps, TestKeys
<1>6. ASSUME NEW p \in Packages, NEW t \in Tests, TestFailsOrSkips(p, t) PROVE EventsIInv'
  BY <1>6 DEF TestFailsOrSkips, Reject, EventsIInv, Maps, TestKeys
<1>7. QED
  BY <1>2, <1>3, <1>4, <1>5, <1>6

\* Every event keeps the invariant.
LEMMA StepEventsIInv == EventsIInv /\ [EventsNext]_eventsVars => EventsIInv'
BY PackageStartsIInv, PackagePassesIInv, TestRunsIInv, TestPassesIInv, OtherSteps DEF EventsNext
-----------------------------------------------------------------------------
\* The invariant holds of every run of the validator.
THEOREM EventsInvariance == EventsSpec => []EventsIInv
BY InitEventsIInv, StepEventsIInv, PTL DEF EventsSpec

\* Check's maps hold packages and package-qualified tests only.
THEOREM TypeCorrectness == EventsSpec => []EventsTypeOK
<1> DEFINE Sides == /\ life \in [Packages -> {"waiting", "open", "passed", "lost"}]
                    /\ status \in [TestKeys -> {"waiting", "running", "passed", "lost"}]
                    /\ runs \in [TestKeys -> 0..MaxRuns]
                    /\ list \in Lists
           Side == /\ DOMAIN started \subseteq TestKeys /\ DOMAIN packages \subseteq Packages
                   /\ passed \subseteq Tests /\ tests \in Nat
                   /\ verdict \in {"opening", "reading", "accepted", "rejected"}
<1>1. EventsInit => EventsTypeOK
  <2> SUFFICES ASSUME EventsInit PROVE EventsTypeOK
    OBVIOUS
  <2>1. DOMAIN started = {} /\ DOMAIN packages = {}
    BY DEF EventsInit
  <2>2. 0 \in 0..MaxRuns
    <3>1. MaxRuns \in Nat
      BY EventConstants
    <3>2. QED
      BY <3>1
  <2>3. Sides
    BY <2>2 DEF EventsInit
  <2>4. Side
    BY <2>1 DEF EventsInit
  <2>5. QED
    BY <2>3, <2>4 DEF EventsTypeOK
<1>2. EventsTypeOK /\ [EventsNext]_eventsVars => EventsTypeOK'
  <2> SUFFICES ASSUME EventsTypeOK, [EventsNext]_eventsVars PROVE EventsTypeOK'
    OBVIOUS
  <2>0. Sides /\ Side
    BY DEF EventsTypeOK
  <2>1. ASSUME Sides', Side' PROVE EventsTypeOK'
    BY <2>1 DEF EventsTypeOK
  <2> HIDE DEF Sides, Side
  <2>2. ASSUME NEW p \in Packages, NEW b,
               packages' = Set(packages, p, b), UNCHANGED <<started, passed, tests, verdict>>
        PROVE  Side'
    <3>1. DOMAIN packages' = DOMAIN packages \cup {p}
      BY <2>2 DEF Set
    <3>2. QED
      BY <2>0, <2>2, <3>1 DEF Side
  <2>3. ASSUME NEW k \in TestKeys, NEW b, started' = Set(started, k, b), passed' \subseteq Tests,
               tests' \in Nat, UNCHANGED <<packages, verdict>>
        PROVE  Side'
    <3>1. DOMAIN started' = DOMAIN started \cup {k}
      BY <2>3 DEF Set
    <3>2. QED
      BY <2>0, <2>3, <3>1 DEF Side
  <2>4. ASSUME UNCHANGED <<started, passed, packages, tests>>,
               verdict' \in {"opening", "reading", "accepted", "rejected"}
        PROVE  Side'
    BY <2>0, <2>4 DEF Side
  <2>5. ASSUME UNCHANGED <<life, status, runs, list>> PROVE Sides'
    BY <2>0, <2>5 DEF Sides
  <2>6. ASSUME NEW p \in Packages, PackageStarts(p) PROVE EventsTypeOK'
    <3>1. Sides'
      BY <2>0, <2>6 DEF PackageStarts, Sides
    <3>2. Side'
      BY <2>2, <2>6 DEF PackageStarts, OnStart
    <3>3. QED
      BY <2>1, <3>1, <3>2
  <2>7. ASSUME NEW p \in Packages, PackagePasses(p) PROVE EventsTypeOK'
    <3>1. Sides'
      BY <2>0, <2>7 DEF PackagePasses, Sides
    <3>2. Side'
      BY <2>2, <2>7 DEF PackagePasses, OnPackagePass
    <3>3. QED
      BY <2>1, <3>1, <3>2
  <2>8. ASSUME NEW p \in Packages, PackageFailsOrSkips(p) PROVE EventsTypeOK'
    <3>1. Sides'
      BY <2>0, <2>8 DEF PackageFailsOrSkips, Sides
    <3>2. Side'
      BY <2>4, <2>8 DEF PackageFailsOrSkips, Reject
    <3>3. QED
      BY <2>1, <3>1, <3>2
  <2>9. ASSUME NEW p \in Packages, NEW t \in Tests, TestRuns(p, t) PROVE EventsTypeOK'
    <3>1. <<p, t>> \in TestKeys
      BY DEF TestKeys
    <3>2. runs[<<p, t>>] + 1 \in 0..MaxRuns
      <4>1. runs[<<p, t>>] \in 0..MaxRuns /\ MaxRuns \in Nat
        BY <2>0, <3>1, EventConstants DEF Sides
      <4>2. runs[<<p, t>>] < MaxRuns
        BY <2>9 DEF TestRuns
      <4>3. QED
        BY <4>1, <4>2
    <3>3. Sides'
      BY <2>0, <2>9, <3>1, <3>2 DEF TestRuns, Sides
    <3>4. Side'
      BY <2>0, <2>3, <2>9, <3>1 DEF TestRuns, OnRun, Key, Side
    <3>5. QED
      BY <2>1, <3>3, <3>4
  <2>10. ASSUME NEW p \in Packages, NEW t \in Tests, TestPasses(p, t) PROVE EventsTypeOK'
    <3>1. <<p, t>> \in TestKeys
      BY DEF TestKeys
    <3>2. Sides'
      BY <2>0, <2>10, <3>1 DEF TestPasses, Sides
    <3>3. passed \cup {t} \subseteq Tests /\ tests + 1 \in Nat
      BY <2>0 DEF Side
    <3>4. CASE Key(p, t) \in DOMAIN started
      BY <2>1, <2>3, <2>10, <3>1, <3>2, <3>3, <3>4 DEF TestPasses, OnTestPass, Key
    <3>5. CASE Key(p, t) \notin DOMAIN started
      BY <2>1, <2>4, <2>10, <3>2, <3>5 DEF TestPasses, OnTestPass
    <3>6. QED
      BY <3>4, <3>5
  <2>11. ASSUME NEW p \in Packages, NEW t \in Tests, TestFailsOrSkips(p, t) PROVE EventsTypeOK'
    <3>1. <<p, t>> \in TestKeys
      BY DEF TestKeys
    <3>2. Sides'
      BY <2>0, <2>11, <3>1 DEF TestFailsOrSkips, Sides
    <3>3. Side'
      BY <2>4, <2>11 DEF TestFailsOrSkips, Reject
    <3>4. QED
      BY <2>1, <3>2, <3>3
  <2>12. CASE OpenFile \/ EndOfStream \/ Truncated
    BY <2>1, <2>4, <2>5, <2>12 DEF OpenFile, EndOfStream, Truncated, Reject
  <2>13. CASE UNCHANGED eventsVars
    BY <2>0, <2>1, <2>13 DEF eventsVars, evidence, Side, Sides
  <2>14. QED
    BY <2>6, <2>7, <2>8, <2>9, <2>10, <2>11, <2>12, <2>13 DEF EventsNext
<1>3. QED
  BY <1>1, <1>2, PTL DEF EventsSpec

\* Check accepts only green runs: every package that began ended well, every
\* test that began passed in its latest run, and every required name passed.
THEOREM AcceptanceIsEarned == EventsSpec => []AcceptedIsGreen
<1>1. EventsIInv => AcceptedIsGreen
  BY SufficientIsGreen DEF EventsIInv, AcceptedIsGreen
<1>2. QED
  BY <1>1, EventsInvariance, PTL

\* Check rejects no green run whose stream is whole.
THEOREM GreenPasses == EventsSpec => GreenIsAccepted
<1>1. EventsIInv /\ [EventsNext]_eventsVars => [EndOfStream /\ Green => verdict' = "accepted"]_eventsVars
  BY SufficientIsGreen DEF EventsIInv, EndOfStream
<1>2. QED
  BY <1>1, EventsInvariance, PTL DEF EventsSpec, GreenIsAccepted
-----------------------------------------------------------------------------
(* The state checker. *)

Docs == [found : BOOLEAN, counter : Int, label : Int]
-----------------------------------------------------------------------------
(* A batch is executed one operation after the other. *)

\* A set of numbers that holds 0 and every successor holds them all.
LEMMA NumberInduction ==
    ASSUME NEW T, 0 \in T, \A n \in Nat : n \in T => n + 1 \in T
    PROVE  Nat \subseteq T
<1> DEFINE U == Nat \ T
           R == {mn \in Nat \X Nat : mn[1] < mn[2]}
<1> SUFFICES ASSUME U # {} PROVE FALSE
  OBVIOUS
<1>1. IsWellFoundedOn(R, Nat)
  BY NatLessThanWellFounded DEF OpToRel
<1>2. \A m, n \in U : <<n, m>> \in R <=> n < m
  OBVIOUS
<1>3. U \subseteq Nat
  OBVIOUS
<1> HIDE DEF R, U
<1>4. PICK m \in U : \A n \in U : ~ (<<n, m>> \in R)
  BY <1>1, <1>3, WFMin
<1>5. m # 0 /\ m \in Nat
  BY <1>3 DEF U
<1> DEFINE n == m - 1
<1>a. n \in Nat /\ n < m
  BY <1>5
<1> HIDE DEF n
<1>b. n \notin U
  BY <1>a, <1>2, <1>4
<1>6. m - 1 \in Nat /\ m - 1 \notin U
  BY <1>a, <1>b DEF n
<1>7. m - 1 \in T /\ (m - 1) + 1 = m
  BY <1>5, <1>6 DEF U
<1>8. m \in T
  BY <1>6, <1>7
<1> QED BY <1>8 DEF U

\* The greatest element of a set that has one.
LEMMA Greatest ==
    ASSUME NEW S, S \subseteq Int, NEW m \in S, \A x \in S : x <= m
    PROVE  Max(S) = m
<1>1. \A y \in S : m >= y
  OBVIOUS
<1>2. Max(S) \in S /\ \A y \in S : Max(S) >= y
  BY <1>1 DEF Max
<1> DEFINE x == Max(S)
<1>3. x \in Int /\ m \in Int /\ x <= m /\ x >= m
  BY <1>2
<1> HIDE DEF x
<1>4. x = m
  BY <1>3
<1> QED BY <1>4 DEF x

\* The first numbers.
LEMMA FirstNumbers ==
    ASSUME NEW i \in Nat \ {0}
    PROVE  /\ 1..i # {} /\ i \in 1..i /\ Max(1..i) = i /\ (1..i) \ {i} = 1..(i - 1)
           /\ \A V \in SUBSET (1..i) : i \in V => Max(V) = i
<1>1. ASSUME NEW V \in SUBSET (1..i), i \in V PROVE Max(V) = i
  <2>1. V \subseteq Int /\ \A x \in V : x <= i
    OBVIOUS
  <2> QED BY <1>1, <2>1, Greatest
<1>2. 1..i \in SUBSET (1..i) /\ i \in 1..i
  OBVIOUS
<1>3. Max(1..i) = i
  BY <1>1, <1>2
<1>4. (1..i) \ {i} = 1..(i - 1)
  OBVIOUS
<1> QED BY <1>1, <1>2, <1>3, <1>4

\* One operation, the one at place "wrong" excepted.
One(acc, s, wrong, document, answer) ==
    IF Len(acc.results) + 1 = wrong
    THEN [documents |-> [acc.documents EXCEPT ![s.key] = document],
          results |-> Append(acc.results, answer)]
    ELSE [documents |-> After(s, acc.documents),
          results |-> Append(acc.results, Result(s, acc.documents))]

\* g is where a batch has come after each of its operations.
Steppings(g, batch, documents, wrong, document, answer) ==
    /\ g[0] = [documents |-> documents, results |-> <<>>]
    /\ \A i \in 1..Len(batch) : g[i] = One(g[i - 1], batch[i], wrong, document, answer)

\* Executing a batch is executing its operations in order.
LEMMA ExecutedInOrder ==
    ASSUME NEW S, NEW batch \in Seq(S), NEW documents, NEW wrong, NEW document, NEW answer
    PROVE  \E g : /\ Steppings(g, batch, documents, wrong, document, answer)
                  /\ Executed(batch, documents, wrong, document, answer) = g[Len(batch)]
<1> DEFINE n == Len(batch)
           base == [documents |-> documents, results |-> <<>>]
           then(acc, i) == One(acc, batch[i], wrong, document, answer)
           E(h, m) == [V \in SUBSET (1..m) |->
                         IF V = {} THEN base ELSE then(h[V \ {Max(V)}], Max(V))]
           iter == CHOOSE h : h = E(h, n)
<1>1. n \in Nat /\ DOMAIN batch = 1..n
  OBVIOUS
<1>2. Executed(batch, documents, wrong, document, answer) = iter[1..n]
  BY <1>1 DEF Executed, FoldLeft, MapThenFoldSet, One
<1> HIDE DEF n, then, base
<1>3. \A m \in Nat : \E h : h = E(h, m)
  <2> DEFINE T == {m \in Nat : \E h : h = E(h, m)}
  <2>1. 0 \in T
    <3> DEFINE h == [V \in SUBSET (1..0) |-> base]
    <3>1. h = E(h, 0)
      OBVIOUS
    <3> QED BY <3>1
  <2>2. ASSUME NEW m \in Nat, m \in T PROVE m + 1 \in T
    <3>1. PICK h : h = E(h, m)
      BY <2>2
    <3> DEFINE S1 == SUBSET (1..(m + 1))
               k == [V \in S1 |-> IF m + 1 \in V THEN then(h[V \ {m + 1}], m + 1) ELSE h[V]]
    <3>2. ASSUME NEW V \in S1
          PROVE  k[V] = IF V = {} THEN base ELSE then(k[V \ {Max(V)}], Max(V))
      <4>0. k[V] = IF m + 1 \in V THEN then(h[V \ {m + 1}], m + 1) ELSE h[V]
        OBVIOUS
      <4>1. CASE m + 1 \in V
        <5>1. Max(V) = m + 1
          <6>1. m + 1 \in Nat \ {0} /\ V \in SUBSET (1..(m + 1))
            OBVIOUS
          <6> QED BY <4>1, <6>1, FirstNumbers
        <5>2. V \ {m + 1} \in S1 /\ m + 1 \notin V \ {m + 1}
          OBVIOUS
        <5>3. k[V \ {m + 1}] = h[V \ {m + 1}]
          BY <5>2
        <5> QED BY <4>0, <4>1, <5>1, <5>3
      <4>2. CASE m + 1 \notin V /\ V # {}
        <5>1. V \in SUBSET (1..m)
          BY <4>2
        <5>2. h[V] = then(h[V \ {Max(V)}], Max(V))
          BY <3>1, <4>2, <5>1
        <5>3. V \ {Max(V)} \in S1 /\ m + 1 \notin V \ {Max(V)}
          BY <4>2
        <5>4. k[V \ {Max(V)}] = h[V \ {Max(V)}]
          BY <5>3
        <5> QED BY <4>0, <4>2, <5>2, <5>4
      <4>3. CASE V = {}
        <5>1. h[{}] = base
          BY <3>1
        <5> QED BY <4>0, <4>3, <5>1
      <4> QED BY <4>1, <4>2, <4>3
    <3>3. k = E(k, m + 1)
      BY <3>2
    <3>4. \E f : f = E(f, m + 1)
      <4> HIDE DEF k, E
      <4> QED BY <3>3
    <3> HIDE DEF E
    <3> QED BY <3>4
  <2> HIDE DEF T
  <2>3. Nat \subseteq T
    BY <2>1, <2>2, NumberInduction
  <2> QED BY <2>3 DEF T
<1>4. iter = E(iter, n)
  BY <1>1, <1>3 DEF n
<1> HIDE DEF iter
<1> DEFINE g == [i \in 0..n |-> iter[1..i]]
<1>5. \A V \in SUBSET (1..n) : iter[V] = IF V = {} THEN base ELSE then(iter[V \ {Max(V)}], Max(V))
  BY <1>4
<1>6. g[0] = base
  <2>1. n \in Nat /\ 0 \in 0..n /\ 1..0 = {} /\ {} \in SUBSET (1..n)
    BY <1>1 DEF n
  <2>2. iter[{}] = base
    BY <1>5, <2>1
  <2> QED BY <2>1, <2>2
<1>7. ASSUME NEW i \in 1..n PROVE g[i] = then(g[i - 1], i)
  <2>1. n \in Nat
    BY <1>1 DEF n
  <2>2. i \in Nat \ {0} /\ i <= n /\ i \in 0..n /\ i - 1 \in 0..n
    BY <2>1
  <2>3. 1..i # {} /\ Max(1..i) = i /\ (1..i) \ {i} = 1..(i - 1)
    BY <2>2, FirstNumbers
  <2>4. 1..i \in SUBSET (1..n)
    BY <2>1, <2>2
  <2>5. g[i] = iter[1..i] /\ g[i - 1] = iter[1..(i - 1)]
    BY <2>2
  <2> HIDE DEF g
  <2> QED BY <1>5, <2>3, <2>4, <2>5
<1>8. Executed(batch, documents, wrong, document, answer) = g[n]
  BY <1>1, <1>2 DEF n, iter, base, then
<1>9. Steppings(g, batch, documents, wrong, document, answer)
  <2> HIDE DEF g
  <2> QED BY <1>6, <1>7 DEF Steppings, base, then, n
<1> QED BY <1>8, <1>9 DEF n

\* An empty batch changes nothing and has no results.
LEMMA ExecutedNone ==
    ASSUME NEW documents, NEW wrong, NEW document, NEW answer
    PROVE  Executed(<<>>, documents, wrong, document, answer)
              = [documents |-> documents, results |-> <<>>]
<1>1. <<>> \in Seq({}) /\ Len(<<>>) = 0
  OBVIOUS
<1>2. PICK g : /\ Steppings(g, <<>>, documents, wrong, document, answer)
               /\ Executed(<<>>, documents, wrong, document, answer) = g[0]
  <2> DEFINE empty == <<>>
  <2>1. empty \in Seq({}) /\ Len(empty) = 0
    BY <1>1
  <2> HIDE DEF empty
  <2>2. \E g : /\ Steppings(g, empty, documents, wrong, document, answer)
               /\ Executed(empty, documents, wrong, document, answer) = g[Len(empty)]
    BY <2>1, ExecutedInOrder
  <2> QED BY <2>1, <2>2 DEF empty
<1> QED BY <1>2 DEF Steppings

\* An operation appended to a batch is executed after it.
LEMMA ExecutedAppend ==
    ASSUME NEW S, NEW batch \in Seq(S), NEW s \in S,
           NEW documents, NEW wrong, NEW document, NEW answer
    PROVE  Executed(Append(batch, s), documents, wrong, document, answer)
              = One(Executed(batch, documents, wrong, document, answer), s, wrong, document, answer)
<1> DEFINE n == Len(batch)
           longer == Append(batch, s)
<1>1. /\ n \in Nat /\ longer \in Seq(S) /\ Len(longer) = n + 1 /\ longer[n + 1] = s
      /\ \A i \in 1..n : longer[i] = batch[i]
  OBVIOUS
<1>2. PICK g : /\ Steppings(g, batch, documents, wrong, document, answer)
               /\ Executed(batch, documents, wrong, document, answer) = g[n]
  BY ExecutedInOrder
<1>3. PICK h : /\ Steppings(h, longer, documents, wrong, document, answer)
               /\ Executed(longer, documents, wrong, document, answer) = h[n + 1]
  <2> HIDE DEF longer
  <2>1. \E h : /\ Steppings(h, longer, documents, wrong, document, answer)
              /\ Executed(longer, documents, wrong, document, answer) = h[Len(longer)]
    BY <1>1, ExecutedInOrder
  <2> QED BY <1>1, <2>1
<1>4. h[0] = g[0]
  BY <1>2, <1>3 DEF Steppings
<1>5. \A i \in 1..n : /\ g[i] = One(g[i - 1], batch[i], wrong, document, answer)
                      /\ h[i] = One(h[i - 1], batch[i], wrong, document, answer)
  <2>1. \A i \in 1..n : i \in 1..(n + 1)
    BY <1>1
  <2> QED BY <1>1, <1>2, <1>3, <2>1 DEF Steppings
<1>6. h[n + 1] = One(h[n], s, wrong, document, answer)
  <2>1. n + 1 \in 1..(n + 1) /\ (n + 1) - 1 = n
    BY <1>1
  <2> QED BY <1>1, <1>3, <2>1 DEF Steppings
<1> HIDE DEF n, longer
<1> DEFINE T == {i \in Nat : i <= n => h[i] = g[i]}
<1>7. 0 \in T
  BY <1>4
<1>8. ASSUME NEW i \in Nat, i \in T PROVE i + 1 \in T
  <2>1. CASE i + 1 <= n
    <3>1. i <= n /\ i + 1 \in 1..n /\ (i + 1) - 1 = i
      BY <1>1, <2>1
    <3>2. h[i] = g[i]
      BY <1>8, <3>1
    <3>3. h[i + 1] = g[i + 1]
      BY <1>5, <3>1, <3>2
    <3> QED BY <3>3
  <2>2. CASE ~ (i + 1 <= n)
    BY <2>2
  <2> QED BY <2>1, <2>2
<1> HIDE DEF T
<1>9. Nat \subseteq T
  BY <1>7, <1>8, NumberInduction
<1>10. h[n] = g[n]
  BY <1>1, <1>9 DEF T
<1> QED BY <1>2, <1>3, <1>6, <1>10 DEF n, longer

Answers == {"applied", "precondition failed", "failed"}
Outcomes == [documents : [Keys -> Docs], results : Seq(Answers)]

\* What the server makes of a document is a document.
LEMMA AfterType ==
    ASSUME NEW s \in StepsOf(Kinds), NEW documents \in [Keys -> Docs]
    PROVE  After(s, documents) \in [Keys -> Docs] /\ Result(s, documents) \in Answers
<1>1. s.key \in Keys /\ s.value \in Int /\ documents[s.key] \in Docs
  BY CheckConstants DEF StepsOf
<1>2. Missing \in Docs /\ Put(s.value) \in Docs /\ Added(documents[s.key], s.value) \in Docs
  BY <1>1 DEF Docs, Missing, Put, Added, Document
<1>3. Result(s, documents) \in Answers
  BY DEF Result, Answers
<1> QED BY <1>1, <1>2, <1>3 DEF After

\* So is what a batch makes of the documents, with an error or without.
LEMMA ExecutedType ==
    ASSUME NEW batch \in Seq(StepsOf(Kinds)), NEW documents \in [Keys -> Docs],
           NEW wrong, NEW document \in Docs, NEW answer \in Answers
    PROVE  Executed(batch, documents, wrong, document, answer) \in Outcomes
<1> DEFINE n == Len(batch)
<1>1. PICK g : /\ Steppings(g, batch, documents, wrong, document, answer)
               /\ Executed(batch, documents, wrong, document, answer) = g[n]
  BY ExecutedInOrder
<1>2. n \in Nat
  OBVIOUS
<1> DEFINE T == {i \in Nat : i <= n => g[i] \in Outcomes}
<1>3. 0 \in T
  <2>1. <<>> \in Seq(Answers)
    OBVIOUS
  <2>2. g[0] = [documents |-> documents, results |-> <<>>]
    BY <1>1 DEF Steppings
  <2>3. g[0] \in Outcomes
    BY <2>1, <2>2 DEF Outcomes
  <2> HIDE DEF n
  <2> QED BY <2>3
<1>4. ASSUME NEW i \in Nat, i \in T PROVE i + 1 \in T
  <2> SUFFICES ASSUME i + 1 <= n PROVE g[i + 1] \in Outcomes
    OBVIOUS
  <2>1. i <= n /\ i + 1 \in 1..n /\ (i + 1) - 1 = i
    BY <1>2
  <2>2. g[i] \in Outcomes
    BY <1>4, <2>1
  <2> DEFINE acc == g[i]
             s == batch[i + 1]
  <2>3. g[i + 1] = One(acc, s, wrong, document, answer)
    BY <1>1, <2>1 DEF Steppings
  <2>4. s \in StepsOf(Kinds) /\ s.key \in Keys
    <3>1. s \in StepsOf(Kinds)
      BY <2>1
    <3> QED BY <3>1 DEF StepsOf
  <2> HIDE DEF acc, s
  <2>5. acc.documents \in [Keys -> Docs] /\ acc.results \in Seq(Answers)
    BY <2>2 DEF acc, Outcomes
  <2>6. After(s, acc.documents) \in [Keys -> Docs] /\ Result(s, acc.documents) \in Answers
    BY <2>4, <2>5, AfterType
  <2>7. [acc.documents EXCEPT ![s.key] = document] \in [Keys -> Docs]
    BY <2>4, <2>5
  <2>8. Append(acc.results, answer) \in Seq(Answers) /\ Append(acc.results, Result(s, acc.documents)) \in Seq(Answers)
    BY <2>5, <2>6
  <2> QED BY <2>3, <2>6, <2>7, <2>8 DEF One, Outcomes
<1> HIDE DEF T
<1>5. Nat \subseteq T
  BY <1>3, <1>4, NumberInduction
<1> QED BY <1>1, <1>2, <1>5 DEF T
-----------------------------------------------------------------------------
(* The checker. *)

TypeOK ==
    /\ position \in Nat \ {0} /\ errors \in Nat /\ misanswered \in BOOLEAN
    /\ state \in [Keys -> Docs] /\ stored \in [Keys -> Docs] /\ ideal \in [Keys -> Docs]
    /\ operations \in Seq(StepsOf(WriteKinds))
    /\ expected \in Seq(Answers) /\ due \in Seq(Answers)
    /\ step \in StepsOf(Kinds)
    /\ pc \in {"next", "flush", "direct", "failed", "passed"}

\* What the checker predicts is what the server's semantics demands, of the
\* documents and of every result of the batch.
Predicted == state = ideal /\ expected = due

\* A batch is sent before it is forgotten; a read or delete finds none waiting.
Batched ==
    /\ pc \in {"direct", "passed"} => operations = <<>>
    /\ pc = "flush" => operations # <<>>
    /\ pc = "direct" => step.kind \in {"delete", "read"}
    /\ position > Steps => operations = <<>>
    /\ operations = <<>> => due = <<>>

\* Between batches the store was found to hold what was predicted.
Compared ==
    /\ pc # "failed" => ~misanswered
    /\ pc # "failed" /\ operations = <<>> => stored = state

\* A server that has not erred will have done, after the batch, what is due.
Plain(batch, documents) == Executed(batch, documents, 0, Missing, "applied")
Honest == errors = 0 => Plain(operations, stored) = [documents |-> ideal, results |-> due]

IInv == TypeOK /\ Predicted /\ Batched /\ Compared /\ Honest /\ NoFalseAlarm

\* The invariant holds before the first step.
LEMMA InitIInv == Init => IInv
<1> SUFFICES ASSUME Init PROVE IInv
  OBVIOUS
<1>1. <<>> \in Seq(StepsOf(WriteKinds)) /\ <<>> \in Seq(Answers) /\ 1 \in Nat \ {0} /\ Steps \in Nat \ {0}
  BY CheckConstants
<1>2. [k \in Keys |-> Missing] \in [Keys -> Docs]
  BY DEF Docs, Missing
<1>3. step \in StepsOf(Kinds)
  BY DEF Init, StepsOf, Kinds
<1>4. TypeOK
  BY <1>1, <1>2, <1>3 DEF Init, TypeOK
<1>5. Predicted /\ Compared /\ NoFalseAlarm
  BY DEF Init, Predicted, Compared, NoFalseAlarm
<1>6. Batched
  BY DEF Init, Batched
<1>7. Honest
  BY ExecutedNone DEF Init, Honest, Plain
<1> QED BY <1>4, <1>5, <1>6, <1>7 DEF IInv

\* What the checker predicts of a write is the semantics, read in its own
\* documents.
LEMMA WriteIsPredicted ==
    ASSUME NEW s \in StepsOf(WriteKinds)
    PROVE  Want(s) = Result(s, state) /\ Modelled(s) = After(s, state)
<1>1. s.kind \in WriteKinds
  BY DEF StepsOf
<1>2. Want(s) = Result(s, state)
  BY <1>1 DEF Want, Result, WriteKinds, Kinds
<1> QED BY <1>1, <1>2 DEF Modelled, After, Added, WriteKinds, Kinds

\* A write joins the batch.
LEMMA WriteIInv == ASSUME IInv, Write PROVE IInv'
<1>1. PICK s \in StepsOf(WriteKinds) :
        /\ step' = s /\ state' = Modelled(s) /\ operations' = Append(operations, s)
        /\ expected' = Append(expected, Want(s)) /\ due' = Append(due, Result(s, ideal))
        /\ ideal' = After(s, ideal)
        /\ pc' = IF Full(operations') THEN "flush" ELSE "next"
        /\ position' = IF Full(operations') THEN position ELSE position + 1
  BY DEF Write
<1>2. pc = "next" /\ position <= Steps /\ UNCHANGED <<stored, misanswered, errors>>
  BY DEF Write
<1>3. TypeOK /\ Predicted /\ Compared /\ Honest
  BY DEF IInv
<1>4. s \in StepsOf(Kinds)
  BY DEF StepsOf, WriteKinds
<1>5. After(s, ideal) \in [Keys -> Docs] /\ Result(s, ideal) \in Answers
  BY <1>3, <1>4, AfterType DEF TypeOK
<1>6. Want(s) = Result(s, ideal) /\ Modelled(s) = After(s, ideal)
  BY <1>3, WriteIsPredicted DEF Predicted
<1>7. operations' \in Seq(StepsOf(WriteKinds)) /\ operations' # <<>>
  <2>1. operations \in Seq(StepsOf(WriteKinds))
    BY <1>3 DEF TypeOK
  <2>2. operations' \in Seq(StepsOf(WriteKinds)) /\ Len(operations') = Len(operations) + 1
    BY <1>1, <2>1
  <2>3. Len(operations) \in Nat /\ Len(<<>>) = 0
    BY <2>1
  <2> QED BY <2>2, <2>3
<1>8. expected' \in Seq(Answers) /\ due' \in Seq(Answers)
  BY <1>1, <1>3, <1>5, <1>6 DEF TypeOK
<1>9. position' \in Nat \ {0} /\ position' <= Steps
  BY <1>1, <1>2, <1>3, CheckConstants DEF TypeOK, Full, LastStep
<1>10. TypeOK'
  BY <1>1, <1>2, <1>3, <1>4, <1>5, <1>6, <1>7, <1>8, <1>9 DEF TypeOK
<1>11. Predicted'
  BY <1>1, <1>3, <1>6 DEF Predicted
<1>12. Batched'
  <2>1. pc' \in {"flush", "next"}
    BY <1>1
  <2>2. ~(position' > Steps)
    BY <1>9, CheckConstants
  <2> QED BY <1>7, <2>1, <2>2 DEF Batched
<1>13. Compared'
  BY <1>2, <1>3, <1>7 DEF Compared
<1>14. Honest'
  <2> SUFFICES ASSUME errors' = 0
               PROVE  Plain(operations', stored') = [documents |-> ideal', results |-> due']
    BY DEF Honest
  <2> DEFINE acc == Plain(operations, stored)
  <2>1. acc = [documents |-> ideal, results |-> due] /\ due \in Seq(Answers)
    BY <1>2, <1>3 DEF Honest, TypeOK
  <2>2. Plain(operations', stored') = One(acc, s, 0, Missing, "applied")
    BY <1>1, <1>2, <1>3, ExecutedAppend DEF TypeOK, Plain
  <2>3. Len(due) + 1 # 0
    BY <2>1
  <2> HIDE DEF acc
  <2> QED BY <1>1, <2>1, <2>2, <2>3 DEF One
<1>15. NoFalseAlarm'
  BY <1>1 DEF NoFalseAlarm
<1> QED BY <1>10, <1>11, <1>12, <1>13, <1>14, <1>15 DEF IInv

\* What a server may store by mistake is a document.
LEMMA ErroneousType == ErroneousDocuments \subseteq Docs /\ Missing \in Docs
<1>1. Missing \in Docs
  BY DEF Docs, Missing
<1>2. ASSUME NEW c \in -3..3, NEW l \in Values PROVE Document(c, l) \in Docs
  BY CheckConstants DEF Docs, Document
<1> QED BY <1>1, <1>2 DEF ErroneousDocuments

\* Comparing every key is comparing the documents.
LEMMA AgreeIsEqual ==
    ASSUME NEW d \in [Keys -> Docs], NEW e \in [Keys -> Docs]
    PROVE  Agree(d, e) <=> d = e
BY DEF Agree

\* The server has executed the batch, with or without an error.
Served(batch, results, wanted, model, next, wrong, document, answer) ==
    LET server == Executed(batch, stored, wrong, document, answer)
    IN /\ stored' = server.documents
       /\ misanswered' = (misanswered \/ server.results # results)
       /\ errors' = errors + IF wrong = 0 THEN 0 ELSE 1
       /\ pc' = IF server.results = wanted /\ Agree(server.documents, model)
                THEN next ELSE "failed"

\* An error is a document and an answer; without one the batch runs plainly.
LEMMA SomeServed ==
    ASSUME NEW batch, NEW results, NEW wanted, NEW model, NEW next,
           Respond(batch, results, wanted, model, next)
    PROVE  \E wrong : \E document \in Docs, answer \in Answers :
             /\ Served(batch, results, wanted, model, next, wrong, document, answer)
             /\ wrong = 0 => document = Missing /\ answer = "applied"
<1>1. PICK wrong : \E document \in IF wrong = 0 THEN {Missing} ELSE ErroneousDocuments :
        \E answer \in IF wrong = 0 THEN {"applied"} ELSE {"applied", "precondition failed", "failed"} :
          Served(batch, results, wanted, model, next, wrong, document, answer)
  BY DEF Respond, Served
<1>2. CASE wrong = 0
  <2>1. Served(batch, results, wanted, model, next, 0, Missing, "applied")
    BY <1>1, <1>2
  <2> QED BY <2>1, ErroneousType DEF Answers
<1>3. CASE wrong # 0
  <2>1. PICK document \in ErroneousDocuments : \E answer \in {"applied", "precondition failed", "failed"} :
          Served(batch, results, wanted, model, next, wrong, document, answer)
    BY <1>1, <1>3
  <2>2. document \in Docs
    BY ErroneousType
  <2> QED BY <1>3, <2>1, <2>2 DEF Answers
<1> QED BY <1>2, <1>3

\* What a batch comes to: the documents and the results of some server, and those
\* of the semantics unless it erred.
LEMMA Responded ==
    ASSUME TypeOK, NEW batch \in Seq(StepsOf(Kinds)), NEW results, NEW wanted,
           NEW model \in [Keys -> Docs], NEW next, Respond(batch, results, wanted, model, next)
    PROVE  \E server \in Outcomes :
             /\ stored' = server.documents
             /\ misanswered' = (misanswered \/ server.results # results)
             /\ errors' \in Nat
             /\ errors' = 0 => errors = 0 /\ server = Plain(batch, stored)
             /\ pc' = IF server.results = wanted /\ server.documents = model THEN next ELSE "failed"
<1>0. PICK wrong : \E document \in Docs, answer \in Answers :
        /\ Served(batch, results, wanted, model, next, wrong, document, answer)
        /\ wrong = 0 => document = Missing /\ answer = "applied"
  BY SomeServed
<1>1. PICK document \in Docs, answer \in Answers :
        /\ Served(batch, results, wanted, model, next, wrong, document, answer)
        /\ wrong = 0 => document = Missing /\ answer = "applied"
  BY <1>0
<1> DEFINE server == Executed(batch, stored, wrong, document, answer)
<1>2. server \in Outcomes
  BY ExecutedType DEF TypeOK
<1>3. /\ stored' = server.documents
      /\ misanswered' = (misanswered \/ server.results # results)
      /\ errors' = errors + (IF wrong = 0 THEN 0 ELSE 1)
      /\ pc' = IF server.results = wanted /\ Agree(server.documents, model) THEN next ELSE "failed"
  BY <1>1 DEF Served
<1>4. wrong = 0 => server = Plain(batch, stored)
  BY <1>1 DEF Plain
<1> HIDE DEF server
<1>5. errors' \in Nat /\ (errors' = 0 => errors = 0 /\ wrong = 0)
  BY <1>3 DEF TypeOK
<1>6. Agree(server.documents, model) <=> server.documents = model
  BY <1>2, AgreeIsEqual DEF Outcomes
<1> QED BY <1>2, <1>3, <1>4, <1>5, <1>6

\* A batch of writes is a batch.
LEMMA BatchType == ASSUME TypeOK PROVE operations \in Seq(StepsOf(Kinds))
<1>1. StepsOf(WriteKinds) \subseteq StepsOf(Kinds)
  BY DEF StepsOf, WriteKinds
<1>2. operations \in Seq(StepsOf(WriteKinds))
  BY DEF TypeOK
<1> QED BY <1>1, <1>2

\* The batch is sent and compared.
LEMMA FlushIInv == ASSUME IInv, Flush PROVE IInv'
<1> DEFINE next == IF step.kind \in WriteKinds THEN "next" ELSE "direct"
<1>1. /\ pc = "flush" /\ operations' = <<>> /\ expected' = <<>> /\ due' = <<>>
      /\ Respond(operations, due, expected, state, next)
      /\ position' = IF step.kind \in WriteKinds THEN position + 1 ELSE position
      /\ UNCHANGED <<state, ideal, step>>
  BY DEF Flush
<1>2. TypeOK /\ Predicted /\ Batched /\ Compared /\ Honest /\ NoFalseAlarm
  BY DEF IInv
<1>3. PICK server \in Outcomes :
        /\ stored' = server.documents
        /\ misanswered' = (misanswered \/ server.results # due)
        /\ errors' \in Nat
        /\ errors' = 0 => errors = 0 /\ server = Plain(operations, stored)
        /\ pc' = IF server.results = expected /\ server.documents = state THEN next ELSE "failed"
  <2>1. operations \in Seq(StepsOf(Kinds)) /\ state \in [Keys -> Docs]
    BY <1>2, BatchType DEF TypeOK
  <2> HIDE DEF next
  <2> QED BY <1>1, <1>2, <2>1, Responded
<1>4. server.documents \in [Keys -> Docs]
  BY DEF Outcomes
<1>5. pc' \in {"next", "direct", "failed"} /\ position' \in Nat \ {0} /\ misanswered' \in BOOLEAN
  BY <1>1, <1>2, <1>3 DEF TypeOK
<1>6. <<>> \in Seq(StepsOf(WriteKinds)) /\ <<>> \in Seq(Answers)
  OBVIOUS
<1>7. TypeOK'
  BY <1>1, <1>2, <1>3, <1>4, <1>5, <1>6 DEF TypeOK
<1>8. Predicted'
  BY <1>1, <1>2 DEF Predicted
<1>9. Batched'
  <2>1. pc' = "direct" => step.kind \notin WriteKinds
    BY <1>3
  <2>2. step.kind \in Kinds
    BY <1>2 DEF TypeOK, StepsOf
  <2>3. pc' = "direct" => step'.kind \in {"delete", "read"}
    BY <1>1, <2>1, <2>2 DEF Kinds, WriteKinds
  <2>4. pc' # "flush"
    BY <1>5
  <2> QED BY <1>1, <2>3, <2>4 DEF Batched
<1>10. Compared'
  <2> SUFFICES ASSUME pc' # "failed" PROVE ~misanswered' /\ stored' = state'
    BY DEF Compared
  <2>1. server.results = expected /\ server.documents = state
    BY <1>3
  <2>2. ~misanswered /\ expected = due
    BY <1>1, <1>2 DEF Compared, Predicted
  <2> QED BY <1>1, <1>3, <2>1, <2>2
<1>11. errors' = 0 => stored' = ideal /\ pc' # "failed"
  <2> SUFFICES ASSUME errors' = 0 PROVE stored' = ideal /\ pc' # "failed"
    OBVIOUS
  <2>1. server = [documents |-> ideal, results |-> due]
    BY <1>2, <1>3 DEF Honest
  <2>2. server.documents = state /\ server.results = expected
    BY <1>2, <2>1 DEF Predicted
  <2> QED BY <1>2, <1>3, <2>2 DEF Predicted
<1>12. Honest'
  <2>1. Plain(<<>>, stored') = [documents |-> stored', results |-> <<>>]
    BY ExecutedNone DEF Plain
  <2> QED BY <1>1, <1>11, <2>1 DEF Honest
<1>13. NoFalseAlarm'
  BY <1>3, <1>11 DEF NoFalseAlarm
<1> QED BY <1>7, <1>8, <1>9, <1>10, <1>12, <1>13 DEF IInv

\* A write that does not wait leads to what waits.
LEMMA DirectIInv == ASSUME IInv, Direct PROVE IInv'
<1>1. /\ pc = "next" /\ position <= Steps /\ step' \in StepsOf({"delete", "read"})
      /\ pc' = IF operations = <<>> THEN "direct" ELSE "flush"
      /\ UNCHANGED <<position, state, operations, expected, stored, ideal, due, misanswered, errors>>
  BY DEF Direct
<1>2. TypeOK /\ Predicted /\ Batched /\ Compared /\ Honest
  BY DEF IInv
<1>3. step' \in StepsOf(Kinds) /\ step'.kind \in {"delete", "read"}
  BY <1>1 DEF StepsOf, Kinds
<1>4. TypeOK'
  BY <1>1, <1>2, <1>3 DEF TypeOK
<1>5. Predicted' /\ Compared' /\ NoFalseAlarm'
  BY <1>1, <1>2 DEF Predicted, Compared, NoFalseAlarm
<1>6. Batched'
  BY <1>1, <1>2, <1>3, CheckConstants DEF Batched, TypeOK
<1>7. Honest'
  BY <1>1, <1>2 DEF Honest, Plain
<1> QED BY <1>4, <1>5, <1>6, <1>7 DEF IInv

\* One element, and the same twice.
LEMMA Doubled ==
    ASSUME NEW S, NEW s \in S
    PROVE  <<s>> = Append(<<>>, s) /\ <<s, s>> = Append(<<s>>, s)
<1>1. <<s>> = Append(<<>>, s)
  OBVIOUS
<1>2. <<s, s>> = Append(<<s>>, s)
  OBVIOUS
<1> QED BY <1>1, <1>2

\* A delete that names its key twice deletes it, and both are applied.
LEMMA DeletedTwice ==
    ASSUME NEW s \in StepsOf(Kinds), s.kind = "delete", NEW documents \in [Keys -> Docs]
    PROVE  Plain(<<s, s>>, documents) = [documents |-> After(s, documents),
                                         results |-> <<"applied", "applied">>]
<1> DEFINE none == [documents |-> documents, results |-> <<>>]
           one == [documents |-> After(s, documents), results |-> <<"applied">>]
<1>1. /\ <<>> \in Seq(StepsOf(Kinds)) /\ <<s>> = Append(<<>>, s) /\ <<s, s>> = Append(<<s>>, s)
      /\ <<s>> \in Seq(StepsOf(Kinds))
  BY Doubled
<1>2. Plain(<<>>, documents) = none
  BY ExecutedNone DEF Plain
<1>3. \A b \in Seq(StepsOf(Kinds)) :
         Plain(Append(b, s), documents) = One(Plain(b, documents), s, 0, Missing, "applied")
  BY ExecutedAppend DEF Plain
<1>9. /\ Plain(<<s>>, documents) = One(none, s, 0, Missing, "applied")
      /\ Plain(<<s, s>>, documents) = One(Plain(<<s>>, documents), s, 0, Missing, "applied")
  <2> DEFINE nil == <<>>
             b == <<s>>
             c == <<s, s>>
  <2>1. /\ nil \in Seq(StepsOf(Kinds)) /\ b \in Seq(StepsOf(Kinds))
        /\ b = Append(nil, s) /\ c = Append(b, s) /\ Plain(nil, documents) = none
    BY <1>1, <1>2
  <2> HIDE DEF nil, b, c, none
  <2>2. Plain(b, documents) = One(none, s, 0, Missing, "applied")
    BY <1>3, <2>1
  <2>3. Plain(c, documents) = One(Plain(b, documents), s, 0, Missing, "applied")
    BY <1>3, <2>1
  <2> QED BY <2>2, <2>3 DEF b, c
<1>4. \A d : Result(s, d) = "applied" /\ After(s, d) = [d EXCEPT ![s.key] = Missing]
  BY DEF Result, After
<1>5. /\ Len(<<>>) + 1 # 0 /\ Len(<<"applied">>) + 1 # 0 /\ Append(<<>>, "applied") = <<"applied">>
      /\ Append(<<"applied">>, "applied") = <<"applied", "applied">>
  <2>1. \A a \in Answers : Append(<<>>, a) = <<a>> /\ Append(<<a>>, a) = <<a, a>>
    BY Doubled
  <2>2. \A a : Len(<<a>>) + 1 # 0
    OBVIOUS
  <2>3. Len(<<>>) + 1 # 0
    OBVIOUS
  <2> QED BY <2>1, <2>2, <2>3 DEF Answers
<1>6. One(none, s, 0, Missing, "applied") = one
  BY <1>4, <1>5 DEF One
<1>7. One(one, s, 0, Missing, "applied")
         = [documents |-> After(s, After(s, documents)), results |-> <<"applied", "applied">>]
  BY <1>4, <1>5 DEF One
<1>8. After(s, After(s, documents)) = After(s, documents)
  BY <1>4
<1> QED BY <1>9, <1>6, <1>7, <1>8

\* A delete.
LEMMA DeleteIInv == ASSUME IInv, Delete PROVE IInv'
<1> DEFINE twice == <<"applied", "applied">>
<1>1. /\ pc = "direct" /\ step.kind = "delete" /\ state' = [state EXCEPT ![step.key] = Missing]
      /\ ideal' = After(step, ideal) /\ position' = position + 1
      /\ Respond(<<step, step>>, twice, twice, state', "next")
      /\ UNCHANGED <<operations, expected, due, step>>
  BY DEF Delete
<1>2. TypeOK /\ Predicted /\ Batched /\ Compared /\ Honest
  BY DEF IInv
<1>3. step \in StepsOf(Kinds) /\ <<step, step>> \in Seq(StepsOf(Kinds)) /\ operations = <<>> /\ due = <<>>
  BY <1>1, <1>2 DEF TypeOK, Batched
<1>4. state' = ideal' /\ ideal' \in [Keys -> Docs]
  <2>1. ideal' \in [Keys -> Docs]
    BY <1>1, <1>2, <1>3, AfterType DEF TypeOK
  <2>2. After(step, ideal) = [ideal EXCEPT ![step.key] = Missing]
    BY <1>1 DEF After, Result
  <2> QED BY <1>1, <1>2, <2>1, <2>2 DEF Predicted
<1>5. stored = ideal /\ stored \in [Keys -> Docs] /\ ~misanswered
  BY <1>1, <1>2, <1>3 DEF Compared, Predicted, TypeOK
<1>6. PICK server \in Outcomes :
        /\ stored' = server.documents
        /\ misanswered' = (misanswered \/ server.results # twice)
        /\ errors' \in Nat
        /\ errors' = 0 => errors = 0 /\ server = Plain(<<step, step>>, stored)
        /\ pc' = IF server.results = twice /\ server.documents = state' THEN "next" ELSE "failed"
  <2> DEFINE batch == <<step, step>>
             model == state'
  <2>1. model \in [Keys -> Docs] /\ batch \in Seq(StepsOf(Kinds))
    BY <1>3, <1>4
  <2>2. Respond(batch, twice, twice, model, "next")
    BY <1>1
  <2> HIDE DEF twice, batch, model
  <2>3. \E server \in Outcomes :
        /\ stored' = server.documents
        /\ misanswered' = (misanswered \/ server.results # twice)
        /\ errors' \in Nat
        /\ errors' = 0 => errors = 0 /\ server = Plain(batch, stored)
        /\ pc' = IF server.results = twice /\ server.documents = model THEN "next" ELSE "failed"
    BY <1>2, <2>1, <2>2, Responded
  <2> QED BY <2>3 DEF batch, model
<1>7. server.documents \in [Keys -> Docs]
  BY DEF Outcomes
<1>8. pc' \in {"next", "failed"} /\ misanswered' \in BOOLEAN /\ position' \in Nat \ {0}
  BY <1>1, <1>2, <1>6 DEF TypeOK
<1>9. TypeOK'
  BY <1>1, <1>2, <1>4, <1>6, <1>7, <1>8 DEF TypeOK
<1>10. Predicted'
  BY <1>1, <1>2, <1>4 DEF Predicted
<1>11. Batched'
  BY <1>1, <1>3, <1>8 DEF Batched
<1>12. Compared'
  BY <1>5, <1>6 DEF Compared
<1>13. errors' = 0 => stored' = ideal' /\ pc' # "failed"
  <2> SUFFICES ASSUME errors' = 0 PROVE stored' = ideal' /\ pc' # "failed"
    OBVIOUS
  <2>1. server = [documents |-> ideal', results |-> twice]
    BY <1>1, <1>3, <1>5, <1>6, DeletedTwice
  <2> HIDE DEF twice
  <2>2. server.documents = state' /\ server.results = twice
    BY <1>4, <2>1
  <2> QED BY <1>4, <1>6, <2>2
<1>14. Honest'
  <2>1. Plain(<<>>, stored') = [documents |-> stored', results |-> <<>>]
    BY ExecutedNone DEF Plain
  <2> QED BY <1>1, <1>3, <1>13, <2>1 DEF Honest
<1>15. NoFalseAlarm'
  BY <1>6, <1>13 DEF NoFalseAlarm
<1> QED BY <1>9, <1>10, <1>11, <1>12, <1>14, <1>15 DEF IInv

\* A read compares; the end of the sequence only concludes.
LEMMA ReadIInv == ASSUME IInv, Read \/ Pass PROVE IInv'
<1>1. /\ UNCHANGED <<state, operations, expected, step, stored, ideal, due, misanswered, errors>>
      /\ position' \in {position, position + 1}
      /\ \/ pc = "direct" /\ pc' = (IF Agree(stored, state) THEN "next" ELSE "failed")
         \/ pc = "next" /\ position > Steps /\ pc' = "passed"
  BY DEF Read, Pass
<1>2. TypeOK /\ Predicted /\ Batched /\ Compared /\ Honest
  BY DEF IInv
<1>3. pc' \in {"next", "passed"} /\ operations = <<>>
  <2>1. CASE pc = "direct"
    <3>1. stored = state /\ operations = <<>>
      BY <1>2, <2>1 DEF Compared, Batched
    <3>2. Agree(stored, state)
      BY <3>1 DEF Agree
    <3> QED BY <1>1, <2>1, <3>1, <3>2
  <2>2. CASE pc = "next"
    BY <1>1, <1>2, <2>2 DEF Batched
  <2> QED BY <1>1, <2>1, <2>2
<1>4. position' \in Nat \ {0}
  BY <1>1, <1>2 DEF TypeOK
<1>5. TypeOK'
  BY <1>1, <1>2, <1>3, <1>4 DEF TypeOK
<1>6. Predicted' /\ NoFalseAlarm' /\ Batched'
  BY <1>1, <1>2, <1>3 DEF Predicted, NoFalseAlarm, Batched
<1>7. Compared'
  BY <1>1, <1>2 DEF Compared
<1>8. Honest'
  BY <1>1, <1>2 DEF Honest, Plain
<1> QED BY <1>5, <1>6, <1>7, <1>8 DEF IInv

\* Every step keeps the invariant.
LEMMA StepIInv == IInv /\ [Next]_vars => IInv'
<1> SUFFICES ASSUME IInv, [Next]_vars PROVE IInv'
  OBVIOUS
<1>1. CASE UNCHANGED vars
  BY <1>1 DEF vars, IInv, TypeOK, Predicted, Batched, Compared, Honest, Plain, NoFalseAlarm
<1> QED BY <1>1, WriteIInv, DirectIInv, FlushIInv, DeleteIInv, ReadIInv DEF Next
-----------------------------------------------------------------------------
\* Every state of the checker has its type, for any keys, values and options.
THEOREM Invariance == Spec => []IInv
BY InitIInv, StepIInv, PTL DEF Spec

\* The checker's documents and the results it expects are those of the sequential
\* semantics at every step, however the sequence falls into batches.
THEOREM PredictionIsExact == Spec => [](state = ideal /\ expected = due)
<1>1. IInv => state = ideal /\ expected = due
  BY DEF IInv, Predicted
<1> QED BY <1>1, Invariance, PTL

\* A server that has not erred is never accused.
THEOREM AccusesNobody == Spec => []NoFalseAlarm
<1>1. IInv => NoFalseAlarm
  BY DEF IInv
<1> QED BY <1>1, Invariance, PTL

\* A sequence that passed was answered and stored as the semantics demands: no
\* error of the server, in any batch, goes unnoticed.
THEOREM PassIsFaithful == Spec => []PassedIsFaithful
<1>1. IInv => PassedIsFaithful
  BY DEF IInv, PassedIsFaithful, Compared, Batched, Predicted
<1> QED BY <1>1, Invariance, PTL
=============================================================================
