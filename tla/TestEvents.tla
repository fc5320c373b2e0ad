------------------------------ MODULE TestEvents ------------------------------
(***************************************************************************)
(* The validator of qualification evidence (internal/testevents/events.go) *)
(* reading what "go test -json" writes while its packages run side by      *)
(* side.  A package's tests may share their names with another package's,  *)
(* a test may run more than once, a test binary may end with a test still  *)
(* open, and the stream may end anywhere, inside a line too.  The command  *)
(* cmd/check-test-events/main.go opens the file and splits the list of     *)
(* required names at its commas.                                           *)
(***************************************************************************)
EXTENDS Naturals, FiniteSets, Functions

CONSTANTS
  Packages, Tests,
  Lists,      \* the -require flags considered: the names between the commas
  MaxRuns     \* bound: times one test runs

\* The flag is absent; strings.Split makes one empty name of it.
Absent == <<"">>

ASSUME EventConstants ==
  /\ \A list \in Lists : Range(list) \subseteq Tests \cup {""}
  /\ MaxRuns \in Nat \ {0}

VARIABLES
  life,      \* what has become of each package
  status,    \* what has become of each test of each package in its latest run
  runs,      \* how often each test was run
  started, passed, packages, tests,   \* the validator's maps and its counter
  list,      \* the -require flag
  verdict    \* "opening" the file, "reading", "accepted", "rejected"

evidence == <<started, passed, packages, tests, verdict>>
eventsVars == <<life, status, runs, evidence, list>>

TestKeys == Packages \X Tests

EventsInit ==
  /\ life = [p \in Packages |-> "waiting"]
  /\ status = [k \in TestKeys |-> "waiting"]
  /\ runs = [k \in TestKeys |-> 0]
  /\ started = <<>> /\ passed = {} /\ packages = <<>> /\ tests = 0
  /\ list \in Lists /\ verdict = "opening"

------------------------------------------------------------------------------
(* The validator *)

\* check: a file that is not there is an error.
OpenFile ==
  /\ verdict = "opening"
  /\ verdict' \in {"reading", "rejected"}
  /\ UNCHANGED <<life, status, runs, started, passed, packages, tests, list>>

\* Mutated form: the absent flag is split as well.
SplitAlways == Range(list)

\* The names that must have passed.  Between two commas there is an empty one,
\* which no test has.
Required == IF list = Absent THEN {} ELSE Range(list)

Set(map, key, value) ==
  [k \in DOMAIN map \cup {key} |-> IF k = key THEN value ELSE map[k]]

\* Mutated form: a test is known by its name alone.
KeyByName(p, t) == t

Key(p, t) == <<p, t>>

OnStart(p) ==
  /\ packages' = Set(packages, p, FALSE)
  /\ UNCHANGED <<started, passed, tests, verdict>>

OnRun(p, t) ==
  /\ started' = Set(started, Key(p, t), FALSE)
  /\ UNCHANGED <<passed, packages, tests, verdict>>

OnPackagePass(p) ==
  /\ packages' = Set(packages, p, TRUE)
  /\ UNCHANGED <<started, passed, tests, verdict>>

OnTestPass(p, t) ==
  IF Key(p, t) \in DOMAIN started
  THEN /\ started' = Set(started, Key(p, t), TRUE)
       /\ passed' = passed \cup {t}
       /\ tests' = tests + 1
       /\ UNCHANGED <<packages, verdict>>
  ELSE /\ verdict' = "rejected"
       /\ UNCHANGED <<started, passed, packages, tests>>

\* "skip", "fail" and "build-fail", of a test or of a package, end the reading;
\* so does a line that cannot be decoded.
Reject ==
  /\ verdict' = "rejected"
  /\ UNCHANGED <<started, passed, packages, tests>>

Complete(map) == \A key \in DOMAIN map : map[key]

\* The conditions at the end of the stream.
Sufficient ==
  /\ tests > 0 /\ DOMAIN packages # {}
  /\ Complete(packages) /\ Complete(started)
  /\ Required \subseteq passed

EndOfStream ==
  /\ verdict = "reading"
  /\ verdict' = IF Sufficient THEN "accepted" ELSE "rejected"
  /\ UNCHANGED <<life, status, runs, started, passed, packages, tests, list>>

------------------------------------------------------------------------------
(* go test *)

Reading == verdict = "reading"

Open(p) == life[p] = "open"

PackageStarts(p) ==
  /\ Reading /\ life[p] = "waiting"
  /\ life' = [life EXCEPT ![p] = "open"]
  /\ OnStart(p)
  /\ UNCHANGED <<status, runs, list>>

TestRuns(p, t) ==
  /\ Reading /\ Open(p)
  /\ status[<<p, t>>] \in {"waiting", "passed"} /\ runs[<<p, t>>] < MaxRuns
  /\ status' = [status EXCEPT ![<<p, t>>] = "running"]
  /\ runs' = [runs EXCEPT ![<<p, t>>] = @ + 1]
  /\ OnRun(p, t)
  /\ UNCHANGED <<life, list>>

TestPasses(p, t) ==
  /\ Reading /\ Open(p) /\ status[<<p, t>>] = "running"
  /\ status' = [status EXCEPT ![<<p, t>>] = "passed"]
  /\ OnTestPass(p, t)
  /\ UNCHANGED <<life, runs, list>>

TestFailsOrSkips(p, t) ==
  /\ Reading /\ Open(p) /\ status[<<p, t>>] = "running"
  /\ status' = [status EXCEPT ![<<p, t>>] = "lost"]
  /\ Reject
  /\ UNCHANGED <<life, runs, list>>

\* The binary ended with status zero, perhaps from inside a test.
PackagePasses(p) ==
  /\ Reading /\ Open(p)
  /\ life' = [life EXCEPT ![p] = "passed"]
  /\ OnPackagePass(p)
  /\ UNCHANGED <<status, runs, list>>

\* A crash, a timeout, a build failure, or a package without test files.
PackageFailsOrSkips(p) ==
  /\ Reading /\ life[p] \in {"waiting", "open"}
  /\ life' = [life EXCEPT ![p] = "lost"]
  /\ Reject
  /\ UNCHANGED <<status, runs, list>>

\* The stream breaks off inside a line.
Truncated ==
  /\ Reading /\ Reject
  /\ UNCHANGED <<life, status, runs, list>>

EventsNext ==
  \/ \E p \in Packages : PackageStarts(p) \/ PackagePasses(p) \/ PackageFailsOrSkips(p)
  \/ \E p \in Packages, t \in Tests :
       TestRuns(p, t) \/ TestPasses(p, t) \/ TestFailsOrSkips(p, t)
  \/ OpenFile \/ EndOfStream \/ Truncated

EventsSpec == EventsInit /\ [][EventsNext]_eventsVars

------------------------------------------------------------------------------
\* What the run itself was, apart from what the validator wrote down.
Green ==
  /\ \A p \in Packages : life[p] \in {"waiting", "passed"}
  /\ \A k \in TestKeys : status[k] \in {"waiting", "passed"}
  /\ \E k \in TestKeys : status[k] = "passed"
  /\ list = Absent \/ \A t \in Range(list) :
                        t \in Tests /\ \E p \in Packages : status[<<p, t>>] = "passed"

\* The validator's maps hold packages and package-qualified tests only.
EventsTypeOK ==
  /\ life \in [Packages -> {"waiting", "open", "passed", "lost"}]
  /\ status \in [TestKeys -> {"waiting", "running", "passed", "lost"}]
  /\ runs \in [TestKeys -> 0..MaxRuns]
  /\ DOMAIN started \subseteq TestKeys /\ DOMAIN packages \subseteq Packages
  /\ passed \subseteq Tests
  /\ tests \in Nat
  /\ list \in Lists
  /\ verdict \in {"opening", "reading", "accepted", "rejected"}

\* Evidence is accepted only from a run in which every package that began ended
\* well, every test that began passed, in its latest run too, some test ran, and
\* every required name passed; however the packages' events interleave.
AcceptedIsGreen == verdict = "accepted" => Green

\* A whole stream of a run like that is never rejected.
GreenIsAccepted == [][EndOfStream /\ Green => verdict' = "accepted"]_eventsVars
==============================================================================
