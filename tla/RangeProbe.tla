------------------------------ MODULE RangeProbe ------------------------------
(***************************************************************************)
(* engine._run_range_probe: measure both endpoints and a bounded, balanced *)
(* choice of the commits between them, whatever fails on the way, and      *)
(* report coverage without a verdict.  Each benchmark command of a         *)
(* measurement is preceded by the probe loop of module ProbeLoop.          *)
(*                                                                         *)
(* Commit 0 is the good endpoint, length + 1 the bad one.  The warmup, the *)
(* samples and the retries of measure_commit are up to MaxCommands         *)
(* benchmark commands, the last of which decides whether there is a number.*)
(*                                                                         *)
(* A command that reaches its limit, or whose engine dies, may leave its   *)
(* container running: only the runner is killed (module AttemptProcesses). *)
(* Such a container goes on with the environment of its commit at any time.*)
(***************************************************************************)
EXTENDS ProbeLoop, FiniteSets

CONSTANTS
  MaxLength,            \* bound: commits strictly between the endpoints
  MaxBudget,            \* bound: --max_tests
  MaxCommands,          \* bound: benchmark commands per commit
  MaxCrashes,           \* bound: deaths of the process considered
  MaxLeftovers,         \* bound: commits with a leftover container at a time
  MaxCount              \* bound: ranges on which the choice alone is examined

ASSUME SweepAssumption ==
  /\ MaxLength \in Nat /\ MaxBudget \in Nat
  /\ MaxCommands \in Nat \ {0} /\ MaxCrashes \in Nat /\ MaxLeftovers \in Nat /\ MaxCount \in Nat

VARIABLES
  length, budget, cleanup,  \* interior commits, --max_tests, --cleanup_probe_envs
  probeCommits,             \* the commits to measure, in order
  measurements,             \* records of this process, in order
  commands,                 \* benchmark commands of the commit under way
  envs,                     \* commits with an environment in the cache
  leftover,                 \* commits whose container outlived its command and may still work
  report,                   \* status in probe_range.json
  crashes

sweepInputs == <<length, budget, cleanup, probeCommits>>
sweep == <<sweepInputs, measurements, commands, envs, leftover, report>>
vars == <<probeVars, sweep, crashes>>

Good == 0
Bad == length + 1

-----------------------------------------------------------------------------
(* _balanced_probe_commits: the intervals are served first in, first out.  *)

\* One turn of the loop over [selected, intervals]; positions count from 1.
ServedLastFirst(s, max) ==
  IF s.intervals = << >> \/ Len(s.selected) >= max THEN s
  ELSE LET low == s.intervals[Len(s.intervals)][1]
           high == s.intervals[Len(s.intervals)][2]
           rest == SubSeq(s.intervals, 1, Len(s.intervals) - 1)
           midpoint == (low + high) \div 2
       IN IF low > high THEN [s EXCEPT !.intervals = rest]
          ELSE [selected |-> Append(s.selected, midpoint),
                intervals |-> rest \o << <<low, midpoint - 1>>, <<midpoint + 1, high>> >>]
Served(s, max) ==
  IF s.intervals = << >> \/ Len(s.selected) >= max THEN s
  ELSE LET low == Head(s.intervals)[1]
           high == Head(s.intervals)[2]
           midpoint == (low + high) \div 2
       IN IF low > high THEN [s EXCEPT !.intervals = Tail(@)]
          ELSE [selected |-> Append(s.selected, midpoint),
                intervals |-> Tail(s.intervals)
                                \o << <<low, midpoint - 1>>, <<midpoint + 1, high>> >>]

BalancedProbeCommits(count, max) ==
  LET turn[k \in Nat] ==
        IF k = 0 THEN [selected |-> << >>, intervals |-> << <<1, count>> >>]
        ELSE Served(turn[k - 1], max)
  IN turn[2 * count + 1].selected

InteriorWithBad == length + 1
\* candidates[:-1]
Interior == length

CoverageComplete == Interior <= Len(probeCommits) - 2

-----------------------------------------------------------------------------
Init ==
  /\ ProbeInit
  /\ length \in 0 .. MaxLength
  /\ budget \in 0 .. MaxBudget
  /\ cleanup \in BOOLEAN
  /\ probeCommits = <<Good>> \o BalancedProbeCommits(Interior, budget) \o <<Bad>>
  /\ measurements = << >>
  /\ commands = 0
  /\ envs = {}
  /\ leftover = {}
  /\ report = "running"
  /\ crashes = 0

Pending == report = "running" /\ Len(measurements) < Len(probeCommits)
Current == probeCommits[Len(measurements) + 1]

NextCommand ==
  /\ Pending
  /\ loop = "idle"
  /\ BeginLoop
  /\ UNCHANGED <<sweep, crashes>>

Probe ==
  /\ ProbeStep
  /\ UNCHANGED <<sweep, crashes>>

EndLoop ==
  /\ loop' = "idle"
  /\ UNCHANGED <<probeInputs, repairs, image, attempt>>

\* A benchmark command leaves the environment of its commit, or not, as it may reinstall it.
EnvsLeft == IF loop = "ready" THEN {envs \cup {Current}, envs \ {Current}} ELSE {envs}

\* Its container ends with it or outlives it.  What an earlier command of the commit left has the
\* same name and is removed first (docker rm -f), though nothing looks whether that worked.
Outlived ==
  IF loop = "ready" /\ runner = "docker"
  THEN {left \in {leftover \cup {Current}, leftover \ {Current}} : Cardinality(left) <= MaxLeftovers}
  ELSE {leftover}

\* Another command for the same commit: the sample after a warmup, a further sample, a retry.
CommandAgain ==
  /\ loop \in {"ready", "blocked"}
  /\ commands + 1 < MaxCommands
  /\ EndLoop
  /\ commands' = commands + 1
  /\ envs' \in EnvsLeft
  /\ leftover' \in Outlived
  /\ UNCHANGED <<sweepInputs, measurements, report, crashes>>

\* _cleanup_probe_environment removes the environment, and no container; where it fails or
\* is cut off, some of it or all may be gone.  It removes nothing unless it is asked to.
Releases == IF cleanup /\ runner = "docker" THEN {"released", "kept"} ELSE {"not_asked"}
Cleaned(left, released) ==
  CASE released = "released" -> {left \ {Current}}
    [] released = "kept" -> {left, left \ {Current}}
    [] released = "not_asked" -> {left}

\* The measurement ends, succeeded or failed; its environment is released, its record and
\* the artifact are written, and the sweep goes on either way.
RecordMeasurement ==
  /\ loop \in {"ready", "blocked"}
  /\ \E succeeded \in BOOLEAN, left \in EnvsLeft, released \in Releases :
       /\ succeeded => loop = "ready" /\ Current \in left
       /\ envs' \in Cleaned(left, released)
       /\ measurements' = Append(measurements,
            [commit |-> Current, succeeded |-> succeeded, released |-> released])
  /\ leftover' \in Outlived
  /\ EndLoop
  /\ commands' = 0
  /\ UNCHANGED <<sweepInputs, report, crashes>>

\* A leftover container removes, makes again or fills the environment of its commit.
LeftoverWorks ==
  /\ \E c \in leftover : envs' \in {envs \cup {c}, envs \ {c}}
  /\ UNCHANGED <<probeVars, sweepInputs, measurements, commands, leftover, report, crashes>>

Finish ==
  /\ report = "running"
  /\ ~Pending
  /\ report' = IF \A k \in DOMAIN measurements : measurements[k].succeeded
               THEN "probe_completed" ELSE "probe_completed_with_failures"
  /\ UNCHANGED <<probeVars, sweepInputs, measurements, commands, envs, leftover, crashes>>

Crash ==
  /\ crashes < MaxCrashes
  /\ report = "running"
  /\ crashes' = crashes + 1
  /\ ProbeDies
  /\ measurements' = << >>
  /\ commands' = 0
  /\ envs' \in EnvsLeft
  /\ leftover' \in Outlived
  /\ UNCHANGED <<sweepInputs, report>>

Step == NextCommand \/ Probe \/ CommandAgain \/ RecordMeasurement \/ Finish
Next == Step \/ LeftoverWorks \/ Crash

Spec == Init /\ [][Next]_vars
FairSpec == Spec /\ WF_vars(Step)

-----------------------------------------------------------------------------
(* Correctness.                                                            *)

Measured == {measurements[k].commit : k \in DOMAIN measurements}

\* "Both endpoints are always measured ... failures are recorded and the sweep continues"
\* (README): a finished report has measured both endpoints and, within the budget, as many
\* interior commits as it can, each once; complete coverage means every commit of the range;
\* and it is called completed exactly when nothing failed.  An environment it reports
\* released is gone, unless a container of the commit outlived its last command: that one
\* may have made it again, which nothing in the report tells.
SweepIsComplete ==
  report # "running" =>
    /\ {Good, Bad} \subseteq Measured /\ Measured \subseteq Good .. Bad
    /\ Cardinality(Measured) = Len(measurements)
    /\ Len(measurements) = 2 + (IF budget < length THEN budget ELSE length)
    /\ CoverageComplete <=> Measured = Good .. Bad
    /\ report = "probe_completed" <=> \A k \in DOMAIN measurements : measurements[k].succeeded
    /\ \A k \in DOMAIN measurements :
         measurements[k].released = "released" => measurements[k].commit \notin envs \ leftover

\* "traversal: breadth_first_midpoint", of any range a process is about to sweep: once
\* parts - 1 interior commits have been chosen, parts a power of two, no run of
\* commits without a chosen one is longer than count / parts.
WellSpread(order, k, count) ==
  LET chosen == {order[j] : j \in 1 .. k} \cup {0, count + 1}
  IN \A parts \in {p \in {1, 2, 4, 8, 16} : k >= p - 1} :
       \A a \in chosen \ {count + 1} :
         \E b \in chosen : a < b /\ b <= a + 1 + count \div parts
GapsStayBalanced ==
  measurements = << >> /\ loop = "idle" /\ commands = 0 => \A count \in 0 .. MaxCount :
    LET order == BalancedProbeCommits(count, count)
    IN \A k \in DOMAIN order : WellSpread(order, k, count)

\* The sweep ends: the probe's budget bounds every loop.
SweepEnds == <>(report # "running")

=============================================================================
