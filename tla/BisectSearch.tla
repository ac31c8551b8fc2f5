---------------------------- MODULE BisectSearch ----------------------------
(***************************************************************************)
(* The hole-tolerant binary search of engine._bisect_search.               *)
(*                                                                         *)
(* Candidates are the indices 0..n-1, good-exclusive and bad-inclusive:    *)
(* -1 stands for the known-good commit and n-1 is the known-bad one.       *)
(* Each call of evaluate is one step, because it is hours of measurement   *)
(* whose answer the search cannot influence; everything the code does      *)
(* between two calls is part of the step that precedes or follows it.      *)
(*                                                                         *)
(* firstBad is not state of the program: it is the true position of the    *)
(* regression, kept beside the search so that properties can speak of it.  *)
(***************************************************************************)
EXTENDS Integers, Sequences

CONSTANTS
  Lengths,              \* lengths a candidate list may have
  Budgets               \* values --max_tests may have

ASSUME LengthsAssumption == Lengths \subseteq Nat \ {0}
ASSUME BudgetsAssumption == Budgets \subseteq Nat

VARIABLES
  n,                    \* len(candidates)
  maxTests,             \* --max_tests
  firstBad,             \* ground truth, see above
  low, high,            \* the active window
  lastGood, bestBad,    \* last_good_idx, best_bad_idx
  mid,                  \* idx: the midpoint the inner loop probes around
  probe,                \* the index handed to evaluate, or NoIndex for None
  tested,               \* tested: indices in the order they were measured
  answer,               \* what evaluate returned for each index
  skipped,              \* the indices recorded as holes
  pc,                   \* which loop the search is in
  outcome               \* the dictionary _outcome returns

inputs == <<n, maxTests, firstBad>>
window == <<low, high, lastGood, bestBad>>
vars == <<inputs, window, mid, probe, tested, answer, skipped, pc, outcome>>

NoIndex == -1

\* evaluate's verdicts; "TOOLING" is SKIP with the perf_smoke_tooling_incompatible note.
Answers == {"GOOD", "BAD", "UNCLEAR", "SKIP", "TOOLING"}

Statuses == {"completed", "completed_with_holes", "inconclusive",
             "inconclusive_holes", "unsupported_tooling_contract"}

Searching == [status |-> "searching", reason |-> "", suspected |-> {}, narrowed |-> {}]

testedIdx == {i \in 0 .. n - 1 : \E k \in 1 .. Len(tested) : tested[k] = i}

-----------------------------------------------------------------------------
(* The index arithmetic of the search.                                     *)

MidpointAtLow(lo, hi) == lo
Midpoint(lo, hi) == (lo + hi) \div 2

\* The last index below the known-bad commit.
LastInteriorOffByOne(len) == len - 3
LastInterior(len) == len - 2

SmallestOf(S) == CHOOSE m \in S : \A k \in S : m <= k

NearestUpwardsOnly(i, lo, hi, seen) ==
  LET free == (lo .. hi) \ seen
      offsets == {d \in 1 .. hi - i : i + d \in free}
  IN IF offsets = {} THEN NoIndex ELSE i + SmallestOf(offsets)
NearestIgnoringTested(i, lo, hi, seen) ==
  LET offsets == {d \in 1 .. 1 + hi - lo : i + d \in lo .. hi \/ i - d \in lo .. hi}
  IN IF offsets = {} THEN NoIndex
     ELSE LET d == SmallestOf(offsets) IN IF i + d \in lo .. hi THEN i + d ELSE i - d

\* The closest untested index to i within lo..hi; ties prefer the higher index.
NearestEvaluableIndex(i, lo, hi, seen) ==
  LET free == (lo .. hi) \ seen
      offsets == {d \in 1 .. 1 + hi - lo : i + d \in free \/ i - d \in free}
  IN IF offsets = {} THEN NoIndex
     ELSE LET d == SmallestOf(offsets) IN IF i + d \in free THEN i + d ELSE i - d

-----------------------------------------------------------------------------
(* _outcome: what the search reports, given the holes recorded so far.     *)

Outcome(status, reason, holes) ==
  LET between == {i \in holes : lastGood < i /\ i < bestBad}
  IN [status    |-> status,
      reason    |-> reason,
      suspected |-> IF status = "unsupported_tooling_contract" THEN {} ELSE {bestBad},
      narrowed  |-> IF \/ status \in {"completed_with_holes", "inconclusive_holes"}
                       \/ between # {}
                    THEN {[lastGood |-> lastGood, firstBad |-> bestBad,
                           between |-> between]}
                    ELSE {}]

Return(status, reason, holes) ==
  /\ outcome' = Outcome(status, reason, holes)
  /\ pc' = "done"

Init ==
  /\ n \in Lengths
  /\ maxTests \in Budgets
  /\ firstBad \in 0 .. n - 1
  /\ low = 0
  /\ high = LastInterior(n)
  /\ lastGood = -1
  /\ bestBad = n - 1
  /\ mid = NoIndex
  /\ probe = NoIndex
  /\ tested = << >>
  /\ answer = [i \in 0 .. n - 1 |-> "untested"]
  /\ skipped = {}
  /\ pc = "outer"
  /\ outcome = Searching

WindowOpen == low <= high

\* The budget is looked at only here, between two narrowings.
BudgetSpentLate(count) == count > maxTests
BudgetSpent(count) == count >= maxTests

StopAtBudget ==
  /\ pc = "outer"
  /\ WindowOpen
  /\ BudgetSpent(Len(tested))
  /\ Return("inconclusive", "max_tests_reached", skipped)
  /\ UNCHANGED <<inputs, window, mid, probe, tested, answer, skipped>>

\* Take the midpoint, or the nearest untested index when the midpoint is a known hole.
ChooseProbe ==
  /\ pc = "outer"
  /\ WindowOpen
  /\ ~BudgetSpent(Len(tested))
  /\ mid' = Midpoint(low, high)
  /\ probe' = IF mid' \in testedIdx
              THEN NearestEvaluableIndex(mid', low, high, testedIdx)
              ELSE mid'
  /\ pc' = "inner"
  /\ UNCHANGED <<inputs, window, tested, answer, skipped, outcome>>

\* One call of evaluate, answered a; every answer is recorded before it is looked at.
Evaluate(a) ==
  /\ pc = "inner"
  /\ probe # NoIndex
  /\ tested' = Append(tested, probe)
  /\ answer' = [answer EXCEPT ![probe] = a]
  /\ UNCHANGED inputs

RecordGood ==
  /\ Evaluate("GOOD")
  /\ lastGood' = probe
  /\ low' = probe + 1
  /\ pc' = "outer"
  /\ UNCHANGED <<high, bestBad, mid, probe, skipped, outcome>>

RecordBadAtMidpoint ==
  /\ Evaluate("BAD")
  /\ bestBad' = mid
  /\ high' = mid - 1
  /\ pc' = "outer"
  /\ UNCHANGED <<low, lastGood, mid, probe, skipped, outcome>>
RecordBad ==
  /\ Evaluate("BAD")
  /\ bestBad' = probe
  /\ high' = probe - 1
  /\ pc' = "outer"
  /\ UNCHANGED <<low, lastGood, mid, probe, skipped, outcome>>

StopUnclear ==
  /\ Evaluate("UNCLEAR")
  /\ Return("inconclusive", "candidate_unclear", skipped)
  /\ UNCHANGED <<window, mid, probe, skipped>>

\* A hole: remember it and probe outward from the midpoint, without a budget check.
RecordHole ==
  /\ Evaluate("SKIP")
  /\ skipped' = skipped \cup {probe}
  /\ probe' = NearestEvaluableIndex(mid, low, high, testedIdx \cup {probe})
  /\ UNCHANGED <<window, mid, pc, outcome>>

StopUnsupportedTooling ==
  /\ Evaluate("TOOLING")
  /\ skipped' = skipped \cup {probe}
  /\ Return("unsupported_tooling_contract", "perf_smoke_tooling_incompatible", skipped')
  /\ UNCHANGED <<window, mid, probe>>

StopAllHolesRetrying ==
  /\ pc = "inner"
  /\ probe = NoIndex
  /\ pc' = "outer"
  /\ UNCHANGED <<inputs, window, mid, probe, tested, answer, skipped, outcome>>
StopAllHolesCompleted ==
  /\ pc = "inner"
  /\ probe = NoIndex
  /\ Return("completed", "first_bad_found", skipped)
  /\ UNCHANGED <<inputs, window, mid, probe, tested, answer, skipped>>
StopAllHoles ==
  /\ pc = "inner"
  /\ probe = NoIndex
  /\ Return("inconclusive_holes", "candidates_unevaluable", skipped)
  /\ UNCHANGED <<inputs, window, mid, probe, tested, answer, skipped>>

Finish ==
  /\ pc = "outer"
  /\ ~WindowOpen
  /\ IF \E i \in skipped : lastGood < i /\ i < bestBad
     THEN Return("completed_with_holes", "first_bad_in_narrowed_interval", skipped)
     ELSE Return("completed", "first_bad_found", skipped)
  /\ UNCHANGED <<inputs, window, mid, probe, tested, answer, skipped>>

Next ==
  \/ StopAtBudget
  \/ ChooseProbe
  \/ RecordGood
  \/ RecordBad
  \/ StopUnclear
  \/ RecordHole
  \/ StopUnsupportedTooling
  \/ StopAllHoles
  \/ Finish

Spec == Init /\ [][Next]_vars

\* The search is a single thread, and the engine's timeouts make every evaluate return.
FairSpec == Spec /\ WF_vars(Next)

-----------------------------------------------------------------------------
(* Correctness.                                                            *)

TypeOK ==
  /\ n \in Lengths
  /\ maxTests \in Budgets
  /\ firstBad \in 0 .. n - 1
  /\ low \in 0 .. n
  /\ high \in -1 .. n - 2
  /\ lastGood \in -1 .. n - 2
  /\ bestBad \in 0 .. n - 1
  /\ mid \in -1 .. n - 2
  /\ probe \in -1 .. n - 2
  /\ tested \in Seq(0 .. n - 2)
  /\ answer \in [0 .. n - 1 -> Answers \cup {"untested"}]
  /\ skipped \subseteq 0 .. n - 2
  /\ pc \in {"outer", "inner", "done"}
  /\ outcome.status \in Statuses \cup {"searching"}

\* Every answer so far agrees with the ground truth.
Trustworthy ==
  \A i \in 0 .. n - 1 : /\ answer[i] = "GOOD" => i < firstBad
                        /\ answer[i] = "BAD" => i >= firstBad

\* If no measurement lied, a completed search names the true first bad commit and a
\* search that stopped among holes reports an interval that contains it
\* (engine.py: "first_bad_found", "candidates_unevaluable").
ReportLocatesFirstBad ==
  Trustworthy =>
    /\ outcome.status \in {"completed", "completed_with_holes"} =>
         outcome.suspected = {firstBad}
    /\ \A r \in outcome.narrowed : r.lastGood < firstBad /\ firstBad <= r.firstBad

\* inconclusive_holes is never an early surrender: every commit strictly between the
\* reported bounds was measured and was a hole, and there is at least one.
GivingUpIsExhaustive ==
  outcome.status = "inconclusive_holes" =>
    \E r \in outcome.narrowed :
      r.between = r.lastGood + 1 .. r.firstBad - 1 /\ r.between # {}

\* No commit is ever measured twice, although holes stay inside the active window and
\* become midpoints again.
NeverMeasuredTwice ==
  \A j, k \in 1 .. Len(tested) : tested[j] = tested[k] => j = k

\* The search may exceed --max_tests, but only while it walks around holes: whatever it
\* measures beyond the budget directly follows a hole.
OverBudgetOnlyPastHoles ==
  \A k \in 1 .. Len(tested) :
    k > maxTests => k > 1 /\ tested[k - 1] \in skipped

\* The status completed_with_holes cannot be reached: the window closes only when the
\* two bounds are neighbours, and then nothing lies between them.
NeverCompletedWithHoles == outcome.status # "completed_with_holes"

\* int.bit_length
bitLength[k \in Nat] == IF k = 0 THEN 0 ELSE 1 + bitLength[k \div 2]

\* Without holes the search needs no more measurements than the expected_max_tests that
\* _write_grounding_artifacts announces: min(count, count.bit_length()).
WithinExpectedTests ==
  skipped = {} => Len(tested) <= n /\ Len(tested) <= bitLength[n]

\* Every search ends with an outcome.
Termination == <>(pc = "done")

\* The search implements the abstract interval narrowing.
Claim == CASE outcome.status = "searching" -> "open"
           [] outcome.status \in {"completed", "completed_with_holes"} -> "exact"
           [] outcome.status = "inconclusive_holes" -> "bracket"
           [] OTHER -> "stopped"

Narrowing == INSTANCE IntervalNarrowing
             WITH lo <- lastGood, hi <- bestBad, claim <- Claim

\* Bounds move only to commits strictly between them; completed means neighbours; no
\* search stops early once the bounds are neighbours (engine._bisect_search).
RefinesNarrowing == Narrowing!Spec

=============================================================================
