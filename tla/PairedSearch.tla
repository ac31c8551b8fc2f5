----------------------------- MODULE PairedSearch -----------------------------
(***************************************************************************)
(* A whole bisection as run_local_bisection composes it: the good and the  *)
(* bad reference are sampled (measurement.measure_commit), check_reference_*)
(* signal decides whether there is anything to search for, and the search  *)
(* of BisectSearch evaluates each commit by sampling it and comparing it   *)
(* with the good reference (run_local_candidate).                          *)
(*                                                                         *)
(* A sample is one call of _measure_with_recovery after the warmup of its  *)
(* commit: a value, drawn from what commits without or with the regression *)
(* give on this machine, or no metric.  History: module MergeHistory.      *)
(***************************************************************************)
EXTENDS MergeHistory, PairedReference

CONSTANT Settings       \* plans, and the values a machine measures under them

ASSUME SettingsAssumption ==
  \A s \in Settings :
    /\ s.policy \in Policies
    /\ s.direction \in Directions
    /\ s.fine \subseteq Nat
    /\ s.slow \subseteq Nat

VARIABLES
  setting,              \* the policy, the metric's direction, and the values of a
                        \* commit without ("fine") and with ("slow") the regression
  stage,                \* how far run_local_bisection is
  values,               \* metric_values of the commit being sampled
  good, bad,            \* good_summary and bad_summary
  measured              \* results/<sha>.json: twice the measured_value of each candidate

machine == <<historyVars, setting>>
references == <<stage, good, bad>>
pairedVars == <<vars, machine, references, values, measured>>

policy == setting.policy
noise == Noise(good, bad)

NoSummary == [median2 |-> 0, spread |-> Infinite]
NotMeasured == -1

PairedInit ==
  /\ Init
  /\ HistoryInit
  /\ setting \in Settings
  /\ stage = "good_ref"
  /\ values = << >>
  /\ good = NoSummary
  /\ bad = NoSummary
  /\ measured = [i \in 0 .. n - 1 |-> NotMeasured]

-----------------------------------------------------------------------------
(* The references.                                                         *)

SamplingReference == stage \in {"good_ref", "bad_ref"}

\* The known-good commit has no regression; the known-bad one descends from the culprit.
ReferenceValues == IF stage = "good_ref" THEN setting.fine ELSE setting.slow

\* Enough samples that agree, or as many as are allowed.
ReferenceSettled(taken) ==
  /\ Len(taken) >= policy.referenceRuns
  /\ \/ AtMostPercent(Spread(taken), policy.maxSpread)
     \/ Len(taken) >= Larger(policy.referenceRuns, policy.maxReferenceRuns)

SampleReference == \E v \in ReferenceValues :
  /\ SamplingReference
  /\ ~ReferenceSettled(Append(values, v))
  /\ values' = Append(values, v)
  /\ UNCHANGED <<vars, machine, references, measured>>

SummarizeGoodReference == \E v \in ReferenceValues :
  /\ stage = "good_ref"
  /\ ReferenceSettled(Append(values, v))
  /\ good' = Summary(Append(values, v))
  /\ stage' = "bad_ref"
  /\ values' = << >>
  /\ UNCHANGED <<vars, machine, bad, measured>>

SummarizeBadReference == \E v \in ReferenceValues :
  /\ stage = "bad_ref"
  /\ ReferenceSettled(Append(values, v))
  /\ bad' = Summary(Append(values, v))
  /\ stage' = "signal"
  /\ values' = << >>
  /\ UNCHANGED <<vars, machine, good, measured>>

\* A reference sample without a metric ends the bisection.
MissReference ==
  /\ SamplingReference
  /\ stage' = "stopped"
  /\ UNCHANGED <<vars, machine, values, good, bad, measured>>

CheckSignal ==
  /\ stage = "signal"
  /\ stage' = IF Signal(good, bad, setting.direction, policy) = "reproduced"
              THEN "search" ELSE "stopped"
  /\ UNCHANGED <<vars, machine, values, good, bad, measured>>

-----------------------------------------------------------------------------
(* The search, one sample of a candidate at a time.                        *)

\* Where the search is between two calls of evaluate.
Walk ==
  /\ stage = "search"
  /\ ChooseProbe \/ StopAtBudget \/ StopAllHoles \/ Finish
  /\ UNCHANGED <<machine, references, values, measured>>

SamplingCandidate == stage = "search" /\ pc = "inner" /\ probe # NoIndex

CandidateValues == IF Regressed[probe] THEN setting.slow ELSE setting.fine

\* The floor that _write_grounding_artifacts put into the plan.
CandidateFloor == RecommendedRuns(policy, noise)
CandidateCap == Larger(CandidateFloor, policy.maxCandidateRuns)

VerdictOf(taken) ==
  Verdict(Regression(Median2(taken), good, setting.direction), policy, noise)

CandidateSettled(taken) ==
  /\ Len(taken) >= CandidateFloor
  /\ VerdictOf(taken) # "UNCLEAR" \/ Len(taken) >= CandidateCap

SampleCandidate ==
  /\ SamplingCandidate
  /\ \E v \in CandidateValues :
       /\ ~CandidateSettled(Append(values, v))
       /\ values' = Append(values, v)
  /\ UNCHANGED <<vars, machine, references, measured>>

\* Records the verdict that the samples settled on.
Classify(taken) ==
  /\ CandidateSettled(taken)
  /\ \/ VerdictOf(taken) = "GOOD" /\ RecordGood
     \/ VerdictOf(taken) = "BAD" /\ RecordBad
     \/ VerdictOf(taken) = "UNCLEAR" /\ StopUnclear
  /\ measured' = [measured EXCEPT ![probe] = Median2(taken)]

ClassifyCandidate ==
  /\ SamplingCandidate
  /\ \E v \in CandidateValues : Classify(Append(values, v))
  /\ values' = << >>
  /\ UNCHANGED <<machine, references>>

\* A sample without a metric makes the commit a hole, or stops the search.
MissCandidate ==
  /\ SamplingCandidate
  /\ RecordHole \/ StopUnsupportedTooling
  /\ values' = << >>
  /\ UNCHANGED <<machine, references, measured>>

PairedNext ==
  \/ SampleReference
  \/ SummarizeGoodReference
  \/ SummarizeBadReference
  \/ MissReference
  \/ CheckSignal
  \/ Walk
  \/ SampleCandidate
  \/ ClassifyCandidate
  \/ MissCandidate

PairedSpec == PairedInit /\ [][PairedNext]_pairedVars

-----------------------------------------------------------------------------
(* Correctness.                                                            *)

PairedTypeOK ==
  /\ setting \in Settings
  /\ stage \in {"good_ref", "bad_ref", "signal", "search", "stopped"}
  /\ values \in Seq(setting.fine \cup setting.slow)
  /\ IsSummary(good) /\ IsSummary(bad)
  /\ measured \in [0 .. n - 1 -> Nat \cup {NotMeasured}]

\* The measured value of a commit: the references' summaries stand for the two ends.
MedianOf(i) ==
  IF i = -1 THEN good.median2 ELSE IF i = n - 1 THEN bad.median2 ELSE measured[i]

\* How much worse than the good reference a value is, times 100 * good.median2.
Loss(median2) == Regression(median2, good, setting.direction).num

\* Value a is worse than value b by at least margin / noise.den percent.
WorseBy(a, b, margin) == (Loss(a) - Loss(b)) * noise.den >= margin * good.median2

\* The two commits between which the search places the regression were themselves
\* measured apart: the one it takes for bad was measured worse than the one it takes for
\* good by at least the effective threshold or the gray zone, whichever is smaller, also
\* where a bound is still a reference (check_reference_signal and compare_candidate use
\* different cutoffs).
BoundsAreMeasuredApart ==
  stage = "search" =>
    WorseBy(MedianOf(bestBad), MedianOf(lastGood),
            Min({Threshold(policy, noise), GrayZone(policy, noise)}))

\* The verdicts order the commits as the measurements do: no commit called GOOD was
\* measured as bad as one called BAD, nor as bad as the reproduced bad reference, even
\* where the two cutoffs of compare_candidate coincide.
VerdictsFollowMeasurements ==
  stage = "search" /\ Threshold(policy, noise) > 0 =>
    \A i \in testedIdx : answer[i] = "GOOD" =>
      /\ Loss(measured[i]) < Loss(bad.median2)
      /\ \A j \in testedIdx : answer[j] = "BAD" => Loss(measured[i]) < Loss(measured[j])

\* The gray zone never shrinks below the references' noise: a commit that a quiet policy
\* calls BAD was measured worse than the good reference by more than that noise.
BadIsBeyondTheNoise ==
  stage = "search" /\ policy.minRegression > 0 =>
    \A i \in testedIdx :
      answer[i] = "BAD" => Loss(measured[i]) * noise.den > noise.num * good.median2

\* Dead runs never become a reference: what is searched for was measured against two
\* references that made progress (a median of zero counts as infinitely noisy).
ReferencesAreAlive ==
  stage = "search" => good.median2 > 0 /\ bad.median2 > 0

\* Each single value of a commit without the regression compares as GOOD with this good
\* reference, each value of one with it as BAD.
Separable ==
  /\ \A v \in setting.fine : VerdictOf(<<v>>) = "GOOD"
  /\ \A v \in setting.slow : VerdictOf(<<v>>) = "BAD"

\* Where single values separate, the search names a commit with the regression whose
\* predecessor in the list is without it; without merges that is the commit that
\* introduced it.
NamesTheRegression ==
  stage = "search" /\ Separable /\ outcome.status = "completed" =>
    \A s \in outcome.suspected :
      /\ Regressed[s]
      /\ s > 0 => ~Regressed[s - 1]
      /\ Linear => s = culprit

=============================================================================
