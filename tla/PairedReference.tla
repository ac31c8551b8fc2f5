--------------------------- MODULE PairedReference ---------------------------
(***************************************************************************)
(* The classification of paired_reference: medians, spreads, and the two   *)
(* gates of a bisection, check_reference_signal and compare_candidate.     *)
(*                                                                         *)
(* A metric value is a natural number.  A median may lie half way between  *)
(* two values, and a percentage is a quotient, so that medians are kept    *)
(* doubled and percentages as fractions [num, den]; den = 0 is inf.  Both  *)
(* sides of a comparison are multiplied out: no rounding is modelled, and  *)
(* neither is NaN.                                                         *)
(***************************************************************************)
EXTENDS Integers, Sequences, FiniteSetsExt

\* paired_reference's view of a MeasurementPolicy, in whole percent.
Policies ==
  [referenceRuns : Nat \ {0}, maxReferenceRuns : Nat \ {0},
   candidateRuns : Nat \ {0}, maxCandidateRuns : Nat \ {0},
   minRegression : Nat, grayZone : Nat, noiseMultiplier : Nat, maxSpread : Nat]

Directions == {"decrease", "increase"}

Larger(a, b) == IF a < b THEN b ELSE a

-----------------------------------------------------------------------------
(* summarize_measurements: repeated samples of one commit.                 *)

\* The k-th value of sorted(s).
KthSmallest(s, k) ==
  Min({v \in Range(s) : k <= Cardinality({i \in DOMAIN s : s[i] <= v})})

\* Twice statistics.median(s).
Median2(s) == KthSmallest(s, (Len(s) + 1) \div 2) + KthSmallest(s, Len(s) \div 2 + 1)

\* Four times the median absolute deviation.
Deviation4(s, median2) ==
  Median2([i \in DOMAIN s |-> IF 2 * s[i] < median2 THEN median2 - 2 * s[i]
                                                    ELSE 2 * s[i] - median2])

Infinite == [num |-> 1, den |-> 0]

\* 1.4826 * MAD / median * 100
SpreadOfAnyMedian(s) == [num |-> 7413 * Deviation4(s, Median2(s)), den |-> 100 * Median2(s)]
Spread(s) ==
  IF Median2(s) > 0
  THEN [num |-> 7413 * Deviation4(s, Median2(s)), den |-> 100 * Median2(s)]
  ELSE Infinite

Summary(s) == [median2 |-> Median2(s), spread |-> Spread(s)]

IsSummary(summary) ==
  /\ summary.median2 \in Nat
  /\ summary.spread.num \in Nat
  /\ summary.spread.den \in Nat
  /\ summary.spread.den = 0 => summary.spread.num = 1
  /\ summary.spread.den > 0 => summary.median2 > 0

-----------------------------------------------------------------------------
(* Percentages.  A whole percentage is given times the fraction's den.     *)

AtMostPercent(f, percent) == f.num <= percent * f.den

Noise(good, bad) ==
  IF good.spread.num * bad.spread.den < bad.spread.num * good.spread.den
  THEN bad.spread ELSE good.spread

\* The percentage by which median2 is worse than the good reference's.
Regression(median2, good, direction) ==
  [num |-> 100 * (IF direction = "decrease" THEN good.median2 - median2
                                            ELSE median2 - good.median2),
   den |-> good.median2]

\* The effective threshold and gray zone, times noise.den.
Threshold(policy, noise) ==
  Larger(policy.minRegression * noise.den, policy.noiseMultiplier * noise.num)
GrayZoneOfPolicy(policy, noise) == policy.grayZone * noise.den
GrayZone(policy, noise) == Larger(policy.grayZone * noise.den, noise.num)

BadCutoff(policy, noise) == Threshold(policy, noise) + GrayZone(policy, noise)
GoodCutoffAtThreshold(policy, noise) == Threshold(policy, noise)
GoodCutoff(policy, noise) == Larger(0, Threshold(policy, noise) - GrayZone(policy, noise))

Reaches(regression, cutoff, noise) == regression.num * noise.den >= cutoff * regression.den
Within(regression, cutoff, noise) == regression.num * noise.den <= cutoff * regression.den

-----------------------------------------------------------------------------
(* The gates.                                                              *)

\* check_reference_signal: the note, or "reproduced".
Signal(good, bad, direction, policy) ==
  IF good.median2 <= 0 THEN "good_ref_median_value_not_positive"
  ELSE IF ~AtMostPercent(good.spread, policy.maxSpread) THEN "good_ref_measurements_too_noisy"
  ELSE IF ~AtMostPercent(bad.spread, policy.maxSpread) THEN "bad_ref_measurements_too_noisy"
  ELSE IF Reaches(Regression(bad.median2, good, direction),
                  Threshold(policy, Noise(good, bad)), Noise(good, bad))
  THEN "reproduced" ELSE "local_regression_not_reproduced"

VerdictGoodFirst(regression, policy, noise) ==
  IF Within(regression, GoodCutoff(policy, noise), noise) THEN "GOOD"
  ELSE IF Reaches(regression, BadCutoff(policy, noise), noise) THEN "BAD" ELSE "UNCLEAR"
\* compare_candidate
Verdict(regression, policy, noise) ==
  IF Reaches(regression, BadCutoff(policy, noise), noise) THEN "BAD"
  ELSE IF Within(regression, GoodCutoff(policy, noise), noise) THEN "GOOD" ELSE "UNCLEAR"

\* _recommended_candidate_runs: the floor that the reference noise calls for.
RecommendedRuns(policy, noise) ==
  LET floor == policy.candidateRuns
      ceiling == Larger(floor, policy.maxCandidateRuns)
  IN IF AtMostPercent(noise, policy.grayZone) THEN floor
     ELSE IF AtMostPercent(noise, 2 * policy.grayZone)
     THEN IF ceiling < floor + 1 THEN ceiling ELSE floor + 1
     ELSE ceiling

=============================================================================
