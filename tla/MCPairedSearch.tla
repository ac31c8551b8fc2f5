---------------------------- MODULE MCPairedSearch ----------------------------
(* Histories of up to four candidates; policies and machines on which the  *)
(* cutoffs, the noise, the caps and the zero median all decide something.  *)
(* A value of 40 makes one unit 2.5 percent.                               *)
EXTENDS PairedSearch

Policy(refs, maxRefs, runs, maxRuns, min, gray, mult) ==
  [referenceRuns |-> refs, maxReferenceRuns |-> maxRefs,
   candidateRuns |-> runs, maxCandidateRuns |-> maxRuns,
   minRegression |-> min, grayZone |-> gray, noiseMultiplier |-> mult, maxSpread |-> 10]

Setting(direction, fine, slow, p) ==
  [direction |-> direction, fine |-> fine, slow |-> slow, policy |-> p]

MCSettings ==
  {\* quiet machine, default cutoffs: 38 is reproduced and yet UNCLEAR
   Setting("decrease", {39, 40}, {37, 38}, Policy(2, 3, 1, 2, 5, 1, 2)),
   Setting("decrease", {40}, {36, 37}, Policy(1, 1, 1, 1, 5, 1, 2)),
   \* a metric that regresses upwards
   Setting("increase", {39, 40}, {43, 46}, Policy(1, 2, 1, 2, 5, 1, 2)),
   \* noisy machine: the levels overlap, the noise decides
   Setting("decrease", {35, 40}, {34, 36}, Policy(2, 3, 1, 3, 5, 1, 0)),
   \* dead runs and zero medians
   Setting("decrease", {0, 40}, {0, 30}, Policy(2, 2, 1, 1, 5, 1, 2)),
   \* no gray zone: the two cutoffs coincide; and nothing but the noise
   Setting("decrease", {39, 40}, {38, 39}, Policy(1, 1, 1, 1, 5, 0, 2)),
   Setting("decrease", {39, 40}, {38, 40}, Policy(2, 2, 1, 2, 0, 0, 0))}

=============================================================================
