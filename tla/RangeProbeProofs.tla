--------------------------- MODULE RangeProbeProofs ---------------------------
(***************************************************************************)
(* A benchmark command of a range probe only runs in an image that exists; *)
(* the commits a sweep measures are distinct, as many as the budget allows *)
(* and well spread over the range; and a finished report has a record of   *)
(* each of them: for every range, budget, policy and set of requests.      *)
(***************************************************************************)
EXTENDS RangeProbe, SequenceTheorems, FiniteSetTheorems, WellFoundedInduction, TLAPS

\* Taking the last layer off an image gives the image it was built on.
LEMMA UnderLastLayer ==
  ASSUME NEW S, NEW s \in Seq(S), NEW e \in S
  PROVE  SubSeq(Append(s, e), 1, Len(Append(s, e)) - 1) = s
  <1> DEFINE t == SubSeq(Append(s, e), 1, Len(s))
  <1>1. Len(Append(s, e)) - 1 = Len(s)
    BY AppendProperties
  <1>2. /\ t \in Seq(S)
        /\ Len(t) = Len(s)
        /\ \A i \in 1 .. Len(s) : t[i] = s[i]
    <2>1. \A i \in 1 .. Len(s) : Append(s, e)[i] = s[i] /\ s[i] \in S
      BY AppendProperties
    <2>2. QED
      BY <2>1, SubSeqProperties
  <1>3. t = s
    BY <1>2, SeqEqual
  <1> QED
    BY <1>1, <1>3

\* An image that can be run: the plan's own, or one that was built for a Docker runner.
Runnable(i) == i = PlanImage \/ (runner = "docker" /\ i \in built)

\* The marker always names a runnable image, and so does the plan outside a build; during a
\* build the plan's image is the runnable one with a layer on top.
IInv ==
  /\ marker \in Seq(Requests) /\ image \in Seq(Requests)
  /\ Runnable(marker)
  /\ loop # "build" => Runnable(image)
  /\ loop = "build" =>
       /\ runner = "docker"
       /\ \E under \in Seq(Requests), request \in Requests :
            Runnable(under) /\ image = Append(under, request)

\* The invariant holds initially.
THEOREM InitEstablishes == Init => IInv
  BY EmptySeq DEF Init, ProbeInit, IInv, Runnable, PlanImage

\* What a step of the loop that changes neither marker nor images preserves.
LEMMA ImagesUntouched ==
  ASSUME IInv, UNCHANGED <<probeInputs, repairs, image>>,
         loop' = "build" <=> loop = "build"
  PROVE  IInv'
  BY DEF IInv, Runnable, probeInputs, repairs

\* Asking for a repair layers a request over a runnable image.
LEMMA RepairPreserves ==
  ASSUME IInv, RepairBaseImage
  PROVE  IInv'
  <1>1. PICK request \in Requests :
          /\ Asked
          /\ IF runner # "docker" \/ ~Valid(request)
             THEN loop' = "blocked" /\ UNCHANGED <<image, attempt>>
             ELSE LET repaired == Append(image, request) IN
                    /\ image' = repaired
                    /\ IF repaired = marker THEN NextAttempt
                       ELSE loop' = "build" /\ UNCHANGED attempt
          /\ UNCHANGED <<probeInputs, repairs>>
    BY DEF RepairBaseImage
  <1>2. loop = "decide"
    BY <1>1 DEF Asked
  <1>3. CASE runner # "docker" \/ ~Valid(request)
    BY <1>1, <1>2, <1>3, ImagesUntouched
  <1>4. CASE ~(runner # "docker" \/ ~Valid(request))
    <2>1. image' = Append(image, request) /\ image' \in Seq(Requests)
      <3>1. image' = Append(image, request)
        BY <1>1, <1>4
      <3>2. image \in Seq(Requests)
        BY DEF IInv
      <3>3. Append(image, request) \in Seq(Requests)
        BY <3>2, AppendProperties
      <3>4. QED
        BY <3>1, <3>3
    <2>2. CASE image' = marker
      <3>1. loop' # "build"
        BY <1>1, <1>4, <2>1, <2>2 DEF NextAttempt
      <3>2. QED
        BY <1>1, <2>1, <2>2, <3>1 DEF IInv, Runnable, probeInputs, repairs
    <2>3. CASE image' # marker
      <3>1. loop' = "build"
        BY <1>1, <1>4, <2>1, <2>3
      <3>2. \E under \in Seq(Requests), r \in Requests :
               Runnable(under)' /\ image' = Append(under, r)
        BY <1>1, <1>2, <2>1 DEF IInv, Runnable, probeInputs, repairs
      <3>3. QED
        BY <1>1, <1>4, <2>1, <3>1, <3>2 DEF IInv, Runnable, probeInputs, repairs
    <2>4. QED
      BY <2>2, <2>3
  <1>5. QED
    BY <1>3, <1>4

\* A failed build takes the layer off again.
LEMMA BuildFailsPreserves ==
  ASSUME IInv, BuildFails
  PROVE  IInv'
  <1>1. PICK under \in Seq(Requests), request \in Requests :
          Runnable(under) /\ image = Append(under, request)
    BY DEF IInv, BuildFails
  <1>2. image' = under
    BY <1>1, UnderLastLayer DEF BuildFails
  <1>3. QED
    BY <1>1, <1>2 DEF IInv, BuildFails, Runnable, probeInputs, repairs

\* Every step of the probe loop preserves the invariant.
LEMMA ProbeStepPreserves ==
  ASSUME IInv, ProbeStep
  PROVE  IInv'
  <1>1. CASE DeclareReady
    BY <1>1, ImagesUntouched DEF DeclareReady, Asked
  <1>2. CASE GiveUp
    BY <1>2, ImagesUntouched DEF GiveUp
  <1>3. CASE RunDebugCommand
    BY <1>3, ImagesUntouched DEF RunDebugCommand, Asked
  <1>4. CASE DebugCommandEnds
    BY <1>4, ImagesUntouched DEF DebugCommandEnds, NextAttempt
  <1>5. CASE RepairBaseImage
    BY <1>5, RepairPreserves
  <1>6. CASE BuildSucceeds
    <2>1. loop' # "build" /\ image' = image /\ image \in built' /\ marker' = image
      BY <1>6 DEF BuildSucceeds, NextAttempt
    <2>2. runner' = "docker"
      BY <1>6 DEF BuildSucceeds, IInv, probeInputs
    <2>3. QED
      BY <2>1, <2>2 DEF IInv, Runnable
  <1>7. CASE BuildFails
    BY <1>7, BuildFailsPreserves
  <1>8. QED
    BY <1>1, <1>2, <1>3, <1>4, <1>5, <1>6, <1>7 DEF ProbeStep

\* So does beginning a command.
LEMMA BeginPreserves ==
  ASSUME IInv, BeginLoop
  PROVE  IInv'
  <1>1. loop' # "build" /\ UNCHANGED <<probeInputs, repairs>>
    BY DEF BeginLoop
  <1>2. image' = marker \/ image' = PlanImage
    BY DEF BeginLoop
  <1>3. QED
    BY <1>1, <1>2, EmptySeq DEF IInv, Runnable, PlanImage, probeInputs, repairs

\* So does a death: the next process starts from the marker or the plan.
LEMMA DeathPreserves ==
  ASSUME IInv, ProbeDies
  PROVE  IInv'
  <1>1. /\ marker' = marker \/ marker' = PlanImage
        /\ image' = PlanImage /\ loop' # "build"
        /\ UNCHANGED <<probeInputs, built>>
    BY DEF ProbeDies
  <1>2. QED
    BY <1>1, EmptySeq DEF IInv, Runnable, PlanImage, probeInputs

\* So does ending a sweep.
LEMMA EndPreserves ==
  ASSUME IInv, loop \in {"ready", "blocked"}, EndLoop
  PROVE  IInv'
  BY ImagesUntouched DEF EndLoop

\* Every step preserves the invariant.
THEOREM StepPreserves == IInv /\ [Next]_vars => IInv'
  <1> SUFFICES ASSUME IInv, [Next]_vars PROVE IInv'
    OBVIOUS
  <1>1. CASE NextCommand
    BY <1>1, BeginPreserves DEF NextCommand
  <1>2. CASE Probe
    BY <1>2, ProbeStepPreserves DEF Probe
  <1>3. CASE CommandAgain
    BY <1>3, EndPreserves DEF CommandAgain
  <1>4. CASE RecordMeasurement
    BY <1>4, EndPreserves DEF RecordMeasurement
  <1>5. CASE Finish
    BY <1>5, ImagesUntouched DEF Finish, probeVars
  <1>6. CASE Crash
    BY <1>6, DeathPreserves DEF Crash
  <1>7. CASE UNCHANGED vars
    BY <1>7, ImagesUntouched DEF vars, probeVars
  <1>8. CASE LeftoverWorks
    BY <1>8, ImagesUntouched DEF LeftoverWorks, probeVars
  <1>9. QED
    BY <1>1, <1>2, <1>3, <1>4, <1>5, <1>6, <1>7, <1>8 DEF Next, Step

\* No benchmark command of a sweep runs in an image whose build failed or was cut off, for
\* any range, any replies of the model and any number of deaths of the process.
THEOREM BenchmarksRunInBuiltImages ==
  Spec => []BenchmarkedImagesExist
  <1>1. IInv => BenchmarkedImagesExist
    BY DEF IInv, Runnable, BenchmarkedImagesExist
  <1>2. QED
    BY <1>1, InitEstablishes, StepPreserves, PTL DEF Spec

-----------------------------------------------------------------------------
(* The choice of the commits to probe.                                     *)

\* A set of naturals that is not empty has a least element.
LEMMA LeastNatural ==
  ASSUME NEW S \in SUBSET Nat, S # {}
  PROVE  \E x \in S : \A y \in S : x <= y
  <1> DEFINE Below == OpToRel(<, Nat)
  <1>1. \A a, b \in Nat : a < b => <<a, b>> \in Below
    BY DEF OpToRel
  <1>2. IsWellFoundedOn(Below, Nat)
    BY NatLessThanWellFounded
  <1> HIDE DEF Below
  <1>3. PICK x \in S : \A y \in S : ~(<<y, x>> \in Below)
    BY <1>2, WFMin
  <1>4. ASSUME NEW y \in S
        PROVE  x <= y
    <2>1. x \in Nat /\ y \in Nat
      OBVIOUS
    <2>2. ~(y < x)
      BY <1>1, <1>3, <2>1, Zenon
    <2>3. QED
      BY <2>1, <2>2
  <1>5. QED
    BY <1>4

\* f is base at 0 and goes on by step.
Recursive(f, S, base, step) ==
  f \in [Nat -> S] /\ \A k \in Nat : f[k] = IF k = 0 THEN base ELSE step[f[k - 1]]

\* Such a function exists.
LEMMA RecursionHasSolution ==
  ASSUME NEW S, NEW base \in S, NEW step \in [S -> S]
  PROVE  \E f : Recursive(f, S, base, step)
<1> DEFINE Upto(m, g) ==
             g \in [0 .. m -> S] /\ \A k \in 0 .. m :
               g[k] = IF k = 0 THEN base ELSE step[g[k - 1]]
<1>1. \A m \in Nat : \E g : Upto(m, g)
  <2> DEFINE Stuck == {m \in Nat : \A g : ~Upto(m, g)}
  <2> SUFFICES ASSUME Stuck # {} PROVE FALSE
    <3> HIDE DEF Upto
    <3> QED OBVIOUS
  <2>1. PICK m \in Stuck : \A k \in Stuck : m <= k
    <3>1. Stuck \in SUBSET Nat
      OBVIOUS
    <3> HIDE DEF Stuck
    <3> QED BY <3>1, LeastNatural
  <2>2. CASE m = 0
    <3>1. Upto(0, [k \in 0 .. 0 |-> base])
      OBVIOUS
    <3> QED BY <2>2, <3>1
  <2>3. CASE m # 0
    <3>1. m \in Nat /\ m - 1 \in Nat /\ m - 1 \notin Stuck
      <4>1. m \in Nat
        BY <2>1
      <4>2. m - 1 \in Nat /\ ~(m <= m - 1)
        BY <2>3, <4>1
      <4> HIDE DEF Stuck
      <4> QED BY <2>1, <4>1, <4>2
    <3>2. PICK g : Upto(m - 1, g)
      BY <3>1
    <3> DEFINE h == [k \in 0 .. m |-> IF k = m THEN step[g[m - 1]] ELSE g[k]]
    <3>3. g[m - 1] \in S /\ step[g[m - 1]] \in S
      BY <3>1, <3>2
    <3>4. h \in [0 .. m -> S] /\ h[m] = step[g[m - 1]] /\ \A k \in 0 .. m - 1 : h[k] = g[k]
      BY <3>1, <3>2, <3>3
    <3> HIDE DEF h
    <3>5. ASSUME NEW k \in 0 .. m
          PROVE  h[k] = IF k = 0 THEN base ELSE step[h[k - 1]]
      <4>1. k # 0 => k - 1 \in 0 .. m - 1
        BY <3>1
      <4>2. k # 0 => h[k - 1] = g[k - 1]
        BY <3>4, <4>1
      <4>3. CASE k = m
        BY <2>3, <3>4, <4>2, <4>3
      <4>4. CASE k # m
        <5>1. k \in 0 .. m - 1
          BY <3>1, <4>4
        <5> QED BY <3>2, <3>4, <4>2, <5>1
      <4> QED BY <4>3, <4>4
    <3> QED BY <2>1, <3>4, <3>5
  <2> QED BY <2>2, <2>3
<1>2. ASSUME NEW m \in Nat, NEW g, Upto(m, g), NEW l \in Nat, NEW h, Upto(l, h), m <= l
      PROVE  \A k \in 0 .. m : g[k] = h[k]
  <2> DEFINE Apart == {k \in 0 .. m : g[k] # h[k]}
  <2> SUFFICES ASSUME Apart # {} PROVE FALSE
    OBVIOUS
  <2>1. PICK k \in Apart : \A j \in Apart : k <= j
    <3>1. Apart \in SUBSET Nat
      OBVIOUS
    <3> HIDE DEF Apart
    <3> QED BY <3>1, LeastNatural
  <2>2. k \in 0 .. m /\ k \in 0 .. l /\ g[k] # h[k]
    BY <1>2
  <2>3. k # 0
    BY <1>2, <2>2
  <2>4. k - 1 \in 0 .. m /\ ~(k <= k - 1)
    BY <2>2, <2>3
  <2>5. g[k - 1] = h[k - 1]
    BY <2>1, <2>2, <2>4
  <2>6. g[k] = step[g[k - 1]] /\ h[k] = step[h[k - 1]]
    BY <1>2, <2>2, <2>3
  <2> QED BY <2>2, <2>5, <2>6
<1> DEFINE G(m) == CHOOSE g : Upto(m, g)
           f == [k \in Nat |-> G(k)[k]]
<1>3. \A m \in Nat : Upto(m, G(m))
  <2> HIDE DEF Upto
  <2> QED BY <1>1
<1> HIDE DEF G
<1>4. f \in [Nat -> S]
  BY <1>3
<1>5. ASSUME NEW k \in Nat PROVE f[k] = IF k = 0 THEN base ELSE step[f[k - 1]]
  <2>1. G(k)[k] = IF k = 0 THEN base ELSE step[G(k)[k - 1]]
    BY <1>3
  <2>2. k # 0 => G(k - 1)[k - 1] = G(k)[k - 1]
    <3> SUFFICES ASSUME k # 0 PROVE G(k - 1)[k - 1] = G(k)[k - 1]
      OBVIOUS
    <3>1. k - 1 \in Nat /\ k - 1 <= k /\ k - 1 \in 0 .. k - 1
      OBVIOUS
    <3>2. Upto(k, G(k)) /\ Upto(k - 1, G(k - 1))
      BY <1>3, <3>1
    <3> HIDE DEF Upto
    <3> QED BY <1>2, <3>1, <3>2
  <2> QED BY <2>1, <2>2
<1> QED BY <1>4, <1>5 DEF Recursive

\* What the loop of _balanced_probe_commits keeps.
States == [selected : Seq(Int), intervals : Seq(Int \X Int)]
Within(x, s, j) == s.intervals[j][1] <= x /\ x <= s.intervals[j][2]

\* The midpoints chosen so far are distinct, the intervals left are disjoint, and together
\* they are the whole range.
ChoiceInv(s, count) ==
  /\ s \in States
  /\ \A i \in 1 .. Len(s.selected) : s.selected[i] \in 1 .. count
  /\ \A i, j \in 1 .. Len(s.selected) : s.selected[i] = s.selected[j] => i = j
  /\ \A j \in 1 .. Len(s.intervals) : 1 <= s.intervals[j][1] /\ s.intervals[j][2] <= count
  /\ \A i \in 1 .. Len(s.selected), j \in 1 .. Len(s.intervals) : ~Within(s.selected[i], s, j)
  /\ \A x \in 1 .. count : \A i, j \in 1 .. Len(s.intervals) :
       Within(x, s, i) /\ Within(x, s, j) => i = j
  /\ \A x \in 1 .. count : \/ \E i \in 1 .. Len(s.selected) : s.selected[i] = x
                           \/ \E j \in 1 .. Len(s.intervals) : Within(x, s, j)

\* The loop is over when no interval is left or the budget is used up.
Over(s, max) == s.intervals = << >> \/ Len(s.selected) >= max

\* What a turn of the loop does to the two sequences, element by element.
LEMMA ServedElements ==
  ASSUME NEW count \in Nat, NEW max \in Nat, NEW s \in States, ~Over(s, max)
  PROVE  LET t == Served(s, max)
             a == Len(s.selected)
             b == Len(s.intervals)
             lo == s.intervals[1][1]
             hi == s.intervals[1][2]
             middle == (lo + hi) \div 2
         IN /\ t \in States
            /\ a \in Nat /\ b \in Nat \ {0} /\ lo \in Int /\ hi \in Int
            /\ \A j \in 1 .. b - 1 : t.intervals[j] = s.intervals[j + 1]
            /\ \A i \in 1 .. a : t.selected[i] = s.selected[i]
            /\ lo > hi => Len(t.intervals) = b - 1 /\ Len(t.selected) = a
            /\ lo <= hi =>
                 /\ Len(t.selected) = a + 1 /\ t.selected[a + 1] = middle
                 /\ Len(t.intervals) = b + 1
                 /\ t.intervals[b] = <<lo, middle - 1>>
                 /\ t.intervals[b + 1] = <<middle + 1, hi>>
<1> DEFINE t == Served(s, max)
           a == Len(s.selected)
           b == Len(s.intervals)
           lo == s.intervals[1][1]
           hi == s.intervals[1][2]
           middle == (lo + hi) \div 2
           rest == Tail(s.intervals)
           halves == << <<lo, middle - 1>>, <<middle + 1, hi>> >>
<1>1. s.selected \in Seq(Int) /\ s.intervals \in Seq(Int \X Int) /\ s.intervals # << >>
  BY DEF States, Over
<1>2. a \in Nat /\ b \in Nat \ {0}
  BY <1>1, EmptySeq
<1>3. s.intervals[1] \in Int \X Int
  BY <1>1, <1>2, ElementOfSeq
<1>4. lo \in Int /\ hi \in Int /\ middle \in Int
  BY <1>3
<1>5. Head(s.intervals) = s.intervals[1]
  BY <1>1
<1>6. /\ rest \in Seq(Int \X Int) /\ Len(rest) = b - 1
      /\ \A j \in 1 .. b - 1 : rest[j] = s.intervals[j + 1]
  BY <1>1, HeadTailProperties
<1>7. CASE lo > hi
  <2>1. t = [s EXCEPT !.intervals = rest]
    BY <1>5, <1>7 DEF Served, Over
  <2>2. t.selected = s.selected /\ t.intervals = rest /\ t \in States
    BY <1>1, <1>6, <2>1 DEF States
  <2> HIDE DEF t, rest
  <2>3. Len(t.intervals) = b - 1 /\ Len(t.selected) = a
    BY <1>6, <2>2
  <2> QED
    BY <1>2, <1>4, <1>6, <1>7, <2>2, <2>3 DEF t
<1>8. CASE lo <= hi
  <2>1. t = [selected |-> Append(s.selected, middle), intervals |-> rest \o halves]
    BY <1>4, <1>5, <1>8 DEF Served, Over
  <2>2. t.selected = Append(s.selected, middle) /\ t.intervals = rest \o halves
    BY <2>1
  <2>3. /\ halves \in Seq(Int \X Int) /\ Len(halves) = 2
        /\ halves[1] = <<lo, middle - 1>> /\ halves[2] = <<middle + 1, hi>>
    BY <1>4
  <2> DEFINE selected == t.selected
             intervals == t.intervals
             before == s.selected
  <2>4. selected = Append(before, middle) /\ intervals = rest \o halves
        /\ before \in Seq(Int)
    BY <1>1, <2>2
  <2> HIDE DEF t, rest, halves, middle, selected, intervals, before
  <2>5. /\ selected \in Seq(Int) /\ Len(selected) = Len(before) + 1
        /\ selected[Len(before) + 1] = middle
        /\ \A i \in 1 .. Len(before) : selected[i] = before[i]
    BY <1>4, <2>4, AppendProperties
  <2>6. /\ intervals \in Seq(Int \X Int) /\ Len(intervals) = Len(rest) + Len(halves)
        /\ \A j \in 1 .. Len(rest) + Len(halves) :
             intervals[j] = IF j <= Len(rest) THEN rest[j] ELSE halves[j - Len(rest)]
    BY <1>6, <2>3, <2>4, ConcatProperties
  <2> DEFINE size == b
  <2>7. size \in Nat \ {0} /\ Len(rest) = size - 1 /\ Len(halves) = 2
    BY <1>2, <1>6, <2>3
  <2> HIDE DEF size
  <2>8. /\ Len(intervals) = size + 1
        /\ intervals[size] = halves[1] /\ intervals[size + 1] = halves[2]
        /\ \A j \in 1 .. size - 1 : intervals[j] = rest[j]
    BY <2>6, <2>7
  <2>9. t = [selected |-> selected, intervals |-> intervals]
    BY <2>1, <2>4 DEF before, halves
  <2>10. t \in States
    BY <2>5, <2>6, <2>9 DEF States
  <2>11. \A j \in 1 .. b - 1 : t.intervals[j] = s.intervals[j + 1]
    BY <1>6, <2>8 DEF intervals, size
  <2>12. /\ \A i \in 1 .. a : t.selected[i] = s.selected[i]
         /\ Len(t.selected) = a + 1 /\ t.selected[a + 1] = middle
    BY <2>5 DEF selected, before
  <2>13. /\ Len(t.intervals) = b + 1
         /\ t.intervals[b] = <<lo, middle - 1>> /\ t.intervals[b + 1] = <<middle + 1, hi>>
    BY <2>3, <2>8 DEF intervals, size
  <2>14. ~(lo > hi)
    BY <1>4, <1>8
  <2> QED
    BY <1>2, <1>4, <1>8, <2>10, <2>11, <2>12, <2>13, <2>14, Zenon DEF t, middle
<1>9. lo > hi \/ lo <= hi
  BY <1>4
<1> QED
  BY <1>7, <1>8, <1>9, Zenon

\* A turn keeps the choice in order, and uses up one interval: it drops it, or cuts it in two
\* around the commit chosen.
LEMMA ServedKeepsChoice ==
  ASSUME NEW count \in Nat, NEW max \in Nat, NEW s, ChoiceInv(s, count), ~Over(s, max)
  PROVE  LET t == Served(s, max)
         IN /\ ChoiceInv(t, count)
            /\ Len(t.intervals) - 2 * Len(t.selected) = Len(s.intervals) - 2 * Len(s.selected) - 1
            /\ Len(t.selected) <= max
<1> DEFINE t == Served(s, max)
           a == Len(s.selected)
           b == Len(s.intervals)
           lo == s.intervals[1][1]
           hi == s.intervals[1][2]
           middle == (lo + hi) \div 2
           Goal == /\ ChoiceInv(t, count)
                   /\ Len(t.intervals) - 2 * Len(t.selected) = b - 2 * a - 1
                   /\ Len(t.selected) <= max
<1> SUFFICES Goal
  BY Zenon
<1>1. /\ t \in States /\ s \in States
      /\ a \in Nat /\ b \in Nat \ {0} /\ lo \in Int /\ hi \in Int
      /\ \A j \in 1 .. b - 1 : t.intervals[j] = s.intervals[j + 1]
      /\ \A i \in 1 .. a : t.selected[i] = s.selected[i]
      /\ lo > hi => Len(t.intervals) = b - 1 /\ Len(t.selected) = a
      /\ lo <= hi =>
           /\ Len(t.selected) = a + 1 /\ t.selected[a + 1] = middle
           /\ Len(t.intervals) = b + 1
           /\ t.intervals[b] = <<lo, middle - 1>>
           /\ t.intervals[b + 1] = <<middle + 1, hi>>
  <2>1. s \in States
    BY DEF ChoiceInv
  <2> QED
    BY <2>1, ServedElements, Zenon
<1>2. a < max
  BY <1>1 DEF Over
<1>3. /\ \A i \in 1 .. a : s.selected[i] \in 1 .. count
      /\ \A i, j \in 1 .. a : s.selected[i] = s.selected[j] => i = j
      /\ \A j \in 1 .. b : 1 <= s.intervals[j][1] /\ s.intervals[j][2] <= count
      /\ \A i \in 1 .. a, j \in 1 .. b : ~Within(s.selected[i], s, j)
  BY DEF ChoiceInv
<1>4. /\ \A x \in 1 .. count : \A i, j \in 1 .. b : Within(x, s, i) /\ Within(x, s, j) => i = j
      /\ \A x \in 1 .. count : \/ \E i \in 1 .. a : s.selected[i] = x
                               \/ \E j \in 1 .. b : Within(x, s, j)
  BY Zenon DEF ChoiceInv
<1>6. \A x : Within(x, s, 1) <=> lo <= x /\ x <= hi
  BY DEF Within
<1>7. \A x : \A j \in 1 .. b - 1 : Within(x, t, j) <=> Within(x, s, j + 1)
  BY <1>1 DEF Within
<1> HIDE DEF t, a, b, lo, hi, middle
<1>5. a \in Nat /\ b \in Nat \ {0} /\ lo \in Int /\ hi \in Int /\ 1 \in 1 .. b /\ t \in States
  BY <1>1
<1>0. lo <= hi => lo <= middle /\ middle <= hi /\ middle \in 1 .. count
  <2>1. 1 <= lo /\ hi <= count
    BY <1>3, <1>5 DEF lo, hi
  <2> QED
    BY <1>5, <2>1 DEF middle
<1>8. CASE lo > hi
  <2>1. Len(t.intervals) = b - 1 /\ Len(t.selected) = a
    BY <1>1, <1>8
  <2>2. \A x \in 1 .. count : ~Within(x, s, 1)
    BY <1>5, <1>6, <1>8
  <2>3. \A j \in 1 .. b - 1 : 1 <= t.intervals[j][1] /\ t.intervals[j][2] <= count
    <3>1. \A j \in 1 .. b - 1 : j + 1 \in 1 .. b /\ t.intervals[j] = s.intervals[j + 1]
      BY <1>1, <1>5
    <3> QED
      BY <1>3, <3>1
  <2>4. \A i \in 1 .. a, j \in 1 .. b - 1 : ~Within(t.selected[i], t, j)
    <3>1. \A j \in 1 .. b - 1 : j + 1 \in 1 .. b
      BY <1>5
    <3> QED
      BY <1>1, <1>3, <1>7, <3>1
  <2>5. ASSUME NEW x \in 1 .. count, NEW i \in 1 .. b - 1, NEW j \in 1 .. b - 1,
               Within(x, t, i), Within(x, t, j)
        PROVE  i = j
    <3>1. i + 1 \in 1 .. b /\ j + 1 \in 1 .. b /\ Within(x, s, i + 1) /\ Within(x, s, j + 1)
      BY <1>1, <1>7, <2>5
    <3>2. i + 1 = j + 1
      BY <1>4, <3>1
    <3> QED
      BY <3>2
  <2>6. ASSUME NEW x \in 1 .. count
        PROVE  (\E i \in 1 .. a : t.selected[i] = x) \/ \E j \in 1 .. b - 1 : Within(x, t, j)
    <3>1. CASE \E i \in 1 .. a : s.selected[i] = x
      BY <1>1, <3>1
    <3>2. ASSUME NEW j \in 1 .. b, Within(x, s, j)
          PROVE  \E k \in 1 .. b - 1 : Within(x, t, k)
      <4>1. j # 1
        BY <2>2, <3>2
      <4>2. j - 1 \in 1 .. b - 1 /\ (j - 1) + 1 = j
        BY <1>1, <4>1
      <4> QED
        BY <1>7, <3>2, <4>2
    <3> QED
      BY <1>4, <3>1, <3>2
  <2>7. \A i \in 1 .. a : t.selected[i] \in 1 .. count
    BY <1>1, <1>3
  <2>8. \A i, j \in 1 .. a : t.selected[i] = t.selected[j] => i = j
    BY <1>1, <1>3
  <2>9. ChoiceInv(t, count)
    BY <1>5, <2>1, <2>3, <2>4, <2>5, <2>6, <2>7, <2>8 DEF ChoiceInv
  <2>10. b - 1 - 2 * a = b - 2 * a - 1 /\ a <= max
    BY <1>1, <1>2
  <2> QED
    BY <2>1, <2>9, <2>10
<1>9. CASE lo <= hi
  <2>1. /\ Len(t.selected) = a + 1 /\ t.selected[a + 1] = middle
        /\ Len(t.intervals) = b + 1
        /\ t.intervals[b] = <<lo, middle - 1>>
        /\ t.intervals[b + 1] = <<middle + 1, hi>>
        /\ lo <= middle /\ middle <= hi /\ middle \in 1 .. count
    BY <1>0, <1>1, <1>9
  <2>2. \A x : /\ Within(x, t, b) <=> lo <= x /\ x <= middle - 1
               /\ Within(x, t, b + 1) <=> middle + 1 <= x /\ x <= hi
    BY <2>1 DEF Within
  <2> DEFINE Old(j) == IF j < b THEN j + 1 ELSE 1
  <2>3. ASSUME NEW x \in 1 .. count, NEW j \in 1 .. b + 1, Within(x, t, j)
        PROVE  Old(j) \in 1 .. b /\ Within(x, s, Old(j)) /\ x # middle
    <3>1. CASE j < b
      <4>1. j \in 1 .. b - 1 /\ Old(j) = j + 1 /\ Old(j) \in 1 .. b /\ Old(j) # 1 /\ 1 \in 1 .. b
        BY <1>1, <3>1
      <4>2. Within(x, s, Old(j))
        BY <1>7, <2>3, <4>1
      <4>3. Within(middle, s, 1)
        BY <1>6, <2>1
      <4> HIDE DEF Old
      <4> QED
        BY <1>4, <4>1, <4>2, <4>3
    <3>2. CASE ~(j < b)
      <4>1. Old(j) = 1 /\ 1 \in 1 .. b /\ (j = b \/ j = b + 1)
        BY <1>1, <3>2
      <4>2. middle \in Nat /\ x \in Nat
        BY <2>1
      <4>3. lo <= x /\ x <= hi /\ x # middle
        BY <1>1, <2>1, <2>2, <2>3, <4>1, <4>2
      <4> QED
        BY <1>6, <4>1, <4>3
    <3> QED
      BY <3>1, <3>2
  <2>4. ASSUME NEW x \in 1 .. count, NEW i \in 1 .. b + 1, NEW j \in 1 .. b + 1,
               Within(x, t, i), Within(x, t, j)
        PROVE  i = j
    <3>1. Old(i) = Old(j)
      <4> HIDE DEF Old
      <4> QED
        BY <1>4, <2>3, <2>4
    <3>2. i = j \/ {i, j} = {b, b + 1}
      BY <1>1, <3>1
    <3>3. CASE {i, j} = {b, b + 1}
      <4>1. Within(x, t, b) /\ Within(x, t, b + 1)
        BY <2>4, <3>3
      <4>2. x \in Int /\ middle \in Int
        BY <2>1
      <4> QED
        BY <2>2, <4>1, <4>2
    <3> QED
      BY <3>2, <3>3
  <2>5. ASSUME NEW x \in 1 .. count
        PROVE  \/ \E i \in 1 .. a + 1 : t.selected[i] = x
               \/ \E j \in 1 .. b + 1 : Within(x, t, j)
    <3>1. CASE \E i \in 1 .. a : s.selected[i] = x
      BY <1>1, <3>1
    <3>2. ASSUME NEW j \in 1 .. b, Within(x, s, j)
          PROVE  \/ \E i \in 1 .. a + 1 : t.selected[i] = x
                 \/ \E k \in 1 .. b + 1 : Within(x, t, k)
      <4>1. CASE j # 1
        <5>1. j - 1 \in 1 .. b - 1 /\ (j - 1) + 1 = j /\ j - 1 \in 1 .. b + 1
          BY <1>1, <4>1
        <5> QED
          BY <1>7, <3>2, <5>1
      <4>2. CASE j = 1
        <5>1. lo <= x /\ x <= hi /\ x \in Int /\ middle \in Int
          BY <1>6, <2>1, <3>2, <4>2
        <5>2. x = middle \/ x <= middle - 1 \/ middle + 1 <= x
          BY <5>1
        <5>3. a + 1 \in 1 .. a + 1 /\ b \in 1 .. b + 1 /\ b + 1 \in 1 .. b + 1
          BY <1>5
        <5> QED
          BY <2>1, <2>2, <5>1, <5>2, <5>3
      <4> QED
        BY <4>1, <4>2
    <3> QED
      BY <1>4, <3>1, <3>2
  <2>6. \A i \in 1 .. a : s.selected[i] # middle
    <3>1. Within(middle, s, 1)
      BY <1>6, <2>1
    <3>2. 1 \in 1 .. b
      BY <1>5
    <3> QED
      BY <1>3, <3>1, <3>2
  <2>7. \A i \in 1 .. a + 1 : t.selected[i] = IF i = a + 1 THEN middle ELSE s.selected[i]
    BY <1>1, <2>1
  <2>8. \A i \in 1 .. a + 1 : t.selected[i] \in 1 .. count
    <3>1. \A i \in 1 .. a + 1 : i = a + 1 \/ i \in 1 .. a
      BY <1>5
    <3> QED
      BY <1>3, <2>1, <2>7, <3>1
  <2>9. \A i, j \in 1 .. a + 1 : t.selected[i] = t.selected[j] => i = j
    <3>1. \A i \in 1 .. a + 1 : i = a + 1 \/ (i \in 1 .. a /\ i # a + 1)
      BY <1>5
    <3> QED
      BY <1>3, <2>6, <2>7, <3>1
  <2>10. ASSUME NEW j \in 1 .. b + 1
         PROVE  1 <= t.intervals[j][1] /\ t.intervals[j][2] <= count
    <3>1. CASE j < b
      BY <1>1, <1>3, <3>1
    <3>2. CASE ~(j < b)
      <4>1. j = b \/ j = b + 1
        BY <1>1, <3>2
      <4>2. 1 <= lo /\ hi <= count
        BY <1>1, <1>3 DEF lo, hi
      <4>3. middle \in 1 .. count
        BY <2>1
      <4> QED
        BY <1>1, <2>1, <4>1, <4>2, <4>3
    <3> QED
      BY <3>1, <3>2
  <2>11. ASSUME NEW i \in 1 .. a + 1, NEW j \in 1 .. b + 1, Within(t.selected[i], t, j)
         PROVE  FALSE
    <3>1. t.selected[i] \in 1 .. count
      BY <2>8
    <3>2. Old(j) \in 1 .. b /\ Within(t.selected[i], s, Old(j)) /\ t.selected[i] # middle
      BY <2>3, <2>11, <3>1
    <3>3. i \in 1 .. a /\ t.selected[i] = s.selected[i]
      BY <1>1, <2>7, <3>2
    <3> HIDE DEF Old
    <3> QED
      BY <1>3, <3>2, <3>3
  <2>12. ChoiceInv(t, count)
    BY <1>5, <2>1, <2>4, <2>5, <2>8, <2>9, <2>10, <2>11 DEF ChoiceInv
  <2>13. Len(t.selected) = a + 1 /\ Len(t.intervals) = b + 1
    BY <2>1
  <2> QED
    BY <1>5, <1>2, <2>12, <2>13
<1>10. lo > hi \/ lo <= hi
  BY <1>5
<1> QED
  BY <1>8, <1>9, <1>10

\* How many commits an interval has.
Size(s, j) == s.intervals[j][2] - s.intervals[j][1] + 1

\* The intervals left lie between commits chosen or the ends.
Marks(s, count) == {s.selected[i] : i \in 1 .. Len(s.selected)} \cup {0, count + 1}
EdgesInv(s, count) ==
  \A j \in 1 .. Len(s.intervals) :
    s.intervals[j][1] - 1 \in Marks(s, count) /\ s.intervals[j][2] + 1 \in Marks(s, count)

\* The queue holds what is left of one round of halving, the first q intervals, and behind them
\* what the next round will serve.  From the fourth round on only the size matters.
HalvedInv(s, count) ==
  \/ \A j \in 1 .. Len(s.intervals) : 16 * Size(s, j) <= count
  \/ \E p \in {1, 2, 4, 8}, q \in 1 .. Len(s.intervals) :
       /\ \A j \in 1 .. q : p * Size(s, j) <= count
       /\ \A j \in q + 1 .. Len(s.intervals) : 2 * p * Size(s, j) <= count
       /\ Len(s.selected) <= 2 * p - 1 - q
       /\ Len(s.intervals) - q <= 2 * (p - q)

\* The commits chosen so far were well spread at every moment.
SpreadInv(s, count) == \A k \in 1 .. Len(s.selected) : WellSpread(s.selected, k, count)

\* Once parts - 1 commits are chosen, no interval is longer than count / parts.
LEMMA IntervalsAreShort ==
  ASSUME NEW count \in Nat, NEW s \in States, HalvedInv(s, count),
         NEW parts \in {1, 2, 4, 8, 16}, Len(s.selected) >= parts - 1,
         NEW j \in 1 .. Len(s.intervals)
  PROVE  Size(s, j) <= count \div parts
<1> DEFINE z == Size(s, j)
           a == Len(s.selected)
           b == Len(s.intervals)
<1>1. z \in Int /\ a \in Nat /\ b \in Nat
  <2>1. s.intervals[j] \in Int \X Int
    BY ElementOfSeq DEF States
  <2> QED
    BY <2>1 DEF Size, States
<1>2. parts * z <= count
  <2>1. CASE \A i \in 1 .. b : 16 * Size(s, i) <= count
    <3>1. 16 * z <= count
      BY <2>1
    <3> HIDE DEF z
    <3> QED
      BY <1>1, <3>1
  <2>2. ASSUME NEW p \in {1, 2, 4, 8}, NEW q \in 1 .. b,
               \A i \in 1 .. q : p * Size(s, i) <= count,
               \A i \in q + 1 .. b : 2 * p * Size(s, i) <= count,
               a <= 2 * p - 1 - q
        PROVE  parts * z <= count
    <3>1. p * z <= count \/ 2 * p * z <= count
      <4>1. j \in 1 .. q \/ j \in q + 1 .. b
        BY <1>1
      <4> QED
        BY <2>2, <4>1
    <3>2. parts - 1 <= 2 * p - 2 /\ q >= 1
      BY <1>1, <2>2
    <3> HIDE DEF z
    <3>3. parts \in {1, 2, 4, 8, 16} /\ p \in {1, 2, 4, 8} /\ parts <= p
      BY <3>2
    <3> QED
      BY <1>1, <3>1, <3>3
  <2> QED
    BY <2>1, <2>2 DEF HalvedInv
<1> HIDE DEF z
<1>3. z <= count \div parts
  BY <1>1, <1>2
<1> QED
  BY <1>3 DEF z

\* Then neither is a run of commits without a chosen one.
LEMMA ShortIsSpread ==
  ASSUME NEW count \in Nat, NEW s, ChoiceInv(s, count), EdgesInv(s, count), HalvedInv(s, count)
  PROVE  WellSpread(s.selected, Len(s.selected), count)
<1> DEFINE marks == Marks(s, count)
<1> SUFFICES ASSUME NEW parts \in {1, 2, 4, 8, 16}, Len(s.selected) >= parts - 1,
                    NEW a \in marks \ {count + 1}
             PROVE  \E b \in marks : a < b /\ b <= a + 1 + count \div parts
  BY DEF WellSpread, Marks
<1>1. s \in States /\ count + 1 \in marks
  BY DEF ChoiceInv, Marks
<1>2. a \in Nat /\ a + 1 \in 1 .. count + 1
  BY DEF ChoiceInv, Marks
<1>3. count \div parts \in Nat
  OBVIOUS
<1>4. CASE a + 1 \in marks
  BY <1>2, <1>3, <1>4
<1>5. CASE a + 1 \notin marks
  <2>1. a + 1 \in 1 .. count
    BY <1>1, <1>2, <1>5
  <2>2. PICK j \in 1 .. Len(s.intervals) : Within(a + 1, s, j)
    BY <1>5, <2>1 DEF ChoiceInv, Marks
  <2>3. ~Within(a, s, j)
    <3>1. 1 <= s.intervals[j][1]
      BY DEF ChoiceInv
    <3>2. a = 0 => ~Within(a, s, j)
      BY <3>1, <1>1, ElementOfSeq DEF Within, States
    <3> QED
      BY <3>2 DEF ChoiceInv, Marks
  <2> DEFINE lo == s.intervals[j][1]
             hi == s.intervals[j][2]
  <2>4. lo \in Int /\ hi \in Int
    BY <1>1, ElementOfSeq DEF States
  <2>5. lo <= a + 1 /\ a + 1 <= hi /\ ~(lo <= a /\ a <= hi)
    BY <2>2, <2>3 DEF Within
  <2>6. hi + 1 \in marks
    BY DEF EdgesInv
  <2>7. hi - lo + 1 <= count \div parts
    BY <1>1, IntervalsAreShort DEF Size
  <2> HIDE DEF lo, hi, marks
  <2>8. a < hi + 1 /\ hi + 1 <= a + 1 + count \div parts
    BY <1>2, <1>3, <2>4, <2>5, <2>7
  <2> QED
    BY <2>6, <2>8
<1> QED
  BY <1>4, <1>5

\* A turn leaves the intervals between commits chosen or the ends.
LEMMA ServedKeepsEdges ==
  ASSUME NEW count \in Nat, NEW max \in Nat, NEW s, ChoiceInv(s, count), EdgesInv(s, count),
         ~Over(s, max)
  PROVE  EdgesInv(Served(s, max), count)
<1> DEFINE t == Served(s, max)
           a == Len(s.selected)
           b == Len(s.intervals)
           lo == s.intervals[1][1]
           hi == s.intervals[1][2]
           middle == (lo + hi) \div 2
<1> SUFFICES EdgesInv(t, count)
  BY Zenon
<1>1. /\ a \in Nat /\ b \in Nat \ {0} /\ lo \in Int /\ hi \in Int
      /\ \A j \in 1 .. b - 1 : t.intervals[j] = s.intervals[j + 1]
      /\ \A i \in 1 .. a : t.selected[i] = s.selected[i]
      /\ lo > hi => Len(t.intervals) = b - 1 /\ Len(t.selected) = a
      /\ lo <= hi =>
           /\ Len(t.selected) = a + 1 /\ t.selected[a + 1] = middle
           /\ Len(t.intervals) = b + 1
           /\ t.intervals[b] = <<lo, middle - 1>>
           /\ t.intervals[b + 1] = <<middle + 1, hi>>
  <2>1. s \in States
    BY DEF ChoiceInv
  <2> QED
    BY <2>1, ServedElements, Zenon
<1> HIDE DEF t
<1>2. \A j \in 1 .. b : s.intervals[j][1] - 1 \in Marks(s, count) /\ s.intervals[j][2] + 1 \in Marks(s, count)
  BY DEF EdgesInv
<1>3. \A i \in 1 .. a : i \in 1 .. Len(t.selected)
  BY <1>1
<1>4. Marks(s, count) \subseteq Marks(t, count)
  BY <1>1, <1>3 DEF Marks
<1>5. 1 \in 1 .. b /\ middle \in Int
  BY <1>1
<1>6. lo - 1 \in Marks(t, count) /\ hi + 1 \in Marks(t, count)
  BY <1>2, <1>4, <1>5
<1>7. \A j \in 1 .. b - 1 : /\ t.intervals[j][1] - 1 \in Marks(t, count)
                           /\ t.intervals[j][2] + 1 \in Marks(t, count)
  <2>1. \A j \in 1 .. b - 1 : j + 1 \in 1 .. b /\ t.intervals[j] = s.intervals[j + 1]
    BY <1>1
  <2> QED
    BY <1>2, <1>4, <2>1
<1> HIDE DEF a, b, lo, hi, middle
<1>8. CASE lo > hi
  BY <1>1, <1>7, <1>8 DEF EdgesInv
<1>9. CASE lo <= hi
  <2>1. /\ Len(t.selected) = a + 1 /\ t.selected[a + 1] = middle
        /\ Len(t.intervals) = b + 1
        /\ t.intervals[b] = <<lo, middle - 1>>
        /\ t.intervals[b + 1] = <<middle + 1, hi>>
    BY <1>1, <1>9
  <2>2. middle \in Marks(t, count)
    <3>1. a + 1 \in 1 .. Len(t.selected)
      BY <1>1, <2>1
    <3> QED
      BY <2>1, <3>1 DEF Marks
  <2>3. middle - 1 + 1 = middle /\ middle + 1 - 1 = middle
    BY <1>5
  <2>4. \A j \in 1 .. b + 1 : j \in 1 .. b - 1 \/ j = b \/ j = b + 1
    BY <1>1
  <2>5. /\ t.intervals[b][1] - 1 = lo - 1 /\ t.intervals[b][2] + 1 = middle
        /\ t.intervals[b + 1][1] - 1 = middle /\ t.intervals[b + 1][2] + 1 = hi + 1
    BY <1>5, <2>1
  <2>6. \A j \in 1 .. b + 1 : /\ t.intervals[j][1] - 1 \in Marks(t, count)
                              /\ t.intervals[j][2] + 1 \in Marks(t, count)
    <3> HIDE DEF EdgesInv
    <3> QED
      BY <1>6, <1>7, <2>2, <2>4, <2>5
  <2> QED
    BY <2>1, <2>6 DEF EdgesInv
<1>10. lo > hi \/ lo <= hi
  BY <1>1
<1> QED
  BY <1>8, <1>9, <1>10

\* A turn keeps the rounds of halving.
LEMMA ServedKeepsHalves ==
  ASSUME NEW count \in Nat, NEW max \in Nat, NEW s \in States, HalvedInv(s, count), ~Over(s, max)
  PROVE  HalvedInv(Served(s, max), count)
<1> DEFINE t == Served(s, max)
           a == Len(s.selected)
           b == Len(s.intervals)
           lo == s.intervals[1][1]
           hi == s.intervals[1][2]
           middle == (lo + hi) \div 2
           first == Size(s, 1)
<1> SUFFICES HalvedInv(t, count)
  BY Zenon
<1>1. /\ a \in Nat /\ b \in Nat \ {0} /\ lo \in Int /\ hi \in Int
      /\ \A j \in 1 .. b - 1 : t.intervals[j] = s.intervals[j + 1]
      /\ lo > hi => Len(t.intervals) = b - 1 /\ Len(t.selected) = a
      /\ lo <= hi =>
           /\ Len(t.selected) = a + 1
           /\ Len(t.intervals) = b + 1
           /\ t.intervals[b] = <<lo, middle - 1>>
           /\ t.intervals[b + 1] = <<middle + 1, hi>>
  BY ServedElements, Zenon
<1>2. /\ \A j \in 1 .. b : Size(s, j) \in Int
      /\ \A j \in 1 .. b - 1 : Size(t, j) = Size(s, j + 1)
  <2>1. \A j \in 1 .. b : s.intervals[j] \in Int \X Int
    BY ElementOfSeq DEF States
  <2>2. \A j \in 1 .. b : Size(s, j) \in Int
    BY <2>1 DEF Size
  <2> HIDE DEF t, b
  <2>3. \A j \in 1 .. b - 1 : Size(t, j) = Size(s, j + 1)
    BY <1>1 DEF Size
  <2> QED
    BY <2>2, <2>3
<1>3. lo <= hi => /\ Size(t, b) \in Int /\ Size(t, b + 1) \in Int
                 /\ 2 * Size(t, b) <= first /\ 2 * Size(t, b + 1) <= first
                 /\ first \in Nat /\ Size(t, b) <= first /\ Size(t, b + 1) <= first
  <2> SUFFICES ASSUME lo <= hi
               PROVE  /\ Size(t, b) \in Int /\ Size(t, b + 1) \in Int
                      /\ 2 * Size(t, b) <= first /\ 2 * Size(t, b + 1) <= first
                      /\ first \in Nat /\ Size(t, b) <= first /\ Size(t, b + 1) <= first
    OBVIOUS
  <2>1. /\ Size(t, b) = middle - 1 - lo + 1 /\ Size(t, b + 1) = hi - (middle + 1) + 1
        /\ first = hi - lo + 1
    BY <1>1 DEF Size
  <2> HIDE DEF lo, hi, first, t, b
  <2> QED
    BY <1>1, <2>1
<1>4. 1 \in 1 .. b
  BY <1>1
<1> DEFINE e == Len(t.intervals)
           c == Len(t.selected)
<1>5. \/ lo > hi /\ e = b - 1 /\ c = a
      \/ lo <= hi /\ e = b + 1 /\ c = a + 1
  BY <1>1
<1> HIDE DEF t, a, b, lo, hi, middle, first, e, c
<1>6. ASSUME NEW j \in 1 .. e
      PROVE  \/ j \in 1 .. b - 1 /\ j + 1 \in 1 .. b /\ Size(t, j) = Size(s, j + 1)
             \/ /\ j >= b /\ first \in Nat /\ Size(t, j) \in Int
                /\ 2 * Size(t, j) <= first /\ Size(t, j) <= first
  <2>1. j \in 1 .. b - 1 \/ (j = b /\ lo <= hi) \/ (j = b + 1 /\ lo <= hi)
    BY <1>1, <1>5
  <2>2. j \in 1 .. b - 1 => j + 1 \in 1 .. b
    BY <1>1
  <2>3. j = b \/ j = b + 1 => j >= b
    BY <1>1
  <2> QED
    BY <1>2, <1>3, <2>1, <2>2, <2>3
<1>7. CASE \A j \in 1 .. b : 16 * Size(s, j) <= count
  <2>1. 16 * first <= count
    BY <1>4, <1>7 DEF first
  <2>2. \A j \in 1 .. e : 16 * Size(t, j) <= count
    <3> TAKE j \in 1 .. e
    <3>1. CASE j + 1 \in 1 .. b /\ Size(t, j) = Size(s, j + 1)
      BY <1>7, <3>1
    <3>2. CASE first \in Nat /\ Size(t, j) \in Int /\ Size(t, j) <= first
      BY <2>1, <3>2
    <3> QED
      BY <1>6, <3>1, <3>2
  <2> QED
    BY <2>2 DEF HalvedInv, e
<1>8. ASSUME NEW p \in {1, 2, 4, 8}, NEW q \in 1 .. b,
             \A j \in 1 .. q : p * Size(s, j) <= count,
             \A j \in q + 1 .. b : 2 * p * Size(s, j) <= count,
             a <= 2 * p - 1 - q, b - q <= 2 * (p - q)
      PROVE  HalvedInv(t, count)
  <2>1. p * first <= count
    <3>1. 1 \in 1 .. q
      BY <1>1
    <3> QED
      BY <1>8, <3>1 DEF first
  <2>2. \A j \in 1 .. e : j >= q => 2 * p * Size(t, j) <= count
    <3> TAKE j \in 1 .. e
    <3> SUFFICES ASSUME j >= q PROVE 2 * p * Size(t, j) <= count
      OBVIOUS
    <3>1. CASE j + 1 \in 1 .. b /\ Size(t, j) = Size(s, j + 1)
      <4>1. j + 1 \in q + 1 .. b
        BY <3>1
      <4> QED
        BY <1>8, <3>1, <4>1
    <3>2. CASE first \in Nat /\ Size(t, j) \in Int /\ 2 * Size(t, j) <= first
      <4> DEFINE y == Size(t, j)
      <4>1. y \in Int /\ 2 * y <= first /\ first \in Nat
        BY <3>2
      <4> HIDE DEF y
      <4>2. 2 * p * y <= count
        BY <2>1, <4>1
      <4> QED
        BY <4>2 DEF y
    <3> QED
      BY <1>6, <3>1, <3>2
  <2>3. \A j \in 1 .. e : j < q => p * Size(t, j) <= count
    <3> TAKE j \in 1 .. e
    <3> SUFFICES ASSUME j < q PROVE p * Size(t, j) <= count
      OBVIOUS
    <3>1. j \in 1 .. b - 1 /\ j + 1 \in 1 .. q
      BY <1>1
    <3> QED
      BY <1>2, <1>8, <3>1
  <2>4. e \in Nat /\ c \in Nat /\ c <= a + 1 /\ (e = b - 1 \/ e = b + 1)
    BY <1>1, <1>5
  <2>5. CASE q > 1
    <3>1. q - 1 \in 1 .. e
      BY <1>1, <2>4, <2>5
    <3>2. \A j \in 1 .. q - 1 : j \in 1 .. e /\ j < q
      BY <3>1, <2>4
    <3>3. \A j \in q - 1 + 1 .. e : j \in 1 .. e /\ j >= q
      BY <3>1, <2>4
    <3>4. \A j \in 1 .. q - 1 : p * Size(t, j) <= count
      BY <2>3, <3>2
    <3>5. \A j \in q - 1 + 1 .. e : 2 * p * Size(t, j) <= count
      BY <2>2, <3>3
    <3>6. c <= 2 * p - 1 - (q - 1) /\ e - (q - 1) <= 2 * (p - (q - 1))
      BY <1>1, <1>8, <2>4
    <3> QED
      BY <3>1, <3>4, <3>5, <3>6 DEF HalvedInv, e, c
  <2>6. CASE q = 1
    <3>1. \A j \in 1 .. e : 2 * p * Size(t, j) <= count
      BY <2>2, <2>4, <2>6
    <3>2. CASE p = 8
      <4>1. 2 * p = 16
        BY <3>2
      <4> QED
        BY <3>1, <4>1 DEF HalvedInv, e
    <3>3. CASE e = 0
      BY <3>3 DEF HalvedInv, e
    <3>4. CASE p # 8 /\ e # 0
      <4>1. 2 * p \in {1, 2, 4, 8} /\ e \in 1 .. e
        BY <2>4, <3>4
      <4>2. c <= 2 * (2 * p) - 1 - e /\ e - e <= 2 * (2 * p - e)
        BY <1>1, <1>8, <2>4, <2>6
      <4>3. e + 1 .. e = {}
        BY <2>4
      <4> QED
        BY <3>1, <4>1, <4>2, <4>3 DEF HalvedInv, e, c
    <3> QED
      BY <3>2, <3>3, <3>4
  <2> QED
    BY <1>1, <2>5, <2>6
<1> QED
  BY <1>7, <1>8 DEF HalvedInv, a, b

\* And so the commits chosen are well spread at every moment.
LEMMA ServedKeepsSpread ==
  ASSUME NEW count \in Nat, NEW max \in Nat, NEW s, ChoiceInv(s, count), EdgesInv(s, count),
         HalvedInv(s, count), SpreadInv(s, count), ~Over(s, max)
  PROVE  SpreadInv(Served(s, max), count)
<1> DEFINE t == Served(s, max)
           a == Len(s.selected)
<1>1. s \in States
  BY DEF ChoiceInv
<1>2. /\ a \in Nat /\ \A i \in 1 .. a : t.selected[i] = s.selected[i]
      /\ Len(t.selected) = a \/ Len(t.selected) = a + 1
  <2> DEFINE lo == s.intervals[1][1]
             hi == s.intervals[1][2]
  <2>1. /\ a \in Nat /\ lo \in Int /\ hi \in Int
        /\ \A i \in 1 .. a : t.selected[i] = s.selected[i]
        /\ lo > hi => Len(t.selected) = a
        /\ lo <= hi => Len(t.selected) = a + 1
    BY <1>1, ServedElements, Zenon
  <2> HIDE DEF t, a, lo, hi
  <2> QED
    BY <2>1
<1>3. ChoiceInv(t, count)
  BY ServedKeepsChoice, Zenon
<1>4. EdgesInv(t, count) /\ HalvedInv(t, count)
  BY <1>1, ServedKeepsEdges, ServedKeepsHalves, Zenon
<1> HIDE DEF t, a
<1>5. WellSpread(t.selected, Len(t.selected), count)
  BY <1>3, <1>4, ShortIsSpread
<1>6. ASSUME NEW k \in 1 .. a
      PROVE  WellSpread(t.selected, k, count)
  <2>1. {t.selected[i] : i \in 1 .. k} = {s.selected[i] : i \in 1 .. k}
    <3>1. \A i \in 1 .. k : i \in 1 .. a
      BY <1>2
    <3> QED
      BY <1>2, <3>1
  <2>2. WellSpread(s.selected, k, count)
    BY DEF SpreadInv, a
  <2> QED
    BY <2>1, <2>2 DEF WellSpread
<1>7. \A k \in 1 .. Len(t.selected) : k \in 1 .. a \/ k = Len(t.selected)
  BY <1>2
<1>8. SpreadInv(t, count)
  BY <1>5, <1>6, <1>7 DEF SpreadInv
<1> QED
  BY <1>8 DEF t

Distinct(order, a) == \A i, j \in 1 .. a : order[i] = order[j] => i = j

\* Distinct commits of the range are at most as many as the range has, and as many only when
\* they are all of it.
LEMMA DistinctCommits ==
  ASSUME NEW count \in Nat, NEW a \in Nat, NEW order \in [1 .. a -> 1 .. count],
         Distinct(order, a)
  PROVE  a <= count /\ (a = count <=> \A x \in 1 .. count : \E i \in 1 .. a : order[i] = x)
<1>1. order \in Injection(1 .. a, 1 .. count)
  BY DEF Injection, IsInjective, Distinct
<1>2. /\ IsFiniteSet(1 .. count) /\ Cardinality(1 .. count) = count
      /\ Cardinality(1 .. a) = a
  <2>1. Cardinality(1 .. count) = IF 1 > count THEN 0 ELSE count - 1 + 1
    BY FS_Interval
  <2>2. Cardinality(1 .. a) = IF 1 > a THEN 0 ELSE a - 1 + 1
    BY FS_Interval
  <2> QED
    BY <2>1, <2>2, FS_Interval
<1>3. a <= count /\ (a = count <=> order \in Surjection(1 .. a, 1 .. count))
  BY <1>1, <1>2, FS_Injection
<1> QED
  BY <1>3 DEF Surjection

\* What _balanced_probe_commits returns, of any range and any budget: distinct commits of the
\* range, as many as the budget allows and the range has, well spread at every moment.
LEMMA BalancedChoice ==
  ASSUME NEW count \in Nat, NEW max \in Nat
  PROVE  LET order == BalancedProbeCommits(count, max)
         IN /\ order \in Seq(1 .. count)
            /\ \A i, j \in 1 .. Len(order) : order[i] = order[j] => i = j
            /\ Len(order) = IF max < count THEN max ELSE count
            /\ \A k \in 1 .. Len(order) : WellSpread(order, k, count)
<1> DEFINE start == [selected |-> << >>, intervals |-> << <<1, count>> >>]
           F(h) == [k \in Nat |-> IF k = 0 THEN start ELSE Served(h[k - 1], max)]
           turn == CHOOSE h : h = F(h)
<1>1. BalancedProbeCommits(count, max) = turn[2 * count + 1].selected
  BY DEF BalancedProbeCommits
<1> HIDE DEF turn
<1>2. \A s \in States : Served(s, max) \in States
  <2>1. \A s \in States : Over(s, max) => Served(s, max) = s
    BY DEF Over, Served
  <2> QED
    BY <2>1, ServedElements
<1> DEFINE Balance(s) == EdgesInv(s, count) /\ HalvedInv(s, count) /\ SpreadInv(s, count)
<1>3. ChoiceInv(start, count) /\ Balance(start)
  <2>1. start \in States
    <3>1. <<1, count>> \in Int \X Int
      OBVIOUS
    <3> QED
      BY <3>1, EmptySeq DEF States
  <2>2. Len(start.selected) = 0 /\ Len(start.intervals) = 1 /\ start.intervals[1] = <<1, count>>
    OBVIOUS
  <2> HIDE DEF start
  <2>3. \A x \in 1 .. count : Within(x, start, 1)
    BY <2>2 DEF Within
  <2>4. ChoiceInv(start, count)
    BY <2>1, <2>2, <2>3 DEF ChoiceInv
  <2>5. EdgesInv(start, count)
    BY <2>2 DEF EdgesInv, Marks
  <2>6. HalvedInv(start, count)
    <3>1. 1 * Size(start, 1) <= count
      BY <2>2 DEF Size
    <3>2. /\ 1 \in {1, 2, 4, 8} /\ 1 \in 1 .. Len(start.intervals)
          /\ \A j \in 1 .. 1 : 1 * Size(start, j) <= count
          /\ 1 + 1 .. Len(start.intervals) = {}
          /\ Len(start.selected) <= 2 * 1 - 1 - 1
          /\ Len(start.intervals) - 1 <= 2 * (1 - 1)
      BY <2>2, <3>1
    <3> QED
      BY <3>2 DEF HalvedInv
  <2>7. SpreadInv(start, count)
    BY <2>2 DEF SpreadInv
  <2> QED
    BY <2>4, <2>5, <2>6, <2>7
<1>4. \A k \in Nat : turn[k] \in States
                    /\ turn[k] = IF k = 0 THEN start ELSE Served(turn[k - 1], max)
  <2> DEFINE step == [s \in States |-> Served(s, max)]
  <2>1. step \in [States -> States] /\ start \in States
    BY <1>2, <1>3 DEF ChoiceInv
  <2>2. \A s \in States : step[s] = Served(s, max)
    OBVIOUS
  <2> HIDE DEF step, start
  <2>3. PICK f : Recursive(f, States, start, step)
    BY <2>1, RecursionHasSolution
  <2>4. f \in [Nat -> States] /\ \A k \in Nat : f[k] = IF k = 0 THEN start ELSE Served(f[k - 1], max)
    BY <2>2, <2>3 DEF Recursive
  <2>5. f = F(f)
    BY <2>4
  <2>6. turn = F(turn)
    <3> HIDE DEF F
    <3> QED
      BY <2>5 DEF turn
  <2> DEFINE Odd == {k \in Nat : turn[k] \notin States}
  <2>7. \A k \in Nat : turn[k] = IF k = 0 THEN start ELSE Served(turn[k - 1], max)
    BY <2>6
  <2>8. Odd = {}
    <3> SUFFICES ASSUME Odd # {} PROVE FALSE
      OBVIOUS
    <3>1. PICK k \in Odd : \A j \in Odd : k <= j
      <4>1. Odd \in SUBSET Nat
        OBVIOUS
      <4> HIDE DEF Odd
      <4> QED BY <4>1, LeastNatural
    <3>2. k # 0
      BY <2>1, <2>7, <3>1
    <3>3. k - 1 \in Nat /\ ~(k <= k - 1)
      BY <3>2
    <3>4. turn[k - 1] \in States
      BY <3>1, <3>3
    <3> QED
      BY <1>2, <2>7, <3>1, <3>2, <3>4
  <2> QED
    BY <2>7, <2>8
<1> DEFINE Left(k) == Len(turn[k].intervals)
           Chosen(k) == Len(turn[k].selected)
           Fine(k) == /\ ChoiceInv(turn[k], count) /\ Balance(turn[k])
                      /\ Chosen(k) <= max
                      /\ Over(turn[k], max) \/ Left(k) - 2 * Chosen(k) = 1 - k
<1>5. \A k \in Nat : Fine(k)
  <2> DEFINE Bad2 == {k \in Nat : ~Fine(k)}
  <2> SUFFICES ASSUME Bad2 # {} PROVE FALSE
    <3> HIDE DEF Fine
    <3> QED OBVIOUS
  <2>1. PICK k \in Bad2 : \A j \in Bad2 : k <= j
    <3>1. Bad2 \in SUBSET Nat
      OBVIOUS
    <3> HIDE DEF Bad2
    <3> QED BY <3>1, LeastNatural
  <2>2. k \in Nat /\ ~Fine(k)
    BY <2>1
  <2>3. Fine(0)
    <3>1. turn[0] = start
      BY <1>4
    <3>2. Len(start.intervals) = 1 /\ Len(start.selected) = 0
      OBVIOUS
    <3> HIDE DEF start
    <3> QED
      BY <1>3, <3>1, <3>2
  <2>4. CASE k = 0
    BY <2>2, <2>3, <2>4
  <2>5. CASE k # 0
    <3>1. k - 1 \in Nat /\ ~(k <= k - 1)
      BY <2>2, <2>5
    <3>2. Fine(k - 1)
      <4> HIDE DEF Fine
      <4> QED BY <2>1, <3>1
    <3>3. turn[k] = Served(turn[k - 1], max)
      BY <1>4, <2>2, <2>5
    <3>4. CASE Over(turn[k - 1], max)
      <4>1. turn[k] = turn[k - 1]
        BY <3>3, <3>4 DEF Over, Served
      <4> QED
        BY <2>2, <3>2, <3>4, <4>1
    <3>5. CASE ~Over(turn[k - 1], max)
      <4>1. /\ ChoiceInv(turn[k], count)
            /\ Left(k) - 2 * Chosen(k) = Left(k - 1) - 2 * Chosen(k - 1) - 1
            /\ Chosen(k) <= max
        <5> DEFINE s == turn[k - 1]
        <5>1. ChoiceInv(s, count) /\ ~Over(s, max) /\ turn[k] = Served(s, max)
          BY <3>2, <3>3, <3>5
        <5> HIDE DEF s
        <5>2. LET t == Served(s, max)
              IN /\ ChoiceInv(t, count)
                 /\ Len(t.intervals) - 2 * Len(t.selected)
                      = Len(s.intervals) - 2 * Len(s.selected) - 1
                 /\ Len(t.selected) <= max
          BY <5>1, ServedKeepsChoice, Zenon
        <5> QED
          BY <5>1, <5>2 DEF s
      <4>2. Left(k - 1) - 2 * Chosen(k - 1) = 1 - (k - 1)
        BY <3>2, <3>5
      <4>3. Left(k) - 2 * Chosen(k) = 1 - (k - 1) - 1
        BY <4>1, <4>2
      <4>4. 1 - (k - 1) - 1 = 1 - k
        BY <2>2
      <4>5. Balance(turn[k])
        <5> DEFINE s == turn[k - 1]
        <5>1. /\ s \in States /\ ChoiceInv(s, count) /\ Balance(s) /\ ~Over(s, max)
              /\ turn[k] = Served(s, max)
          BY <1>4, <3>1, <3>2, <3>3, <3>5
        <5> HIDE DEF s
        <5>2. Balance(Served(s, max))
          BY <5>1, ServedKeepsEdges, ServedKeepsHalves, ServedKeepsSpread
        <5> QED
          BY <5>1, <5>2
      <4> QED
        BY <4>1, <4>3, <4>4, <4>5
    <3> QED
      BY <3>4, <3>5
  <2> QED
    BY <2>4, <2>5
<1> DEFINE last == turn[2 * count + 1]
           a == Len(last.selected)
           b == Len(last.intervals)
<1>6. ChoiceInv(last, count) /\ SpreadInv(last, count) /\ a <= max /\ (Over(last, max) \/ b - 2 * a = 1 - (2 * count + 1))
  <2>1. 2 * count + 1 \in Nat
    OBVIOUS
  <2> QED
    BY <1>5, <2>1
<1> HIDE DEF last
<1>7. /\ last.selected \in Seq(Int) /\ last.intervals \in Seq(Int \X Int)
      /\ \A i \in 1 .. a : last.selected[i] \in 1 .. count
      /\ \A i, j \in 1 .. a : last.selected[i] = last.selected[j] => i = j
  BY <1>6 DEF ChoiceInv, States
<1>8. a \in Nat /\ b \in Nat
  BY <1>7
<1>9. /\ a <= count /\ last.selected \in Seq(1 .. count)
      /\ a = count <=> \A x \in 1 .. count : \E i \in 1 .. a : last.selected[i] = x
  <2> DEFINE order == last.selected
             size == a
  <2>1. order \in Seq(Int) /\ size = Len(order) /\ size \in Nat
    BY <1>7, <1>8
  <2>2. /\ \A i \in 1 .. size : order[i] \in 1 .. count
        /\ \A i, j \in 1 .. size : order[i] = order[j] => i = j
    BY <1>7
  <2> HIDE DEF order, size
  <2>3. order \in [1 .. size -> 1 .. count]
    BY <2>1, <2>2
  <2>4. order \in Seq(1 .. count)
    BY <2>1, <2>2
  <2>5. Distinct(order, size)
    BY <2>2 DEF Distinct
  <2>6. size <= count /\ (size = count <=> \A x \in 1 .. count : \E i \in 1 .. size : order[i] = x)
    <3> DEFINE Full(c, m, f) == m <= c /\ (m = c <=> \A x \in 1 .. c : \E i \in 1 .. m : f[i] = x)
    <3>1. \A c, m \in Nat : \A f \in [1 .. m -> 1 .. c] : Distinct(f, m) => Full(c, m, f)
      BY DistinctCommits, Zenon
    <3> HIDE DEF Full
    <3>2. Full(count, size, order)
      BY <2>1, <2>3, <2>5, <3>1, Zenon
    <3> QED
      BY <3>2 DEF Full
  <2> QED
    BY <2>4, <2>6 DEF order, size
<1>10. last.intervals = << >> => a = count
  <2> SUFFICES ASSUME last.intervals = << >> PROVE a = count
    OBVIOUS
  <2>1. b = 0
    BY EmptySeq
  <2>2. \A x \in 1 .. count : \E i \in 1 .. a : last.selected[i] = x
    BY <1>6, <2>1 DEF ChoiceInv
  <2> QED
    BY <1>9, <2>2
<1>11. last.intervals = << >> \/ a >= max
  <2> SUFFICES ASSUME b - 2 * a = 1 - (2 * count + 1) PROVE last.intervals = << >>
    BY <1>6 DEF Over
  <2>1. a <= count
    BY <1>9
  <2> DEFINE x == a
             y == b
  <2>2. x \in Nat /\ y \in Nat /\ x <= count /\ y - 2 * x = 1 - (2 * count + 1)
    BY <1>8, <2>1
  <2> HIDE DEF x, y
  <2>3. y = 0
    BY <2>2
  <2> QED
    BY <1>7, <2>3, EmptySeq DEF y
<1>12. a = IF max < count THEN max ELSE count
  BY <1>6, <1>8, <1>9, <1>10, <1>11
<1> QED
  BY <1>1, <1>6, <1>7, <1>9, <1>12 DEF last, SpreadInv

-----------------------------------------------------------------------------
(* What a finished sweep reports.                                          *)

Records == [commit : Int, succeeded : BOOLEAN, released : {"released", "kept", "not_asked"}]

\* The commits to measure are distinct, both endpoints among them.
PlanInv ==
  /\ length \in Nat /\ budget \in Nat
  /\ probeCommits \in Seq(0 .. length + 1)
  /\ Distinct(probeCommits, Len(probeCommits))
  /\ Len(probeCommits) = 2 + (IF budget < length THEN budget ELSE length)
  /\ probeCommits[1] = 0 /\ probeCommits[Len(probeCommits)] = length + 1

\* The records are of the first of these commits, in order; a command is only under way while
\* there is a commit left; and the report is final when all of them have a record.
RecordsInv ==
  /\ measurements \in Seq(Records)
  /\ Len(measurements) <= Len(probeCommits)
  /\ \A k \in 1 .. Len(measurements) :
       /\ measurements[k].commit = probeCommits[k]
       /\ measurements[k].released = "released" => probeCommits[k] \notin envs \ leftover
  /\ loop # "idle" => Pending
  /\ report # "running" =>
       /\ Len(measurements) = Len(probeCommits)
       /\ report = "probe_completed" <=> \A k \in DOMAIN measurements : measurements[k].succeeded

\* Whatever the range and the budget, the plan of a sweep is distinct commits with the endpoints
\* around them.
LEMMA InitPlans == Init => PlanInv
<1> SUFFICES ASSUME Init PROVE PlanInv
  OBVIOUS
<1> DEFINE interior == BalancedProbeCommits(length, budget)
           a == Len(interior)
           all == 0 .. length + 1
<1>1. length \in Nat /\ budget \in Nat /\ probeCommits = <<0>> \o interior \o <<length + 1>>
  BY SweepAssumption DEF Init, Good, Bad, Interior
<1>2. /\ interior \in Seq(1 .. length)
      /\ \A i, j \in 1 .. a : interior[i] = interior[j] => i = j
      /\ a = IF budget < length THEN budget ELSE length
  BY <1>1, BalancedChoice
<1> HIDE DEF interior
<1>3. a \in Nat /\ \A i \in 1 .. a : interior[i] \in 1 .. length
  BY <1>1, <1>2
<1>4. interior \in Seq(all) /\ <<0>> \in Seq(all) /\ <<length + 1>> \in Seq(all)
  <2>1. 1 .. length \subseteq all /\ 0 \in all /\ length + 1 \in all
    BY <1>1
  <2> DEFINE inner == 1 .. length
  <2>2. inner \subseteq all /\ interior \in Seq(inner)
    BY <1>2, <2>1
  <2> HIDE DEF all, inner
  <2>3. interior \in Seq(all)
    BY <2>2, SeqMonotonic
  <2> QED
    BY <2>1, <2>3
<1> HIDE DEF all
<1> DEFINE head == <<0>> \o interior
<1>5. /\ head \in Seq(all) /\ Len(head) = 1 + a
      /\ \A i \in 1 .. 1 + a : head[i] = IF i <= 1 THEN 0 ELSE interior[i - 1]
  <2>1. Len(<<0>>) = 1 /\ <<0>>[1] = 0
    OBVIOUS
  <2> QED
    BY <1>3, <1>4, <2>1, ConcatProperties
<1>6. probeCommits = head \o <<length + 1>>
  BY <1>1
<1> HIDE DEF head
<1>7. /\ probeCommits \in Seq(all) /\ Len(probeCommits) = 2 + a
      /\ \A i \in 1 .. 2 + a : probeCommits[i] = IF i <= 1 + a THEN head[i] ELSE length + 1
  <2>1. Len(<<length + 1>>) = 1 /\ <<length + 1>>[1] = length + 1
    OBVIOUS
  <2>2. /\ probeCommits \in Seq(all) /\ Len(probeCommits) = 1 + a + 1
        /\ \A i \in 1 .. 1 + a + 1 :
             probeCommits[i] = IF i <= 1 + a THEN head[i] ELSE <<length + 1>>[i - (1 + a)]
    BY <1>4, <1>5, <1>6, <2>1, ConcatProperties
  <2> HIDE DEF a
  <2> QED
    BY <1>3, <2>1, <2>2
<1>8. \A i \in 1 .. 2 + a : \/ i = 1 /\ probeCommits[i] = 0
                            \/ i = 2 + a /\ probeCommits[i] = length + 1
                            \/ i - 1 \in 1 .. a /\ probeCommits[i] = interior[i - 1]
  <2> HIDE DEF a
  <2> QED
    BY <1>3, <1>5, <1>7
<1>9. Distinct(probeCommits, 2 + a)
  <2> SUFFICES ASSUME NEW i \in 1 .. 2 + a, NEW j \in 1 .. 2 + a,
                      probeCommits[i] = probeCommits[j]
               PROVE  i = j
    BY DEF Distinct
  <2>1. CASE i - 1 \in 1 .. a /\ j - 1 \in 1 .. a /\ probeCommits[i] = interior[i - 1]
             /\ probeCommits[j] = interior[j - 1]
    <3>1. i - 1 = j - 1
      BY <1>2, <2>1
    <3> QED
      BY <1>3, <3>1
  <2>2. \A k \in 1 .. 2 + a : k - 1 \in 1 .. a => interior[k - 1] # 0 /\ interior[k - 1] # length + 1
    BY <1>1, <1>3
  <2> DEFINE Place(k) == \/ k = 1 /\ probeCommits[k] = 0
                         \/ k = 2 + a /\ probeCommits[k] = length + 1
                         \/ /\ k - 1 \in 1 .. a /\ probeCommits[k] = interior[k - 1]
                            /\ probeCommits[k] # 0 /\ probeCommits[k] # length + 1
  <2>3. Place(i) /\ Place(j)
    BY <1>8, <2>2
  <2>4. length + 1 # 0
    BY <1>1
  <2> QED
    BY <2>1, <2>3, <2>4
<1>10. probeCommits[1] = 0 /\ probeCommits[2 + a] = length + 1
  <2> HIDE DEF a
  <2> QED
    BY <1>3, <1>5, <1>7
<1> QED
  BY <1>1, <1>2, <1>7, <1>9, <1>10 DEF PlanInv, all, a

\* No step changes the plan.
LEMMA PlanStays ==
  PlanInv /\ [Next]_vars => PlanInv'
<1> SUFFICES ASSUME PlanInv, [Next]_vars PROVE PlanInv'
  OBVIOUS
<1>1. UNCHANGED <<length, budget, probeCommits>>
  BY DEF Next, Step, NextCommand, Probe, CommandAgain, RecordMeasurement, LeftoverWorks, Finish, Crash,
         vars, sweep, sweepInputs
<1> QED
  BY <1>1 DEF PlanInv, Distinct

\* A command of the loop is under way in every step of the loop.
LEMMA ProbeStepBusy ==
  ProbeStep => loop # "idle"
  BY DEF ProbeStep, DeclareReady, GiveUp, RunDebugCommand, DebugCommandEnds, RepairBaseImage,
         BuildSucceeds, BuildFails, Asked

\* Every step keeps the records.
LEMMA RecordsStep ==
  PlanInv /\ RecordsInv /\ [Next]_vars => RecordsInv'
<1> SUFFICES ASSUME PlanInv, RecordsInv, [Next]_vars PROVE RecordsInv'
  OBVIOUS
<1>1. CASE NextCommand
  BY <1>1 DEF NextCommand, RecordsInv, Pending, sweep, sweepInputs
<1>2. CASE Probe
  BY <1>2, ProbeStepBusy DEF Probe, RecordsInv, Pending, sweep, sweepInputs
<1>3. ASSUME loop \in {"ready", "blocked"}
      PROVE  /\ report = "running" /\ Len(measurements) \in Nat /\ Len(probeCommits) \in Nat
             /\ Len(measurements) + 1 <= Len(probeCommits)
             /\ Current = probeCommits[Len(measurements) + 1]
             /\ Current \in Int
             /\ \A k \in 1 .. Len(measurements) : probeCommits[k] # Current
  <2>1. report = "running" /\ Len(measurements) < Len(probeCommits)
    BY <1>3 DEF RecordsInv, Pending
  <2>2. Len(measurements) \in Nat /\ Len(probeCommits) \in Nat
    BY DEF RecordsInv, PlanInv
  <2>3. Current = probeCommits[Len(measurements) + 1]
    BY DEF Current
  <2>4. Len(measurements) + 1 \in 1 .. Len(probeCommits)
    BY <2>1, <2>2
  <2>5. Current \in Int
    BY <2>3, <2>4, ElementOfSeq DEF PlanInv
  <2>6. ASSUME NEW k \in 1 .. Len(measurements) PROVE probeCommits[k] # Current
    <3>1. k \in 1 .. Len(probeCommits) /\ k # Len(measurements) + 1
      BY <2>1, <2>2
    <3> QED
      BY <2>3, <2>4, <3>1 DEF PlanInv, Distinct
  <2> QED
    BY <2>1, <2>2, <2>3, <2>4, <2>5, <2>6
<1>4. ASSUME envs' \subseteq envs \cup {Current}, leftover' \in Outlived
       PROVE  envs' \ leftover' \subseteq (envs \ leftover) \cup {Current}
  BY <1>4 DEF Outlived
<1>5. CASE CommandAgain
  <2>1. /\ loop \in {"ready", "blocked"} /\ loop' = "idle"
        /\ UNCHANGED <<measurements, probeCommits, report>>
        /\ envs' \subseteq envs \cup {Current} /\ leftover' \in Outlived
    BY <1>5 DEF CommandAgain, EndLoop, sweepInputs, EnvsLeft
  <2>2. envs' \ leftover' \subseteq (envs \ leftover) \cup {Current}
    BY <1>4, <2>1
  <2>3. \A k \in 1 .. Len(measurements) :
          probeCommits[k] \notin envs \ leftover => probeCommits[k] \notin envs' \ leftover'
    BY <1>3, <2>1, <2>2
  <2> QED
    BY <2>1, <2>3 DEF RecordsInv
<1>6. CASE RecordMeasurement
  <2>1. PICK succeeded \in BOOLEAN, left \in EnvsLeft, released \in Releases :
          /\ envs' \in Cleaned(left, released)
          /\ measurements' = Append(measurements,
               [commit |-> Current, succeeded |-> succeeded, released |-> released])
    BY <1>6 DEF RecordMeasurement
  <2>2. /\ loop \in {"ready", "blocked"} /\ loop' = "idle"
        /\ leftover' \in Outlived
        /\ UNCHANGED <<probeCommits, report>>
    BY <1>6 DEF RecordMeasurement, EndLoop, sweepInputs
  <2> DEFINE record == [commit |-> Current, succeeded |-> succeeded, released |-> released]
             m == Len(measurements)
  <2>3. record \in Records /\ record.commit = Current /\ record.released = released
    BY <1>3, <2>2 DEF Records, Releases
  <2>4. measurements' = Append(measurements, record)
    BY <2>1
  <2>5. envs' \subseteq envs \cup {Current} /\ (released = "released" => Current \notin envs')
    <3>1. left \subseteq envs \cup {Current}
      BY DEF EnvsLeft
    <3>2. CASE released = "released"
      BY <2>1, <3>1, <3>2 DEF Cleaned
    <3>3. CASE released = "kept"
      BY <2>1, <3>1, <3>3 DEF Cleaned
    <3>4. CASE released = "not_asked"
      BY <2>1, <3>1, <3>4 DEF Cleaned
    <3> QED
      BY <3>2, <3>3, <3>4 DEF Releases
  <2> HIDE DEF record
  <2>6. /\ measurements' \in Seq(Records) /\ Len(measurements') = m + 1
        /\ \A k \in 1 .. m : measurements'[k] = measurements[k]
        /\ measurements'[m + 1] = record
    BY <2>3, <2>4, AppendProperties DEF RecordsInv
  <2>7. /\ report = "running" /\ m \in Nat /\ m + 1 <= Len(probeCommits)
        /\ Current = probeCommits[m + 1]
        /\ \A k \in 1 .. m : probeCommits[k] # Current
    BY <1>3, <2>2
  <2>8. envs' \ leftover' \subseteq (envs \ leftover) \cup {Current}
    BY <1>4, <2>2, <2>5
  <2>9. ASSUME NEW k \in 1 .. m + 1
        PROVE  /\ measurements'[k].commit = probeCommits[k]
               /\ measurements'[k].released = "released" => probeCommits[k] \notin envs' \ leftover'
    <3>1. CASE k = m + 1
      BY <2>3, <2>5, <2>6, <2>7, <3>1
    <3>2. CASE k # m + 1
      <4>1. k \in 1 .. m
        BY <2>7, <3>2
      <4>2. /\ measurements[k].commit = probeCommits[k]
            /\ measurements[k].released = "released" => probeCommits[k] \notin envs \ leftover
        BY <4>1 DEF RecordsInv
      <4> QED
        BY <2>6, <2>7, <2>8, <4>1, <4>2
    <3> QED
      BY <3>1, <3>2
  <2> HIDE DEF m
  <2> QED
    BY <2>2, <2>6, <2>7, <2>9 DEF RecordsInv
<1>7. CASE Finish
  <2>1. /\ report = "running" /\ ~Pending
        /\ UNCHANGED <<loop, measurements, probeCommits, envs, leftover>>
        /\ report' = IF \A k \in DOMAIN measurements : measurements[k].succeeded
                     THEN "probe_completed" ELSE "probe_completed_with_failures"
    BY <1>7 DEF Finish, probeVars, sweepInputs
  <2>2. Len(measurements) \in Nat /\ Len(probeCommits) \in Nat
    BY DEF RecordsInv, PlanInv
  <2>3. Len(measurements) = Len(probeCommits)
    BY <2>1, <2>2 DEF Pending, RecordsInv
  <2> QED
    BY <2>1, <2>3 DEF RecordsInv
<1>8. CASE Crash
  <2>1. /\ report = "running" /\ report' = report /\ measurements' = << >> /\ loop' = "idle"
        /\ probeCommits' = probeCommits
    BY <1>8 DEF Crash, ProbeDies, sweepInputs
  <2>2. Len(probeCommits) \in Nat
    BY DEF PlanInv
  <2> QED
    BY <2>1, <2>2, EmptySeq DEF RecordsInv
<1>9. CASE UNCHANGED vars
  BY <1>9 DEF vars, RecordsInv, Pending, probeVars, sweep, sweepInputs
<1>10. CASE LeftoverWorks
  <2>1. /\ UNCHANGED <<loop, measurements, probeCommits, report, leftover>>
        /\ envs' \ leftover \subseteq envs \ leftover
    BY <1>10 DEF LeftoverWorks, probeVars, sweepInputs
  <2> QED
    BY <2>1 DEF RecordsInv, Pending
<1> QED
  BY <1>1, <1>2, <1>5, <1>6, <1>7, <1>8, <1>9, <1>10 DEF Next, Step

\* Records of all the planned commits are what a complete report needs.
LEMMA PlannedIsComplete ==
  PlanInv /\ RecordsInv => SweepIsComplete
<1> SUFFICES ASSUME PlanInv, RecordsInv, report # "running" PROVE SweepIsComplete
  BY DEF SweepIsComplete
<1> DEFINE m == Len(probeCommits)
           order == [k \in 1 .. m |-> probeCommits[k]]
<1>1. /\ measurements \in Seq(Records) /\ Len(measurements) = m
      /\ \A k \in 1 .. m : measurements[k].commit = probeCommits[k]
      /\ DOMAIN measurements = 1 .. m
  BY DEF RecordsInv
<1>2. /\ m \in Nat /\ \A k \in 1 .. m : probeCommits[k] \in 0 .. length + 1
      /\ length \in Nat /\ budget \in Nat
      /\ m = 2 + (IF budget < length THEN budget ELSE length)
  BY DEF PlanInv
<1>3. Measured = {probeCommits[k] : k \in 1 .. m}
  BY <1>1 DEF Measured
<1>4. {0, length + 1} \subseteq Measured /\ Measured \subseteq 0 .. length + 1
  <2>1. 1 \in 1 .. m /\ m \in 1 .. m
    BY <1>2
  <2> QED
    BY <1>2, <1>3, <2>1 DEF PlanInv
<1>5. IsFiniteSet(Measured) /\ Cardinality(Measured) = m
  <2>1. order \in [1 .. m -> Measured]
    BY <1>3
  <2>2. order \in Bijection(1 .. m, Measured)
    BY <1>3, <2>1 DEF PlanInv, Distinct, Bijection, Injection, Surjection, IsInjective
  <2>3. IsFiniteSet(1 .. m) /\ Cardinality(1 .. m) = m
    <3>1. Cardinality(1 .. m) = IF 1 > m THEN 0 ELSE m - 1 + 1
      BY <1>2, FS_Interval
    <3> QED
      BY <1>2, <3>1, FS_Interval
  <2> QED
    BY <2>2, <2>3, FS_Bijection DEF ExistsBijection
<1>6. CoverageComplete <=> Measured = 0 .. length + 1
  <2>1. IsFiniteSet(0 .. length + 1) /\ Cardinality(0 .. length + 1) = length + 2
    <3>1. Cardinality(0 .. length + 1) = IF 0 > length + 1 THEN 0 ELSE length + 1 - 0 + 1
      BY <1>2, FS_Interval
    <3> QED
      BY <1>2, <3>1, FS_Interval
  <2>2. CoverageComplete <=> m = length + 2
    BY <1>2 DEF CoverageComplete, Interior
  <2>3. m = length + 2 => Measured = 0 .. length + 1
    BY <1>4, <1>5, <2>1, FS_Subset
  <2> QED
    BY <1>5, <2>1, <2>2, <2>3
<1>7. \A k \in DOMAIN measurements :
        measurements[k].released = "released" => measurements[k].commit \notin envs \ leftover
  BY <1>1 DEF RecordsInv
<1>8. report = "probe_completed" <=> \A k \in DOMAIN measurements : measurements[k].succeeded
  BY DEF RecordsInv
<1> QED
  BY <1>1, <1>2, <1>4, <1>5, <1>6, <1>7, <1>8 DEF SweepIsComplete, Good, Bad

\* A finished sweep has measured both endpoints and, for any range, budget and number of deaths
\* of the process, as many of the commits between as the budget allows, each once; what it
\* reports released is gone unless a container of the commit outlived its command.
THEOREM FinishedSweepIsComplete ==
  Spec => []SweepIsComplete
<1>1. Init => RecordsInv
  <2> SUFFICES ASSUME Init PROVE RecordsInv
    OBVIOUS
  <2>1. PlanInv
    BY InitPlans
  <2>2. Len(probeCommits) \in Nat /\ measurements = << >> /\ loop = "idle" /\ report = "running"
    BY <2>1 DEF PlanInv, Init, ProbeInit
  <2> QED
    BY <2>2, EmptySeq DEF RecordsInv
<1> QED
  BY <1>1, InitPlans, PlanStays, RecordsStep, PlannedIsComplete, PTL DEF Spec

\* Whatever the range, the commits chosen are well spread over it at every moment.
THEOREM ChoiceIsBalanced ==
  Spec => []GapsStayBalanced
<1>1. ASSUME NEW count \in 0 .. MaxCount
      PROVE  LET order == BalancedProbeCommits(count, count)
             IN \A k \in DOMAIN order : WellSpread(order, k, count)
  <2> DEFINE order == BalancedProbeCommits(count, count)
  <2>1. count \in Nat
    BY SweepAssumption
  <2>2. order \in Seq(1 .. count) /\ \A k \in 1 .. Len(order) : WellSpread(order, k, count)
    BY <2>1, BalancedChoice
  <2> HIDE DEF order
  <2>3. DOMAIN order = 1 .. Len(order)
    BY <2>2
  <2> QED
    BY <2>2, <2>3 DEF order
<1>2. GapsStayBalanced
  BY <1>1 DEF GapsStayBalanced
<1> QED
  BY <1>2, PTL

=============================================================================
