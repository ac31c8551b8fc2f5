----------------------------- MODULE SearchProofs -----------------------------
(***************************************************************************)
(* What TLC checks of BisectSearch on short candidate lists and of         *)
(* PairedSearch on a few machines, proved for every list, every budget,    *)
(* every policy and every sequence of answers or values.  First the search *)
(* with arbitrary answers, then the bisection whose answers are verdicts.  *)
(***************************************************************************)
EXTENDS PairedSearch, WellFoundedInduction, FiniteSetTheorems, TLAPS

-----------------------------------------------------------------------------
(* Lemmas about the index arithmetic.                                      *)

\* A non-empty set of naturals has a least element, and SmallestOf returns it.
LEMMA SmallestOfIsLeast ==
  ASSUME NEW S \in SUBSET Nat, S # {}
  PROVE  SmallestOf(S) \in S /\ \A k \in S : SmallestOf(S) <= k
  <1> DEFINE Below == OpToRel(<, Nat)
  <1>1. \A a, b \in Nat : a < b => <<a, b>> \in Below
    BY DEF OpToRel
  <1>2. IsWellFoundedOn(Below, Nat)
    BY NatLessThanWellFounded
  <1> HIDE DEF Below
  <1>3. PICK x \in S : \A y \in S : ~(<<y, x>> \in Below)
    BY <1>2, WFMin
  <1>4. ASSUME NEW y \in S
        PROVE  x <= y
    <2>1. x \in Nat /\ y \in Nat
      OBVIOUS
    <2>2. ~(y < x)
      BY <1>1, <1>3, <2>1, Zenon
    <2>3. QED
      BY <2>1, <2>2
  <1>5. QED
    BY <1>4 DEF SmallestOf

\* _nearest_evaluable_index returns an untested index of the window, or None only
\* when every other index of the window was tested.
LEMMA NearestIsUntested ==
  ASSUME NEW lo \in Nat, NEW hi \in Int, NEW i \in lo .. hi, NEW seen
  PROVE  LET r == NearestEvaluableIndex(i, lo, hi, seen)
         IN \/ r \in lo .. hi /\ r \notin seen
            \/ r = NoIndex /\ (lo .. hi) \ {i} \subseteq seen
  <1> DEFINE free == (lo .. hi) \ seen
             offsets == {d \in 1 .. 1 + hi - lo : i + d \in free \/ i - d \in free}
             r == NearestEvaluableIndex(i, lo, hi, seen)
  <1>1. CASE offsets = {}
    <2>1. r = NoIndex
      BY <1>1 DEF NearestEvaluableIndex
    <2>2. ASSUME NEW j \in (lo .. hi) \ {i}, j \notin seen
          PROVE  FALSE
      <3>1. CASE j > i
        <4>1. j - i \in 1 .. 1 + hi - lo /\ i + (j - i) = j
          BY <3>1
        <4>2. j - i \in offsets
          BY <4>1, <2>2
        <4>3. QED
          BY <4>2, <1>1
      <3>2. CASE j < i
        <4>1. i - j \in 1 .. 1 + hi - lo /\ i - (i - j) = j
          BY <3>2
        <4>2. i - j \in offsets
          BY <4>1, <2>2
        <4>3. QED
          BY <4>2, <1>1
      <3>3. QED
        BY <3>1, <3>2
    <2>3. QED
      BY <2>1, <2>2
  <1>2. CASE offsets # {}
    <2> DEFINE d == SmallestOf(offsets)
    <2>1. offsets \in SUBSET Nat
      OBVIOUS
    <2>2. d \in offsets
      BY <2>1, <1>2, SmallestOfIsLeast
    <2>3. r = IF i + d \in free THEN i + d ELSE i - d
      BY <1>2 DEF NearestEvaluableIndex
    <2>4. r \in free
      BY <2>2, <2>3
    <2>5. QED
      BY <2>4
  <1>3. QED
    BY <1>1, <1>2

\* The midpoint of a non-empty window lies in it.
LEMMA MidpointInWindow ==
  ASSUME NEW lo \in Nat, NEW hi \in Int, lo <= hi
  PROVE  Midpoint(lo, hi) \in lo .. hi
  BY DEF Midpoint

-----------------------------------------------------------------------------
(* The inductive invariant.                                                *)

\* The window is exactly the open interval between the two bounds.
WindowInv ==
  /\ low = lastGood + 1
  /\ high = bestBad - 1
  /\ lastGood < bestBad

\* Each bound is an endpoint or was measured to be what it is.
BoundInv ==
  /\ lastGood # -1 => answer[lastGood] = "GOOD"
  /\ bestBad # n - 1 => answer[bestBad] = "BAD"

\* Inside the inner loop the probe is an untested index of the window; it is None only
\* when the whole window was tested.
ProbeInv ==
  pc = "inner" =>
    /\ mid \in low .. high
    /\ probe = mid \/ mid \in testedIdx
    /\ \/ probe \in low .. high /\ probe \notin testedIdx
       \/ probe = NoIndex /\ low .. high \subseteq testedIdx

\* What was measured and is still inside the window is a hole.
HoleInv == pc # "done" => testedIdx \cap (low .. high) \subseteq skipped

\* Once the budget is used up, only a walk around holes goes on measuring.
BudgetInv ==
  pc = "inner" /\ Len(tested) >= maxTests =>
    Len(tested) > 0 /\ tested[Len(tested)] \in skipped

\* What the outcome says of the bounds.
OutcomeInv ==
  /\ pc # "done" => outcome = Searching
  /\ pc = "done" =>
       /\ outcome.status \in Statuses \ {"completed_with_holes"}
       /\ outcome.status = "completed" => /\ bestBad = lastGood + 1
                                          /\ outcome.suspected = {bestBad}
       /\ outcome.status = "inconclusive_holes" => outcome.narrowed # {}
       /\ \A r \in outcome.narrowed :
            /\ r.lastGood = lastGood
            /\ r.firstBad = bestBad
            /\ outcome.status = "inconclusive_holes" =>
                 r.between = lastGood + 1 .. bestBad - 1 /\ r.between # {}

IInv ==
  /\ TypeOK
  /\ WindowInv
  /\ BoundInv
  /\ ProbeInv
  /\ HoleInv
  /\ NeverMeasuredTwice
  /\ OverBudgetOnlyPastHoles
  /\ BudgetInv
  /\ OutcomeInv
-----------------------------------------------------------------------------
(* The invariant holds initially and every step preserves it.              *)

\* The invariant holds initially.
LEMMA InitIInv ==
  Init => IInv
  <1> SUFFICES ASSUME Init
               PROVE  IInv
    OBVIOUS
  <1> USE DEF Init, LastInterior, NoIndex
  <1>1. n \in Nat \ {0} /\ n \in Lengths
    BY LengthsAssumption
  <1>2. TypeOK
    <2>1. /\ low \in 0 .. n /\ high \in -1 .. n - 2 /\ lastGood \in -1 .. n - 2
          /\ bestBad \in 0 .. n - 1 /\ mid \in -1 .. n - 2 /\ probe \in -1 .. n - 2
      BY <1>1
    <2>2. tested \in Seq(0 .. n - 2) /\ skipped \subseteq 0 .. n - 2
      OBVIOUS
    <2>3. answer \in [0 .. n - 1 -> Answers \cup {"untested"}]
      OBVIOUS
    <2>4. outcome.status = "searching"
      BY DEF Searching
    <2>5. QED
      BY <1>1, <2>1, <2>2, <2>3, <2>4 DEF TypeOK
  <1>3. WindowInv /\ BoundInv /\ ProbeInv /\ BudgetInv
    BY <1>1 DEF WindowInv, BoundInv, ProbeInv, BudgetInv
  <1>4. HoleInv
    <2>1. testedIdx = {}
      BY <1>1 DEF testedIdx
    <2>2. QED
      BY <2>1 DEF HoleInv
  <1>5. NeverMeasuredTwice /\ OverBudgetOnlyPastHoles
    BY DEF NeverMeasuredTwice, OverBudgetOnlyPastHoles
  <1>6. OutcomeInv
    BY DEF OutcomeInv
  <1>7. QED
    BY <1>2, <1>3, <1>4, <1>5, <1>6 DEF IInv

\* What one call of evaluate does to the record of measurements, whatever it answers.
LEMMA EvaluateStep ==
  ASSUME IInv, NEW a \in Answers, Evaluate(a), skipped \subseteq skipped'
  PROVE  /\ n' = n /\ maxTests' = maxTests /\ firstBad' = firstBad
         /\ n \in Nat \ {0} /\ maxTests \in Nat
         /\ probe \in low .. high /\ probe \notin testedIdx
         /\ probe \in 0 .. n - 2
         /\ tested' \in Seq(0 .. n - 2)
         /\ Len(tested') = Len(tested) + 1
         /\ tested'[Len(tested')] = probe
         /\ testedIdx' = testedIdx \cup {probe}
         /\ answer' \in [0 .. n - 1 -> Answers \cup {"untested"}]
         /\ answer'[probe] = a
         /\ \A i \in 0 .. n - 1 : i # probe => answer'[i] = answer[i]
         /\ NeverMeasuredTwice'
         /\ OverBudgetOnlyPastHoles'
  <1>1. /\ n' = n /\ maxTests' = maxTests /\ firstBad' = firstBad
        /\ n \in Nat \ {0} /\ maxTests \in Nat
    BY LengthsAssumption, BudgetsAssumption DEF IInv, TypeOK, Evaluate, inputs
  <1>2. probe \in low .. high /\ probe \notin testedIdx
    BY DEF IInv, ProbeInv, Evaluate
  <1>3. probe \in 0 .. n - 2
    BY <1>1, <1>2 DEF IInv, TypeOK
  <1>4. /\ tested \in Seq(0 .. n - 2)
        /\ tested' = Append(tested, probe)
        /\ Len(tested) \in Nat
    BY DEF IInv, TypeOK, Evaluate
  <1>5. /\ tested' \in Seq(0 .. n - 2)
        /\ Len(tested') = Len(tested) + 1
        /\ tested'[Len(tested')] = probe
        /\ \A k \in 1 .. Len(tested) : tested'[k] = tested[k]
    BY <1>3, <1>4
  <1>6. testedIdx' = testedIdx \cup {probe}
    <2>1. ASSUME NEW i \in testedIdx'
          PROVE  i \in testedIdx \cup {probe}
      <3>1. PICK k \in 1 .. Len(tested') : tested'[k] = i /\ i \in 0 .. n - 1
        BY <2>1, <1>1 DEF testedIdx
      <3>2. k \in 1 .. Len(tested) \/ k = Len(tested')
        BY <1>4, <1>5
      <3>3. QED
        BY <3>1, <3>2, <1>5 DEF testedIdx
    <2>2. ASSUME NEW i \in testedIdx
          PROVE  i \in testedIdx'
      <3>1. PICK k \in 1 .. Len(tested) : tested[k] = i /\ i \in 0 .. n - 1
        BY <2>2 DEF testedIdx
      <3>2. k \in 1 .. Len(tested') /\ tested'[k] = i
        BY <3>1, <1>4, <1>5
      <3>3. QED
        BY <3>1, <3>2, <1>1 DEF testedIdx
    <2>3. probe \in testedIdx'
      <3>1. Len(tested') \in 1 .. Len(tested') /\ probe \in 0 .. n - 1
        BY <1>1, <1>3, <1>4, <1>5
      <3>2. QED
        BY <3>1, <1>1, <1>5 DEF testedIdx
    <2>4. QED
      BY <2>1, <2>2, <2>3
  <1>7. /\ answer' \in [0 .. n - 1 -> Answers \cup {"untested"}]
        /\ answer'[probe] = a
        /\ \A i \in 0 .. n - 1 : i # probe => answer'[i] = answer[i]
    BY <1>1, <1>3 DEF IInv, TypeOK, Evaluate
  <1>8. NeverMeasuredTwice'
    <2> SUFFICES ASSUME NEW j \in 1 .. Len(tested'), NEW k \in 1 .. Len(tested'),
                        tested'[j] = tested'[k]
                 PROVE  j = k
      BY DEF NeverMeasuredTwice
    <2>1. \A i \in 1 .. Len(tested) : tested'[i] # probe
      <3>1. \A i \in 1 .. Len(tested) : tested[i] \in 0 .. n - 1
        BY <1>1, <1>4
      <3>2. QED
        BY <3>1, <1>2, <1>5 DEF testedIdx
    <2>2. /\ j \in 1 .. Len(tested) \/ j = Len(tested')
          /\ k \in 1 .. Len(tested) \/ k = Len(tested')
      BY <1>4, <1>5
    <2>3. QED
      BY <2>1, <2>2, <1>5 DEF IInv, NeverMeasuredTwice
  <1>9. OverBudgetOnlyPastHoles'
    <2> SUFFICES ASSUME NEW k \in 1 .. Len(tested'), k > maxTests
                 PROVE  k > 1 /\ tested'[k - 1] \in skipped
      BY <1>1 DEF OverBudgetOnlyPastHoles
    <2>1. CASE k \in 1 .. Len(tested)
      <3>1. k > 1 /\ tested[k - 1] \in skipped
        BY <2>1 DEF IInv, OverBudgetOnlyPastHoles
      <3>2. k - 1 \in 1 .. Len(tested)
        BY <2>1, <3>1, <1>4
      <3>3. QED
        BY <3>1, <3>2, <1>5
    <2>2. CASE k = Len(tested')
      <3>1. Len(tested) >= maxTests /\ pc = "inner"
        BY <2>2, <1>1, <1>4, <1>5 DEF Evaluate
      <3>2. Len(tested) > 0 /\ tested[Len(tested)] \in skipped
        BY <3>1 DEF IInv, BudgetInv
      <3>3. k - 1 = Len(tested) /\ k - 1 \in 1 .. Len(tested)
        BY <2>2, <3>2, <1>4, <1>5
      <3>4. QED
        BY <3>2, <3>3, <1>4, <1>5
    <2>3. QED
      BY <2>1, <2>2, <1>4, <1>5
  <1>10. QED
    BY <1>1, <1>2, <1>3, <1>5, <1>6, <1>7, <1>8, <1>9

\* A step that measures nothing and only ends the search keeps everything else.
LEMMA ReturnStep ==
  ASSUME IInv, pc' = "done",
         UNCHANGED <<inputs, window, mid, probe, tested, answer, skipped>>,
         OutcomeInv'
  PROVE  IInv'
  <1> USE DEF inputs, window
  <1>1. TypeOK'
    BY DEF IInv, TypeOK, OutcomeInv, Statuses
  <1>2. WindowInv' /\ BoundInv' /\ ProbeInv' /\ HoleInv' /\ BudgetInv'
    BY DEF IInv, WindowInv, BoundInv, ProbeInv, HoleInv, BudgetInv
  <1>3. NeverMeasuredTwice' /\ OverBudgetOnlyPastHoles'
    BY DEF IInv, NeverMeasuredTwice, OverBudgetOnlyPastHoles
  <1>4. QED
    BY <1>1, <1>2, <1>3 DEF IInv

\* Stopping at the budget reports no commit.
LEMMA StopAtBudgetStep ==
  IInv /\ StopAtBudget => IInv'
  <1> SUFFICES ASSUME IInv, StopAtBudget
               PROVE  IInv'
    OBVIOUS
  <1> USE DEF StopAtBudget
  <1>1. OutcomeInv'
    BY DEF Return, Outcome, OutcomeInv, Statuses, window
  <1>2. QED
    BY <1>1, ReturnStep DEF Return

\* Stopping among holes reports an interval of nothing but holes.
LEMMA StopAllHolesStep ==
  IInv /\ StopAllHoles => IInv'
  <1> SUFFICES ASSUME IInv, StopAllHoles
               PROVE  IInv'
    OBVIOUS
  <1> USE DEF StopAllHoles
  <1>1. /\ low .. high # {}
        /\ low .. high \subseteq skipped
    <2>1. mid \in low .. high /\ low .. high \subseteq testedIdx
      BY DEF IInv, TypeOK, WindowInv, ProbeInv, NoIndex
    <2>2. QED
      BY <2>1 DEF IInv, HoleInv
  <1> DEFINE between == {i \in skipped : lastGood < i /\ i < bestBad}
  <1>2. between = lastGood + 1 .. bestBad - 1 /\ between # {}
    <2>1. /\ low .. high = lastGood + 1 .. bestBad - 1
          /\ lastGood \in Int /\ bestBad \in Int
      BY DEF IInv, TypeOK, WindowInv
    <2>2. \A i \in skipped : i \in Int
      BY LengthsAssumption DEF IInv, TypeOK
    <2>3. ASSUME NEW i \in between
          PROVE  i \in lastGood + 1 .. bestBad - 1
      BY <2>1, <2>2
    <2>4. ASSUME NEW i \in lastGood + 1 .. bestBad - 1
          PROVE  i \in between
      <3>1. i \in skipped
        BY <1>1, <2>1
      <3>2. QED
        BY <2>1, <3>1
    <2>5. QED
      BY <1>1, <2>1, <2>3, <2>4
  <1> HIDE DEF between
  <1>3. outcome' = [status    |-> "inconclusive_holes",
                    reason    |-> "candidates_unevaluable",
                    suspected |-> {bestBad},
                    narrowed  |-> {[lastGood |-> lastGood, firstBad |-> bestBad,
                                    between |-> between]}]
    BY DEF Return, Outcome, between
  <1>4. OutcomeInv'
    <2>1. pc' = "done" /\ lastGood' = lastGood /\ bestBad' = bestBad
      BY DEF Return, window
    <2>2. /\ outcome'.status = "inconclusive_holes"
          /\ outcome'.narrowed = {[lastGood |-> lastGood, firstBad |-> bestBad,
                                   between |-> between]}
      BY <1>3
    <2>3. \A r \in outcome'.narrowed :
            r.lastGood = lastGood /\ r.firstBad = bestBad /\ r.between = between
      BY <2>2
    <2>4. QED
      BY <1>2, <2>1, <2>2, <2>3 DEF OutcomeInv, Statuses
  <1>5. QED
    BY <1>4, ReturnStep DEF Return

\* An empty window means neighbouring bounds.
LEMMA FinishStep ==
  IInv /\ Finish => IInv'
  <1> SUFFICES ASSUME IInv, Finish
               PROVE  IInv'
    OBVIOUS
  <1> USE DEF Finish
  <1>1. bestBad = lastGood + 1
    BY DEF IInv, TypeOK, WindowInv, WindowOpen
  <1>2. ~(\E i \in skipped : lastGood < i /\ i < bestBad)
    BY <1>1 DEF IInv, TypeOK
  <1>3. Return("completed", "first_bad_found", skipped)
    BY <1>2
  <1>4. OutcomeInv'
    BY <1>1, <1>3 DEF Return, Outcome, OutcomeInv, Statuses, window
  <1>5. QED
    BY <1>4, ReturnStep DEF Return

\* A new midpoint is in the window, and its probe is untested.
LEMMA ChooseProbeStep ==
  IInv /\ ChooseProbe => IInv'
  <1> SUFFICES ASSUME IInv, ChooseProbe
               PROVE  IInv'
    OBVIOUS
  <1> USE DEF ChooseProbe, inputs, window
  <1>1. /\ low \in Nat /\ high \in Int /\ low <= high
        /\ n \in Nat \ {0}
        /\ low .. high \subseteq 0 .. n - 2
    BY LengthsAssumption DEF IInv, TypeOK, WindowOpen
  <1>2. mid' \in low .. high
    BY <1>1, MidpointInWindow
  <1>3. testedIdx' = testedIdx
    BY DEF testedIdx
  <1>4. \/ probe' \in low .. high /\ probe' \notin testedIdx
        \/ probe' = NoIndex /\ low .. high \subseteq testedIdx
    <2>1. CASE mid' \in testedIdx
      <3>1. probe' = NearestEvaluableIndex(mid', low, high, testedIdx)
        BY <2>1
      <3>2. \/ probe' \in low .. high /\ probe' \notin testedIdx
            \/ probe' = NoIndex /\ (low .. high) \ {mid'} \subseteq testedIdx
        BY <1>1, <1>2, <3>1, NearestIsUntested
      <3>3. QED
        BY <2>1, <3>2
    <2>2. CASE mid' \notin testedIdx
      BY <1>2, <2>2
    <2>3. QED
      BY <2>1, <2>2
  <1>5. TypeOK'
    <2>1. mid' \in -1 .. n - 2 /\ probe' \in -1 .. n - 2
      BY <1>1, <1>2, <1>4 DEF NoIndex
    <2>2. QED
      BY <2>1 DEF IInv, TypeOK
  <1>6. WindowInv' /\ BoundInv'
    BY DEF IInv, WindowInv, BoundInv
  <1>7. ProbeInv'
    <2>1. probe' = mid' \/ mid' \in testedIdx
      OBVIOUS
    <2>2. QED
      BY <1>2, <1>3, <1>4, <2>1 DEF ProbeInv
  <1>8. HoleInv'
    BY <1>3 DEF IInv, HoleInv
  <1>9. NeverMeasuredTwice' /\ OverBudgetOnlyPastHoles'
    BY DEF IInv, NeverMeasuredTwice, OverBudgetOnlyPastHoles
  <1>10. BudgetInv'
    <2>1. ~(Len(tested) >= maxTests)
      BY DEF BudgetSpent
    <2>2. QED
      BY <2>1 DEF BudgetInv
  <1>11. OutcomeInv'
    BY DEF IInv, OutcomeInv
  <1>12. QED
    BY <1>5, <1>6, <1>7, <1>8, <1>9, <1>10, <1>11 DEF IInv

\* The facts about indices that every answer's step needs.
LEMMA IndexTypes ==
  ASSUME IInv
  PROVE  /\ n \in Nat \ {0} /\ maxTests \in Nat
         /\ low \in 0 .. n /\ high \in -1 .. n - 2
         /\ lastGood \in -1 .. n - 2 /\ bestBad \in 0 .. n - 1
         /\ low = lastGood + 1 /\ high = bestBad - 1 /\ lastGood < bestBad
  BY LengthsAssumption, BudgetsAssumption DEF IInv, TypeOK, WindowInv

\* A good answer moves the lower bound.
LEMMA RecordGoodStep ==
  IInv /\ RecordGood => IInv'
  <1> SUFFICES ASSUME IInv, RecordGood
               PROVE  IInv'
    OBVIOUS
  <1> USE DEF RecordGood
  <1>1. Evaluate("GOOD") /\ "GOOD" \in Answers /\ skipped \subseteq skipped' /\ pc = "inner"
    BY DEF Answers, Evaluate
  <1>2. /\ n' = n /\ maxTests' = maxTests /\ firstBad' = firstBad
        /\ probe \in low .. high /\ probe \in 0 .. n - 2
        /\ tested' \in Seq(0 .. n - 2)
        /\ testedIdx' = testedIdx \cup {probe}
        /\ answer' \in [0 .. n - 1 -> Answers \cup {"untested"}]
        /\ answer'[probe] = "GOOD"
        /\ \A i \in 0 .. n - 1 : i # probe => answer'[i] = answer[i]
        /\ NeverMeasuredTwice' /\ OverBudgetOnlyPastHoles'
    BY <1>1, EvaluateStep
  <1>3. /\ n \in Nat \ {0}
        /\ low \in 0 .. n /\ high \in -1 .. n - 2
        /\ lastGood \in -1 .. n - 2 /\ bestBad \in 0 .. n - 1
        /\ low = lastGood + 1 /\ high = bestBad - 1 /\ lastGood < bestBad
    BY IndexTypes
  <1>4. TypeOK'
    <2>1. /\ low' \in 0 .. n /\ high' \in -1 .. n - 2
          /\ lastGood' \in -1 .. n - 2 /\ bestBad' \in 0 .. n - 1
      BY <1>2, <1>3
    <2>2. QED
      BY <1>2, <2>1 DEF IInv, TypeOK
  <1>5. WindowInv'
    BY <1>2, <1>3 DEF WindowInv
  <1>6. BoundInv'
    <2>1. bestBad \in 0 .. n - 1 /\ bestBad # probe
      BY <1>2, <1>3
    <2>2. QED
      BY <1>2, <1>3, <2>1 DEF IInv, BoundInv
  <1>7. ProbeInv' /\ BudgetInv'
    BY DEF ProbeInv, BudgetInv
  <1>8. HoleInv'
    <2>1. \A i \in low' .. high' : i \in low .. high /\ i # probe
      BY <1>2, <1>3
    <2>2. QED
      BY <1>1, <1>2, <2>1 DEF IInv, HoleInv
  <1>9. OutcomeInv'
    BY <1>1 DEF IInv, OutcomeInv
  <1>10. QED
    BY <1>2, <1>4, <1>5, <1>6, <1>7, <1>8, <1>9 DEF IInv

\* A bad answer moves the upper bound.
LEMMA RecordBadStep ==
  IInv /\ RecordBad => IInv'
  <1> SUFFICES ASSUME IInv, RecordBad
               PROVE  IInv'
    OBVIOUS
  <1> USE DEF RecordBad
  <1>1. Evaluate("BAD") /\ "BAD" \in Answers /\ skipped \subseteq skipped' /\ pc = "inner"
    BY DEF Answers, Evaluate
  <1>2. /\ n' = n /\ maxTests' = maxTests /\ firstBad' = firstBad
        /\ probe \in low .. high /\ probe \in 0 .. n - 2
        /\ tested' \in Seq(0 .. n - 2)
        /\ testedIdx' = testedIdx \cup {probe}
        /\ answer' \in [0 .. n - 1 -> Answers \cup {"untested"}]
        /\ answer'[probe] = "BAD"
        /\ \A i \in 0 .. n - 1 : i # probe => answer'[i] = answer[i]
        /\ NeverMeasuredTwice' /\ OverBudgetOnlyPastHoles'
    BY <1>1, EvaluateStep
  <1>3. /\ n \in Nat \ {0}
        /\ low \in 0 .. n /\ high \in -1 .. n - 2
        /\ lastGood \in -1 .. n - 2 /\ bestBad \in 0 .. n - 1
        /\ low = lastGood + 1 /\ high = bestBad - 1 /\ lastGood < bestBad
    BY IndexTypes
  <1>4. TypeOK'
    <2>1. /\ low' \in 0 .. n /\ high' \in -1 .. n - 2
          /\ lastGood' \in -1 .. n - 2 /\ bestBad' \in 0 .. n - 1
      BY <1>2, <1>3
    <2>2. QED
      BY <1>2, <2>1 DEF IInv, TypeOK
  <1>5. WindowInv'
    BY <1>2, <1>3 DEF WindowInv
  <1>6. BoundInv'
    <2>1. lastGood # -1 => lastGood \in 0 .. n - 1 /\ lastGood # probe
      BY <1>2, <1>3
    <2>2. QED
      BY <1>2, <1>3, <2>1 DEF IInv, BoundInv
  <1>7. ProbeInv' /\ BudgetInv'
    BY DEF ProbeInv, BudgetInv
  <1>8. HoleInv'
    <2>1. \A i \in low' .. high' : i \in low .. high /\ i # probe
      BY <1>2, <1>3
    <2>2. QED
      BY <1>1, <1>2, <2>1 DEF IInv, HoleInv
  <1>9. OutcomeInv'
    BY <1>1 DEF IInv, OutcomeInv
  <1>10. QED
    BY <1>2, <1>4, <1>5, <1>6, <1>7, <1>8, <1>9 DEF IInv

\* A hole leaves the window as it is.
LEMMA RecordHoleStep ==
  IInv /\ RecordHole => IInv'
  <1> SUFFICES ASSUME IInv, RecordHole
               PROVE  IInv'
    OBVIOUS
  <1> USE DEF RecordHole, window
  <1>1. Evaluate("SKIP") /\ "SKIP" \in Answers /\ skipped \subseteq skipped' /\ pc = "inner"
    BY DEF Answers, Evaluate
  <1>2. /\ low \in Nat /\ high \in Int /\ mid \in low .. high
        /\ low .. high \subseteq 0 .. n - 2
    BY <1>1, IndexTypes DEF IInv, ProbeInv
  <1>3. mid \in testedIdx'
    BY <1>1, EvaluateStep DEF IInv, ProbeInv
  <1>4. \/ probe' \in low .. high /\ probe' \notin testedIdx'
        \/ probe' = NoIndex /\ low .. high \subseteq testedIdx'
    BY <1>1, <1>2, <1>3, EvaluateStep, NearestIsUntested
  <1>5. TypeOK'
    <2>1. probe' \in -1 .. n - 2
      BY <1>2, <1>4, IndexTypes DEF NoIndex
    <2>2. skipped' \subseteq 0 .. n - 2
      BY <1>1, EvaluateStep DEF IInv, TypeOK
    <2>3. QED
      BY <1>1, <2>1, <2>2, EvaluateStep DEF IInv, TypeOK
  <1>6. WindowInv'
    BY DEF IInv, WindowInv
  <1>7. BoundInv'
    <2>1. /\ probe \in low .. high
          /\ \A i \in 0 .. n - 1 : i # probe => answer'[i] = answer[i]
          /\ n' = n
      BY <1>1, EvaluateStep
    <2>2. /\ lastGood # -1 => lastGood \in 0 .. n - 1 /\ lastGood # probe
          /\ bestBad \in 0 .. n - 1 /\ bestBad # probe
      BY <2>1, IndexTypes
    <2>3. QED
      BY <2>1, <2>2 DEF IInv, BoundInv
  <1>8. ProbeInv'
    BY <1>2, <1>3, <1>4 DEF ProbeInv
  <1>9. HoleInv'
    BY <1>1, EvaluateStep DEF IInv, HoleInv
  <1>10. BudgetInv'
    BY <1>1, EvaluateStep DEF IInv, TypeOK, BudgetInv
  <1>11. OutcomeInv'
    BY <1>1 DEF IInv, OutcomeInv
  <1>12. NeverMeasuredTwice' /\ OverBudgetOnlyPastHoles'
    BY <1>1, EvaluateStep
  <1>13. QED
    BY <1>5, <1>6, <1>7, <1>8, <1>9, <1>10, <1>11, <1>12 DEF IInv

\* UNCLEAR and tooling-incompatible answers end the search where it stands.
LEMMA StopAfterEvaluateStep ==
  IInv /\ (StopUnclear \/ StopUnsupportedTooling) => IInv'
  <1> SUFFICES ASSUME IInv,
                      NEW a \in Answers, Evaluate(a),
                      skipped' = skipped \/ skipped' = skipped \cup {probe},
                      NEW s \in {"inconclusive", "unsupported_tooling_contract"},
                      NEW r, Return(s, r, skipped'),
                      UNCHANGED <<window, mid, probe>>
               PROVE  IInv'
    BY DEF StopUnclear, StopUnsupportedTooling, Answers
  <1> USE DEF window
  <1>1. skipped \subseteq skipped' /\ pc = "inner" /\ pc' = "done"
    BY DEF Evaluate, Return
  <1>2. /\ outcome'.status = s
        /\ \A t \in outcome'.narrowed : t.lastGood = lastGood /\ t.firstBad = bestBad
    BY DEF Return, Outcome
  <1>3. OutcomeInv'
    BY <1>1, <1>2 DEF OutcomeInv, Statuses
  <1>4. TypeOK'
    <2>1. skipped' \subseteq 0 .. n - 2
      BY <1>1, EvaluateStep DEF IInv, TypeOK
    <2>2. QED
      BY <1>1, <1>2, <2>1, EvaluateStep DEF IInv, TypeOK, Statuses
  <1>5. BoundInv'
    <2>1. /\ probe \in low .. high
          /\ \A i \in 0 .. n - 1 : i # probe => answer'[i] = answer[i]
          /\ n' = n
      BY <1>1, EvaluateStep
    <2>2. /\ lastGood # -1 => lastGood \in 0 .. n - 1 /\ lastGood # probe
          /\ bestBad \in 0 .. n - 1 /\ bestBad # probe
      BY <2>1, IndexTypes
    <2>3. QED
      BY <2>1, <2>2 DEF IInv, BoundInv
  <1>6. WindowInv' /\ ProbeInv' /\ HoleInv' /\ BudgetInv'
    BY <1>1 DEF IInv, WindowInv, ProbeInv, HoleInv, BudgetInv
  <1>7. NeverMeasuredTwice' /\ OverBudgetOnlyPastHoles'
    BY <1>1, EvaluateStep
  <1>8. QED
    BY <1>3, <1>4, <1>5, <1>6, <1>7 DEF IInv

\* Every step preserves the invariant.
LEMMA NextIInv ==
  IInv /\ [Next]_vars => IInv'
  <1> SUFFICES ASSUME IInv, [Next]_vars
               PROVE  IInv'
    OBVIOUS
  <1>1. CASE StopAtBudget
    BY <1>1, StopAtBudgetStep
  <1>2. CASE ChooseProbe
    BY <1>2, ChooseProbeStep
  <1>3. CASE RecordGood
    BY <1>3, RecordGoodStep
  <1>4. CASE RecordBad
    BY <1>4, RecordBadStep
  <1>5. CASE StopUnclear
    BY <1>5, StopAfterEvaluateStep
  <1>6. CASE RecordHole
    BY <1>6, RecordHoleStep
  <1>7. CASE StopUnsupportedTooling
    BY <1>7, StopAfterEvaluateStep
  <1>8. CASE StopAllHoles
    BY <1>8, StopAllHolesStep
  <1>9. CASE Finish
    BY <1>9, FinishStep
  <1>10. CASE UNCHANGED vars
    <2>1. TypeOK' /\ WindowInv' /\ BoundInv'
      BY <1>10 DEF IInv, TypeOK, WindowInv, BoundInv, vars, inputs, window
    <2>2. testedIdx' = testedIdx
      BY <1>10 DEF testedIdx, vars, inputs
    <2>3. ProbeInv' /\ HoleInv' /\ BudgetInv' /\ OutcomeInv'
      BY <1>10, <2>2 DEF IInv, ProbeInv, HoleInv, BudgetInv, OutcomeInv,
                         vars, inputs, window
    <2>4. NeverMeasuredTwice' /\ OverBudgetOnlyPastHoles'
      BY <1>10 DEF IInv, NeverMeasuredTwice, OverBudgetOnlyPastHoles, vars, inputs
    <2>5. QED
      BY <2>1, <2>3, <2>4 DEF IInv
  <1>11. QED
    BY <1>1, <1>2, <1>3, <1>4, <1>5, <1>6, <1>7, <1>8, <1>9, <1>10 DEF Next

\* The inductive invariant holds in every reachable state of the search.
LEMMA Invariance ==
  Spec => []IInv
  <1>1. Init => IInv
    BY InitIInv
  <1>2. IInv /\ [Next]_vars => IInv'
    BY NextIInv
  <1>3. QED
    BY <1>1, <1>2, PTL DEF Spec

-----------------------------------------------------------------------------
(* The theorems.                                                           *)

\* Every variable of the search keeps its type; no index leaves the candidate list.
THEOREM TypeCorrectness ==
  Spec => []TypeOK
  <1>1. IInv => TypeOK
    BY DEF IInv
  <1>2. QED
    BY <1>1, Invariance, PTL

\* Before the search ends nothing is reported.
LEMMA SearchingReportsNothing ==
  /\ Searching.status = "searching"
  /\ Searching.narrowed = {}
  BY DEF Searching

\* Whenever every measurement told the truth, a completed search names the true first
\* bad commit and every reported interval contains it (engine._bisect_search).
THEOREM Localisation ==
  Spec => []ReportLocatesFirstBad
  <1>1. IInv => ReportLocatesFirstBad
    <2> SUFFICES ASSUME IInv, Trustworthy
                 PROVE  /\ outcome.status \in {"completed", "completed_with_holes"} =>
                             outcome.suspected = {firstBad}
                        /\ \A r \in outcome.narrowed :
                             r.lastGood < firstBad /\ firstBad <= r.firstBad
      BY DEF ReportLocatesFirstBad
    <2>1. /\ firstBad \in 0 .. n - 1
          /\ lastGood \in -1 .. n - 2 /\ bestBad \in 0 .. n - 1
          /\ n \in Nat \ {0}
      BY LengthsAssumption DEF IInv, TypeOK
    <2>2. lastGood < firstBad /\ firstBad <= bestBad
      <3>1. lastGood # -1 => lastGood \in 0 .. n - 1 /\ answer[lastGood] = "GOOD"
        BY <2>1 DEF IInv, BoundInv
      <3>2. bestBad # n - 1 => answer[bestBad] = "BAD"
        BY DEF IInv, BoundInv
      <3>3. QED
        BY <2>1, <3>1, <3>2 DEF Trustworthy
    <2>3. CASE pc = "done"
      <3>1. outcome.status \in {"completed", "completed_with_holes"} =>
              bestBad = lastGood + 1 /\ outcome.suspected = {bestBad}
        BY <2>3 DEF IInv, OutcomeInv
      <3>2. bestBad = lastGood + 1 => firstBad = bestBad
        BY <2>1, <2>2
      <3>3. \A r \in outcome.narrowed : r.lastGood = lastGood /\ r.firstBad = bestBad
        BY <2>3 DEF IInv, OutcomeInv
      <3>4. QED
        BY <2>2, <3>1, <3>2, <3>3
    <2>4. CASE pc # "done"
      BY <2>4, SearchingReportsNothing DEF IInv, OutcomeInv
    <2>5. QED
      BY <2>3, <2>4
  <1>2. QED
    BY <1>1, Invariance, PTL

\* A search that gives up among holes has tried every commit between its bounds.
THEOREM ExhaustiveSurrender ==
  Spec => []GivingUpIsExhaustive
  <1>1. IInv => GivingUpIsExhaustive
    <2> SUFFICES ASSUME IInv, outcome.status = "inconclusive_holes"
                 PROVE  \E r \in outcome.narrowed :
                          /\ r.between = r.lastGood + 1 .. r.firstBad - 1
                          /\ r.between # {}
      BY DEF GivingUpIsExhaustive
    <2>1. pc = "done"
      BY SearchingReportsNothing DEF IInv, OutcomeInv
    <2>2. PICK r \in outcome.narrowed : TRUE
      BY <2>1 DEF IInv, OutcomeInv
    <2>3. QED
      BY <2>1, <2>2 DEF IInv, OutcomeInv
  <1>2. QED
    BY <1>1, Invariance, PTL

\* No commit is measured twice, whatever the answers.
THEOREM NoRepeatedMeasurement ==
  Spec => []NeverMeasuredTwice
  <1>1. IInv => NeverMeasuredTwice
    BY DEF IInv
  <1>2. QED
    BY <1>1, Invariance, PTL

\* Measurements beyond --max_tests only ever continue a walk around holes.
THEOREM BudgetOverrunIsHoleWalk ==
  Spec => []OverBudgetOnlyPastHoles
  <1>1. IInv => OverBudgetOnlyPastHoles
    BY DEF IInv
  <1>2. QED
    BY <1>1, Invariance, PTL

\* The branch of _bisect_search that returns completed_with_holes is dead code.
THEOREM CompletedWithHolesIsDead ==
  Spec => []NeverCompletedWithHoles
  <1>1. IInv => NeverCompletedWithHoles
    BY SearchingReportsNothing DEF IInv, TypeOK, OutcomeInv, NeverCompletedWithHoles
  <1>2. QED
    BY <1>1, Invariance, PTL

-----------------------------------------------------------------------------
(* The search implements IntervalNarrowing.                                *)

\* The refinement mapping yields a claim of the abstract specification.
LEMMA ClaimValues ==
  /\ outcome.status = "searching" => Claim = "open"
  /\ outcome.status = "completed" => Claim = "exact"
  /\ outcome.status = "inconclusive_holes" => Claim = "bracket"
  /\ outcome.status \in {"inconclusive", "unsupported_tooling_contract"} =>
       Claim = "stopped"
  BY DEF Claim

\* A step of the search is a step of the abstract narrowing or leaves it unchanged.
LEMMA StepRefines ==
  ASSUME IInv, IInv', [Next]_vars
  PROVE  [Narrowing!Next]_(Narrowing!vars)
  <1> USE DEF Narrowing!Next, Narrowing!vars
  <1>1. /\ lastGood \in Int /\ bestBad \in Int
        /\ low = lastGood + 1 /\ high = bestBad - 1
    BY IndexTypes
  <1>2. pc # "done" => Claim = "open"
    BY ClaimValues, SearchingReportsNothing DEF IInv, OutcomeInv
  <1>3. pc' # "done" => Claim' = "open"
    <2>1. pc' # "done" => outcome'.status = "searching"
      BY SearchingReportsNothing DEF IInv, OutcomeInv
    <2>2. QED
      BY <2>1 DEF Claim
  <1>4. pc = "inner" /\ probe # NoIndex => probe \in lastGood + 1 .. bestBad - 1
    BY <1>1 DEF IInv, ProbeInv
  <1>5. CASE StopAtBudget
    <2>1. Claim' = "stopped" /\ pc # "done"
      BY <1>5 DEF StopAtBudget, Return, Outcome, Claim
    <2>2. bestBad > lastGood + 1
      BY <1>1, <1>5 DEF StopAtBudget, WindowOpen
    <2>3. Narrowing!Stop
      BY <1>2, <1>5, <2>1, <2>2 DEF Narrowing!Stop, StopAtBudget, window
    <2>4. QED
      BY <2>3
  <1>6. CASE ChooseProbe
    <2>1. pc # "done" /\ pc' # "done"
      BY <1>6 DEF ChooseProbe
    <2>2. QED
      BY <1>2, <1>3, <1>6, <2>1 DEF ChooseProbe, window
  <1>7. CASE RecordGood
    <2>1. pc = "inner" /\ probe # NoIndex /\ pc' = "outer"
      BY <1>7 DEF RecordGood, Evaluate
    <2>2. Narrowing!RaiseLow
      BY <1>2, <1>3, <1>4, <1>7, <2>1 DEF Narrowing!RaiseLow, RecordGood
    <2>3. QED
      BY <2>2
  <1>8. CASE RecordBad
    <2>1. pc = "inner" /\ probe # NoIndex /\ pc' = "outer"
      BY <1>8 DEF RecordBad, Evaluate
    <2>2. Narrowing!LowerHigh
      BY <1>2, <1>3, <1>4, <1>8, <2>1 DEF Narrowing!LowerHigh, RecordBad
    <2>3. QED
      BY <2>2
  <1>9. CASE StopUnclear
    <2>1. pc = "inner" /\ probe # NoIndex /\ Claim' = "stopped"
      BY <1>9 DEF StopUnclear, Evaluate, Return, Outcome, Claim
    <2>2. bestBad > lastGood + 1
      BY <1>1, <1>4, <2>1
    <2>3. Narrowing!Stop
      BY <1>2, <1>9, <2>1, <2>2 DEF Narrowing!Stop, StopUnclear, window
    <2>4. QED
      BY <2>3
  <1>10. CASE RecordHole
    <2>1. pc = "inner" /\ pc' = "inner"
      BY <1>10 DEF RecordHole, Evaluate
    <2>2. QED
      BY <1>2, <1>3, <1>10, <2>1 DEF RecordHole, window
  <1>11. CASE StopUnsupportedTooling
    <2>1. pc = "inner" /\ probe # NoIndex /\ Claim' = "stopped"
      BY <1>11 DEF StopUnsupportedTooling, Evaluate, Return, Outcome, Claim
    <2>2. bestBad > lastGood + 1
      BY <1>1, <1>4, <2>1
    <2>3. Narrowing!Stop
      BY <1>2, <1>11, <2>1, <2>2 DEF Narrowing!Stop, StopUnsupportedTooling, window
    <2>4. QED
      BY <2>3
  <1>12. CASE StopAllHoles
    <2>1. pc = "inner" /\ Claim' = "bracket"
      BY <1>12 DEF StopAllHoles, Return, Outcome, Claim
    <2>2. bestBad > lastGood + 1
      BY <1>1, <2>1 DEF IInv, ProbeInv
    <2>3. Narrowing!ClaimBracket
      BY <1>2, <1>12, <2>1, <2>2 DEF Narrowing!ClaimBracket, StopAllHoles, window
    <2>4. QED
      BY <2>3
  <1>13. CASE Finish
    <2>1. pc = "outer" /\ Claim' = "exact"
      BY <1>13 DEF Finish, Return, Outcome, Claim
    <2>2. bestBad = lastGood + 1
      BY <1>1, <1>13 DEF Finish, WindowOpen, IInv, WindowInv
    <2>3. Narrowing!ClaimExact
      BY <1>2, <1>13, <2>1, <2>2 DEF Narrowing!ClaimExact, Finish, window
    <2>4. QED
      BY <2>3
  <1>14. CASE UNCHANGED vars
    BY <1>14 DEF vars, window, Claim
  <1>15. QED
    BY <1>5, <1>6, <1>7, <1>8, <1>9, <1>10, <1>11, <1>12, <1>13, <1>14 DEF Next

\* The search moves its bounds only to commits strictly between them, says completed
\* only when they are neighbours, and stops early only while they are not.
THEOREM Refinement ==
  Spec => RefinesNarrowing
  <1>1. Init => Narrowing!Init
    <2> SUFFICES ASSUME Init
                 PROVE  Narrowing!Init
      OBVIOUS
    <2>1. Claim = "open"
      BY ClaimValues, SearchingReportsNothing DEF Init
    <2>2. \E k \in Lengths : bestBad = k - 1
      BY DEF Init
    <2>3. QED
      BY <2>1, <2>2 DEF Init, Narrowing!Init
  <1>2. IInv /\ IInv' /\ [Next]_vars => [Narrowing!Next]_(Narrowing!vars)
    BY StepRefines
  <1>3. QED
    BY <1>1, <1>2, Invariance, PTL DEF Spec, Narrowing!Spec, RefinesNarrowing

-----------------------------------------------------------------------------
(* Medians.                                                                *)

\* A non-empty sequence of naturals has a largest element.
LEMMA SequenceHasLargest ==
  ASSUME NEW s \in Seq(Nat), Len(s) >= 1
  PROVE  \E i \in 1 .. Len(s) : \A j \in 1 .. Len(s) : s[j] <= s[i]
  <1> DEFINE HasLargest(m) == \E i \in 1 .. m : \A j \in 1 .. m : s[j] <= s[i]
             Counterexamples == {m \in 1 .. Len(s) : ~HasLargest(m)}
  <1>1. Len(s) \in Nat /\ Len(s) \in 1 .. Len(s)
    OBVIOUS
  <1>2. \A j \in 1 .. Len(s) : s[j] \in Nat
    OBVIOUS
  <1>3. /\ Counterexamples \in SUBSET Nat
        /\ \A m \in Counterexamples : m \in 1 .. Len(s) /\ ~HasLargest(m)
        /\ \A m \in 1 .. Len(s) : m \in Counterexamples \/ HasLargest(m)
    <2> HIDE DEF HasLargest
    <2>1. QED
      BY <1>1
  <1> HIDE DEF Counterexamples
  <1>4. ASSUME Counterexamples # {}
        PROVE  FALSE
    <2> DEFINE m == SmallestOf(Counterexamples)
    <2>1. m \in Counterexamples /\ \A k \in Counterexamples : m <= k
      BY <1>3, <1>4, SmallestOfIsLeast
    <2> HIDE DEF m
    <2>2. m \in 1 .. Len(s) /\ ~HasLargest(m)
      BY <1>3, <2>1, Zenon
    <2>3. m # 1
      <3>1. s[1] \in Nat
        BY <1>2, <2>2
      <3>2. HasLargest(1)
        BY <3>1
      <3>3. QED
        BY <2>2, <3>2, Zenon
    <2>4. m - 1 \in 1 .. Len(s) /\ ~(m <= m - 1)
      BY <1>1, <2>2, <2>3
    <2>5. HasLargest(m - 1)
      <3> HIDE DEF HasLargest
      <3>1. QED
        BY <1>3, <2>1, <2>4
    <2>6. PICK i \in 1 .. m - 1 : \A j \in 1 .. m - 1 : s[j] <= s[i]
      BY <2>5
    <2>7. /\ i \in 1 .. m /\ i \in 1 .. Len(s) /\ m \in 1 .. m
          /\ \A j \in 1 .. m : j \in 1 .. Len(s) /\ (j = m \/ j \in 1 .. m - 1)
      <3> HIDE DEF HasLargest
      <3>1. m \in Nat /\ 1 <= m /\ m <= Len(s) /\ i \in Nat /\ 1 <= i /\ i <= m - 1
        BY <1>1, <2>2, <2>6
      <3>2. QED
        BY <1>1, <3>1
    <2>8. s[i] \in Nat /\ s[m] \in Nat /\ \A j \in 1 .. m : s[j] \in Nat
      BY <1>2, <2>2, <2>7
    <2>9. CASE s[m] <= s[i]
      <3>1. \A j \in 1 .. m : s[j] <= s[i]
        BY <2>6, <2>7, <2>9, Zenon
      <3>2. QED
        BY <2>2, <2>7, <3>1
    <2>10. CASE ~(s[m] <= s[i])
      <3>1. \A j \in 1 .. m - 1 : s[j] <= s[m]
        <4>1. \A j \in 1 .. m - 1 : j \in 1 .. m
          BY <2>2
        <4>2. QED
          BY <2>6, <2>8, <2>10, <4>1
      <3>2. \A j \in 1 .. m : s[j] <= s[m]
        BY <2>7, <2>8, <3>1
      <3>3. QED
        BY <2>2, <2>7, <3>2
    <2>11. QED
      BY <2>9, <2>10
  <1>5. HasLargest(Len(s))
    <2> HIDE DEF HasLargest
    <2>1. QED
      BY <1>1, <1>3, <1>4
  <1>6. QED
    BY <1>5

\* The k-th of the sorted samples is one of the samples.
LEMMA KthSmallestIsASample ==
  ASSUME NEW s \in Seq(Nat), NEW k \in 1 .. Len(s)
  PROVE  \E i \in 1 .. Len(s) : KthSmallest(s, k) = s[i]
  <1> DEFINE UpTo(v) == {i \in DOMAIN s : s[i] <= v}
             Enough == {v \in Range(s) : k <= Cardinality(UpTo(v))}
  <1>1. DOMAIN s = 1 .. Len(s) /\ Len(s) \in Nat /\ Len(s) >= 1
    OBVIOUS
  <1>2. PICK top \in 1 .. Len(s) : \A j \in 1 .. Len(s) : s[j] <= s[top]
    BY <1>1, SequenceHasLargest
  <1>3. UpTo(s[top]) = 1 .. Len(s)
    BY <1>1, <1>2
  <1>4. Cardinality(1 .. Len(s)) = Len(s)
    <2>1. 1 \in Int /\ Len(s) \in Int /\ ~(1 > Len(s)) /\ Len(s) - 1 + 1 = Len(s)
      BY <1>1
    <2>2. QED
      BY <2>1, FS_Interval
  <1>5. s[top] \in Enough
    <2>1. s[top] \in Range(s)
      BY <1>1, <1>2 DEF Range
    <2>2. k <= Cardinality(UpTo(s[top]))
      <3> HIDE DEF UpTo
      <3>1. QED
        BY <1>1, <1>3, <1>4
    <2>3. QED
      BY <2>1, <2>2
  <1>6. Enough \in SUBSET Nat
    BY <1>1 DEF Range
  <1>7. \E v \in Enough : \A w \in Enough : v <= w
    <2> HIDE DEF Enough
    <2>1. QED
      BY <1>5, <1>6, SmallestOfIsLeast
  <1>8. KthSmallest(s, k) \in Enough
    <2>1. KthSmallest(s, k) = CHOOSE v \in Enough : \A w \in Enough : v <= w
      BY DEF KthSmallest, Min
    <2> HIDE DEF Enough
    <2>2. QED
      BY <1>7, <2>1
  <1>9. QED
    BY <1>1, <1>8 DEF Range

\* statistics.median lies between the smallest and the largest sample (doubled here).
THEOREM MedianIsBetween ==
  ASSUME NEW s \in Seq(Nat), Len(s) >= 1, NEW lo \in Nat, NEW hi \in Nat,
         \A i \in 1 .. Len(s) : lo <= s[i] /\ s[i] <= hi
  PROVE  Median2(s) \in 2 * lo .. 2 * hi
  <1>1. /\ (Len(s) + 1) \div 2 \in 1 .. Len(s)
        /\ Len(s) \div 2 + 1 \in 1 .. Len(s)
    OBVIOUS
  <1>2. PICK i \in 1 .. Len(s) : KthSmallest(s, (Len(s) + 1) \div 2) = s[i]
    BY <1>1, KthSmallestIsASample
  <1>3. PICK j \in 1 .. Len(s) : KthSmallest(s, Len(s) \div 2 + 1) = s[j]
    BY <1>1, KthSmallestIsASample
  <1>4. Median2(s) = s[i] + s[j]
    BY <1>2, <1>3 DEF Median2
  <1>5. s[i] \in Nat /\ s[j] \in Nat
    OBVIOUS
  <1>6. QED
    BY <1>4, <1>5

\* The median of naturals, doubled, is a natural.
LEMMA MedianType ==
  ASSUME NEW s \in Seq(Nat), Len(s) >= 1
  PROVE  Median2(s) \in Nat
  <1>1. PICK top \in 1 .. Len(s) : \A j \in 1 .. Len(s) : s[j] <= s[top]
    BY SequenceHasLargest
  <1>2. \A i \in 1 .. Len(s) : s[i] \in Nat /\ 0 <= s[i] /\ s[i] <= s[top]
    BY <1>1
  <1>3. Median2(s) \in 2 * 0 .. 2 * s[top]
    BY <1>1, <1>2, MedianIsBetween
  <1>4. QED
    BY <1>2, <1>3

\* Any function on 1 .. k is a sequence.
LEMMA IsASeq ==
  \A S, k, f : k \in Nat /\ f \in [1 .. k -> S] => f \in Seq(S) /\ Len(f) = k
  OBVIOUS

\* A summary of naturals: its spread is a fraction of naturals, infinite when den is 0.
LEMMA SummaryType ==
  ASSUME NEW s \in Seq(Nat), Len(s) >= 1
  PROVE  IsSummary(Summary(s))
  <1>1. Median2(s) \in Nat
    BY MedianType
  <1>2. Deviation4(s, Median2(s)) \in Nat
    <2> DEFINE m == Median2(s)
               d == [i \in DOMAIN s |-> IF 2 * s[i] < m THEN m - 2 * s[i] ELSE 2 * s[i] - m]
    <2>1. \A i \in 1 .. Len(s) : s[i] \in Nat
      OBVIOUS
    <2>2. d \in Seq(Nat) /\ Len(d) = Len(s)
      <3>1. DOMAIN s = 1 .. Len(s) /\ Len(s) \in Nat
        OBVIOUS
      <3>2. \A i \in 1 .. Len(s) :
              (IF 2 * s[i] < m THEN m - 2 * s[i] ELSE 2 * s[i] - m) \in Nat
        <4> HIDE DEF m
        <4>1. m \in Nat
          BY <1>1 DEF m
        <4>2. QED
          BY <2>1, <4>1
      <3> HIDE DEF m
      <3>3. d \in [1 .. Len(s) -> Nat]
        BY <3>1, <3>2
      <3>4. QED
        BY <3>1, <3>3, IsASeq
    <2>3. Median2(d) \in Nat
      <3> HIDE DEF d
      <3>1. QED
        BY <2>2, MedianType
    <2>4. QED
      BY <2>3 DEF Deviation4
  <1>3. 7413 * Deviation4(s, Median2(s)) \in Nat /\ 100 * Median2(s) \in Nat
    BY <1>1, <1>2
  <1>4. CASE Median2(s) > 0
    BY <1>1, <1>3, <1>4 DEF Summary, Spread, IsSummary
  <1>5. CASE ~(Median2(s) > 0)
    BY <1>1, <1>5 DEF Summary, Spread, IsSummary, Infinite
  <1>6. QED
    BY <1>4, <1>5

-----------------------------------------------------------------------------
(* Verdicts.                                                               *)

\* The verdict of a commit whose doubled median is median2.
VerdictFor(median2) ==
  Verdict(Regression(median2, good, setting.direction), policy, noise)

\* What a reproduced reference signal says of the references.
LEMMA ReproducedSignal ==
  ASSUME setting \in Settings, IsSummary(good), IsSummary(bad),
         Signal(good, bad, setting.direction, policy) = "reproduced"
  PROVE  /\ good.median2 \in Nat /\ good.median2 > 0
         /\ noise.num \in Nat /\ noise.den \in Nat /\ noise.den > 0
         /\ Loss(bad.median2) * noise.den >= Threshold(policy, noise) * good.median2
         /\ bad.median2 > 0
  <1>1. /\ ~(good.median2 <= 0)
        /\ AtMostPercent(good.spread, policy.maxSpread)
        /\ AtMostPercent(bad.spread, policy.maxSpread)
        /\ Reaches(Regression(bad.median2, good, setting.direction),
                   Threshold(policy, Noise(good, bad)), Noise(good, bad))
    BY DEF Signal
  <1>2. policy \in Policies
    BY SettingsAssumption DEF policy
  <1>3. policy.maxSpread \in Nat
    BY <1>2 DEF Policies
  <1>4. good.spread.den > 0
    <2>1. CASE good.spread.den = 0
      <3>1. good.spread.num = 1 /\ policy.maxSpread * 0 = 0
        BY <2>1, <1>3 DEF IsSummary
      <3>2. QED
        BY <3>1, <2>1, <1>1 DEF AtMostPercent
    <2>2. QED
      BY <2>1 DEF IsSummary
  <1>5. bad.spread.den > 0
    <2>1. CASE bad.spread.den = 0
      <3>1. bad.spread.num = 1 /\ policy.maxSpread * 0 = 0
        BY <2>1, <1>3 DEF IsSummary
      <3>2. QED
        BY <3>1, <2>1, <1>1 DEF AtMostPercent
    <2>2. QED
      BY <2>1 DEF IsSummary
  <1>6. noise = good.spread \/ noise = bad.spread
    BY DEF noise, Noise
  <1>7. noise.num \in Nat /\ noise.den \in Nat /\ noise.den > 0
    BY <1>4, <1>5, <1>6 DEF IsSummary
  <1>8. Loss(bad.median2) * noise.den >= Threshold(policy, noise) * good.median2
    BY <1>1 DEF Reaches, Loss, Regression, noise
  <1>9. QED
    BY <1>1, <1>5, <1>7, <1>8 DEF IsSummary

\* The quantities that the cutoffs are made of are naturals.
LEMMA CutoffTypes ==
  ASSUME setting \in Settings, noise.num \in Nat, noise.den \in Nat
  PROVE  /\ Threshold(policy, noise) \in Nat
         /\ GrayZone(policy, noise) \in Nat
         /\ GrayZone(policy, noise) >= noise.num
         /\ Threshold(policy, noise) >= policy.minRegression * noise.den
         /\ policy.minRegression \in Nat
         /\ BadCutoff(policy, noise) = Threshold(policy, noise) + GrayZone(policy, noise)
         /\ GoodCutoff(policy, noise) \in Nat
         /\ GoodCutoff(policy, noise) = 0 \/
            GoodCutoff(policy, noise) = Threshold(policy, noise) - GrayZone(policy, noise)
  <1>1. /\ policy.minRegression \in Nat /\ policy.grayZone \in Nat
        /\ policy.noiseMultiplier \in Nat
    BY SettingsAssumption DEF policy, Policies
  <1>2. /\ policy.minRegression * noise.den \in Nat
        /\ policy.noiseMultiplier * noise.num \in Nat
        /\ policy.grayZone * noise.den \in Nat
    BY <1>1
  <1>3. /\ Threshold(policy, noise) \in Nat
        /\ Threshold(policy, noise) >= policy.minRegression * noise.den
    BY <1>2 DEF Threshold, Larger
  <1>4. GrayZone(policy, noise) \in Nat /\ GrayZone(policy, noise) >= noise.num
    BY <1>2 DEF GrayZone, Larger
  <1>5. /\ GoodCutoff(policy, noise) \in Nat
        /\ GoodCutoff(policy, noise) = 0 \/
           GoodCutoff(policy, noise) = Threshold(policy, noise) - GrayZone(policy, noise)
    BY <1>3, <1>4 DEF GoodCutoff, Larger
  <1>6. QED
    BY <1>1, <1>3, <1>4, <1>5 DEF BadCutoff

\* The percentage a verdict compares is an integer over a natural.
LEMMA LossType ==
  ASSUME good.median2 \in Nat, NEW m \in Nat
  PROVE  Loss(m) \in Int
  BY DEF Loss, Regression

\* What the verdicts say of the measured value.
LEMMA VerdictMeaning ==
  ASSUME NEW m
  PROVE  /\ VerdictFor(m) = "BAD" =>
              Loss(m) * noise.den >= BadCutoff(policy, noise) * good.median2
         /\ VerdictFor(m) = "GOOD" =>
              /\ ~(Loss(m) * noise.den >= BadCutoff(policy, noise) * good.median2)
              /\ Loss(m) * noise.den <= GoodCutoff(policy, noise) * good.median2
  BY DEF VerdictFor, Verdict, Reaches, Within, Loss, Regression

-----------------------------------------------------------------------------
(* The invariant.                                                          *)

\* Until the references qualify nothing is evaluated; every verdict is the verdict of the
\* recorded value against the one good reference.
ReferenceInv ==
  /\ stage = "search" => Signal(good, bad, setting.direction, policy) = "reproduced"
  /\ stage # "search" => \A i \in 0 .. n - 1 : answer[i] = "untested"

VerdictInv ==
  \A i \in 0 .. n - 1 :
    answer[i] \in {"GOOD", "BAD"} =>
      measured[i] \in Nat /\ VerdictFor(measured[i]) = answer[i]

PairedInv == IInv /\ PairedTypeOK /\ ReferenceInv /\ VerdictInv

\* The invariant holds initially.
LEMMA InitPairedInv ==
  PairedInit => PairedInv
  <1> SUFFICES ASSUME PairedInit
               PROVE  PairedInv
    OBVIOUS
  <1>1. IInv
    BY InitIInv DEF PairedInit
  <1>2. IsSummary(NoSummary)
    BY DEF IsSummary, NoSummary, Infinite
  <1>3. PairedTypeOK
    BY <1>2 DEF PairedInit, PairedTypeOK, NotMeasured
  <1>4. \A i \in 0 .. n - 1 : answer[i] = "untested"
    BY DEF PairedInit, Init
  <1>5. ReferenceInv /\ VerdictInv
    BY <1>4 DEF ReferenceInv, VerdictInv, PairedInit
  <1>6. QED
    BY <1>1, <1>3, <1>5 DEF PairedInv

\* Every step of the bisection is a step of the search, or leaves it alone.
LEMMA PairedStepIsASearchStep ==
  [PairedNext]_pairedVars => [Next]_vars
  <1> SUFFICES ASSUME [PairedNext]_pairedVars
               PROVE  Next \/ UNCHANGED vars
    OBVIOUS
  <1>1. CASE SampleReference
    BY <1>1 DEF SampleReference
  <1>2. CASE SummarizeGoodReference
    BY <1>2 DEF SummarizeGoodReference
  <1>3. CASE SummarizeBadReference
    BY <1>3 DEF SummarizeBadReference
  <1>4. CASE MissReference
    BY <1>4 DEF MissReference
  <1>5. CASE CheckSignal
    BY <1>5 DEF CheckSignal
  <1>6. CASE Walk
    BY <1>6 DEF Walk, Next
  <1>7. CASE SampleCandidate
    BY <1>7 DEF SampleCandidate
  <1>8. CASE ClassifyCandidate
    BY <1>8 DEF ClassifyCandidate, Classify, Next
  <1>9. CASE MissCandidate
    BY <1>9 DEF MissCandidate, Next
  <1>10. CASE UNCHANGED pairedVars
    BY <1>10 DEF pairedVars
  <1>11. QED
    BY <1>1, <1>2, <1>3, <1>4, <1>5, <1>6, <1>7, <1>8, <1>9, <1>10 DEF PairedNext

\* Samples are naturals, and appending one keeps them so.
LEMMA SampleTypes ==
  ASSUME PairedTypeOK, NEW v \in setting.fine \cup setting.slow
  PROVE  /\ Append(values, v) \in Seq(setting.fine \cup setting.slow)
         /\ Append(values, v) \in Seq(Nat)
         /\ Len(Append(values, v)) >= 1
  <1>1. setting.fine \cup setting.slow \subseteq Nat
    BY SettingsAssumption DEF PairedTypeOK
  <1>2. values \in Seq(setting.fine \cup setting.slow)
    BY DEF PairedTypeOK
  <1>3. Append(values, v) \in Seq(setting.fine \cup setting.slow)
        /\ Len(Append(values, v)) = Len(values) + 1 /\ Len(values) \in Nat
    BY <1>2
  <1>4. Append(values, v) \in Seq(Nat)
    BY <1>1, <1>3
  <1>5. QED
    BY <1>3, <1>4

\* Sampling and judging the references keeps the invariant.
LEMMA ReferenceStep ==
  ASSUME PairedInv, UNCHANGED vars,
         SampleReference \/ SummarizeGoodReference \/ SummarizeBadReference
           \/ MissReference \/ CheckSignal
  PROVE  PairedInv'
  <1>1. IInv'
    BY NextIInv DEF PairedInv
  <1>2. stage # "search" /\ \A i \in 0 .. n - 1 : answer[i] = "untested"
    BY DEF PairedInv, ReferenceInv, SampleReference, SamplingReference,
           SummarizeGoodReference, SummarizeBadReference, MissReference, CheckSignal
  <1>3. n' = n /\ answer' = answer
    BY DEF vars, inputs
  <1>4. VerdictInv'
    BY <1>2, <1>3 DEF VerdictInv
  <1>5. ReferenceInv'
    <2>1. \A i \in 0 .. n' - 1 : answer'[i] = "untested"
      BY <1>2, <1>3
    <2>2. stage' = "search" =>
            Signal(good, bad, setting.direction, policy) = "reproduced"
            /\ UNCHANGED <<good, bad, setting>>
      BY <1>2 DEF SampleReference, SummarizeGoodReference, SummarizeBadReference,
                  MissReference, CheckSignal, references, machine
    <2>3. QED
      BY <2>1, <2>2 DEF ReferenceInv, policy
  <1>6. PairedTypeOK'
    <2>1. setting' = setting /\ measured' = measured
      BY DEF SampleReference, SummarizeGoodReference, SummarizeBadReference,
             MissReference, CheckSignal, machine
    <2>2. stage' \in {"good_ref", "bad_ref", "signal", "search", "stopped"}
      BY DEF PairedInv, PairedTypeOK, SampleReference, SummarizeGoodReference,
             SummarizeBadReference, MissReference, CheckSignal, references
    <2>3. ReferenceValues \subseteq setting.fine \cup setting.slow
      BY DEF ReferenceValues
    <2>4. values' \in Seq(setting.fine \cup setting.slow)
      <3>1. CASE SampleReference
        <4>1. PICK v \in ReferenceValues : values' = Append(values, v)
          BY <3>1 DEF SampleReference
        <4>2. QED
          BY <4>1, <2>3, SampleTypes DEF PairedInv
      <3>2. CASE values' = << >>
        BY <3>2
      <3>3. CASE values' = values
        BY <3>3 DEF PairedInv, PairedTypeOK
      <3>4. QED
        BY <3>1, <3>2, <3>3 DEF SummarizeGoodReference, SummarizeBadReference,
                                MissReference, CheckSignal
    <2>5. IsSummary(good)'
      <3>1. CASE SummarizeGoodReference
        <4>1. PICK v \in ReferenceValues : good' = Summary(Append(values, v))
          BY <3>1 DEF SummarizeGoodReference
        <4>2. IsSummary(Summary(Append(values, v)))
          BY <2>3, SampleTypes, SummaryType DEF PairedInv
        <4>3. QED
          BY <4>1, <4>2
      <3>2. CASE good' = good
        BY <3>2 DEF PairedInv, PairedTypeOK, IsSummary
      <3>3. QED
        BY <3>1, <3>2 DEF SampleReference, SummarizeBadReference,
                          MissReference, CheckSignal, references
    <2>6. IsSummary(bad)'
      <3>1. CASE SummarizeBadReference
        <4>1. PICK v \in ReferenceValues : bad' = Summary(Append(values, v))
          BY <3>1 DEF SummarizeBadReference
        <4>2. IsSummary(Summary(Append(values, v)))
          BY <2>3, SampleTypes, SummaryType DEF PairedInv
        <4>3. QED
          BY <4>1, <4>2
      <3>2. CASE bad' = bad
        BY <3>2 DEF PairedInv, PairedTypeOK, IsSummary
      <3>3. QED
        BY <3>1, <3>2 DEF SampleReference, SummarizeGoodReference,
                          MissReference, CheckSignal, references
    <2>7. QED
      BY <2>1, <2>2, <2>4, <2>5, <2>6, <1>3 DEF PairedInv, PairedTypeOK
  <1>7. QED
    BY <1>1, <1>4, <1>5, <1>6 DEF PairedInv

\* What every step of the search itself leaves alone.
LEMMA SearchStep ==
  ASSUME PairedInv, stage = "search", [Next]_vars, UNCHANGED <<machine, references>>
  PROVE  /\ IInv'
         /\ ReferenceInv'
         /\ n' = n
         /\ setting' \in Settings /\ IsSummary(good)' /\ IsSummary(bad)'
         /\ stage' = "search"
         /\ \A m : VerdictFor(m)' = VerdictFor(m)
  <1>1. IInv'
    BY NextIInv DEF PairedInv
  <1>2. /\ setting' = setting /\ good' = good /\ bad' = bad /\ stage' = stage
    BY DEF machine, references
  <1>3. n' = n
    BY DEF Next, vars, inputs, StopAtBudget, ChooseProbe, RecordGood, RecordBad,
           StopUnclear, RecordHole, StopUnsupportedTooling, StopAllHoles, Finish, Evaluate
  <1>4. ReferenceInv'
    BY <1>2 DEF PairedInv, ReferenceInv, policy
  <1>5. IsSummary(good)' /\ IsSummary(bad)'
    BY <1>2 DEF PairedInv, PairedTypeOK, IsSummary
  <1>6. QED
    BY <1>1, <1>2, <1>3, <1>4, <1>5
    DEF PairedInv, PairedTypeOK, VerdictFor, policy, noise

\* Moving between two evaluations, and sampling a candidate, keep the invariant.
LEMMA WalkStep ==
  ASSUME PairedInv, Walk \/ SampleCandidate
  PROVE  PairedInv'
  <1>1. /\ stage = "search" /\ UNCHANGED <<machine, references>>
        /\ measured' = measured /\ answer' = answer
    BY DEF Walk, SampleCandidate, SamplingCandidate, ChooseProbe, StopAtBudget,
           StopAllHoles, Finish, vars
  <1>2. [Next]_vars
    BY PairedStepIsASearchStep DEF PairedNext
  <1>3. /\ IInv' /\ ReferenceInv' /\ n' = n /\ stage' = "search"
        /\ setting' \in Settings /\ IsSummary(good)' /\ IsSummary(bad)'
        /\ \A m : VerdictFor(m)' = VerdictFor(m)
    BY <1>1, <1>2, SearchStep
  <1>4. VerdictInv'
    <2>1. ASSUME NEW i \in 0 .. n' - 1, answer'[i] \in {"GOOD", "BAD"}
          PROVE  measured'[i] \in Nat /\ VerdictFor(measured[i]) = answer'[i]
      BY <1>1, <1>3, <2>1 DEF PairedInv, VerdictInv
    <2>2. \A i \in 0 .. n' - 1 : VerdictFor(measured[i])' = VerdictFor(measured[i])
      BY <1>1, <1>3 DEF VerdictFor, machine, references, policy, noise
    <2>3. QED
      BY <2>1, <2>2 DEF VerdictInv
  <1>5. values' \in Seq(setting'.fine \cup setting'.slow)
    <2>1. setting' = setting
      BY <1>1 DEF machine
    <2>2. CASE values' = values
      BY <2>1, <2>2 DEF PairedInv, PairedTypeOK
    <2>3. CASE SampleCandidate
      <3>1. PICK v \in CandidateValues : values' = Append(values, v)
        BY <2>3 DEF SampleCandidate
      <3>2. v \in setting.fine \cup setting.slow
        BY DEF CandidateValues
      <3>3. QED
        BY <2>1, <3>1, <3>2, SampleTypes DEF PairedInv
    <2>4. QED
      BY <2>2, <2>3 DEF Walk
  <1>6. PairedTypeOK'
    BY <1>1, <1>3, <1>5 DEF PairedInv, PairedTypeOK
  <1>7. QED
    BY <1>3, <1>4, <1>6 DEF PairedInv

\* A hole has no verdict, and no other commit's record changes.
LEMMA MissStep ==
  ASSUME PairedInv, MissCandidate
  PROVE  PairedInv'
  <1>1. /\ stage = "search" /\ UNCHANGED <<machine, references>>
        /\ measured' = measured /\ values' = << >>
    BY DEF MissCandidate, SamplingCandidate
  <1>2. [Next]_vars
    BY PairedStepIsASearchStep DEF PairedNext
  <1>3. /\ IInv' /\ ReferenceInv' /\ n' = n /\ stage' = "search"
        /\ setting' \in Settings /\ IsSummary(good)' /\ IsSummary(bad)'
    BY <1>1, <1>2, SearchStep
  <1>4. PICK a \in {"SKIP", "TOOLING"} : Evaluate(a) /\ skipped \subseteq skipped'
    BY DEF MissCandidate, RecordHole, StopUnsupportedTooling
  <1>5. /\ answer'[probe] = a
        /\ \A i \in 0 .. n - 1 : i # probe => answer'[i] = answer[i]
    <2>1. a \in Answers
      BY DEF Answers
    <2>2. QED
      BY <2>1, <1>4, EvaluateStep DEF PairedInv
  <1>6. VerdictInv'
    <2>1. ASSUME NEW i \in 0 .. n' - 1, answer'[i] \in {"GOOD", "BAD"}
          PROVE  measured'[i] \in Nat /\ VerdictFor(measured[i]) = answer'[i]
      <3>1. i # probe /\ answer'[i] = answer[i]
        BY <1>3, <1>4, <1>5, <2>1
      <3>2. QED
        BY <1>1, <1>3, <2>1, <3>1 DEF PairedInv, VerdictInv
    <2>2. \A i \in 0 .. n' - 1 : VerdictFor(measured[i])' = VerdictFor(measured[i])
      BY <1>1, <1>3 DEF VerdictFor, machine, references, policy, noise
    <2>3. QED
      BY <2>1, <2>2 DEF VerdictInv
  <1>7. PairedTypeOK'
    BY <1>1, <1>3 DEF PairedInv, PairedTypeOK
  <1>8. QED
    BY <1>3, <1>6, <1>7 DEF PairedInv

\* The recorded value of a commit is the one its verdict was reached with.
LEMMA ClassifyStep ==
  ASSUME PairedInv, ClassifyCandidate
  PROVE  PairedInv'
  <1>1. /\ stage = "search" /\ UNCHANGED <<machine, references>> /\ values' = << >>
    BY DEF ClassifyCandidate, SamplingCandidate
  <1>2. [Next]_vars
    BY PairedStepIsASearchStep DEF PairedNext
  <1>3. /\ IInv' /\ ReferenceInv' /\ n' = n /\ stage' = "search"
        /\ setting' \in Settings /\ IsSummary(good)' /\ IsSummary(bad)'
    BY <1>1, <1>2, SearchStep
  <1>4. PICK v \in CandidateValues : Classify(Append(values, v))
    BY DEF ClassifyCandidate
  <1> DEFINE m == Median2(Append(values, v))
  <1>5. m \in Nat
    <2>1. v \in setting.fine \cup setting.slow
      BY DEF CandidateValues
    <2>2. QED
      BY <2>1, SampleTypes, MedianType DEF PairedInv
  <1>6. PICK a \in {"GOOD", "BAD", "UNCLEAR"} :
          Evaluate(a) /\ VerdictFor(m) = a /\ skipped' = skipped
    BY <1>4 DEF Classify, VerdictOf, VerdictFor, RecordGood, RecordBad, StopUnclear
  <1>7. measured' = [measured EXCEPT ![probe] = m]
    BY <1>4 DEF Classify
  <1> HIDE DEF m
  <1>8. /\ answer'[probe] = a /\ probe \in 0 .. n - 2 /\ n \in Nat
        /\ \A i \in 0 .. n - 1 : i # probe => answer'[i] = answer[i]
    <2>1. a \in Answers
      BY DEF Answers
    <2>2. QED
      BY <2>1, <1>6, EvaluateStep DEF PairedInv
  <1>9. /\ measured' \in [0 .. n - 1 -> Nat \cup {NotMeasured}]
        /\ measured'[probe] = m
        /\ \A i \in 0 .. n - 1 : i # probe => measured'[i] = measured[i]
    BY <1>5, <1>7, <1>8 DEF PairedInv, PairedTypeOK
  <1>10. VerdictInv'
    <2>1. ASSUME NEW i \in 0 .. n' - 1, answer'[i] \in {"GOOD", "BAD"}
          PROVE  measured'[i] \in Nat /\ VerdictFor(measured'[i]) = answer'[i]
      <3>1. CASE i = probe
        <4>1. measured[i]' = m /\ answer'[i] = a
          BY <3>1, <1>8, <1>9
        <4>2. QED
          BY <4>1, <1>5, <1>6
      <3>2. CASE i # probe
        <4>1. measured[i]' = measured[i] /\ answer'[i] = answer[i]
          BY <3>2, <1>3, <1>8, <1>9
        <4>2. QED
          BY <4>1, <1>3, <2>1 DEF PairedInv, VerdictInv
      <3>3. QED
        BY <3>1, <3>2
    <2>2. \A i \in 0 .. n' - 1 : VerdictFor(measured[i])' = VerdictFor(measured'[i])
      BY <1>1 DEF VerdictFor, machine, references, policy, noise
    <2>3. QED
      BY <2>1, <2>2 DEF VerdictInv
  <1>11. PairedTypeOK'
    BY <1>1, <1>3, <1>9 DEF PairedInv, PairedTypeOK
  <1>12. QED
    BY <1>3, <1>10, <1>11 DEF PairedInv

\* Every step keeps the invariant.
LEMMA PairedInvariance ==
  PairedSpec => []PairedInv
  <1>1. PairedInit => PairedInv
    BY InitPairedInv
  <1>2. PairedInv /\ [PairedNext]_pairedVars => PairedInv'
    <2> SUFFICES ASSUME PairedInv, [PairedNext]_pairedVars
                 PROVE  PairedInv'
      OBVIOUS
    <2>1. CASE SampleReference \/ SummarizeGoodReference \/ SummarizeBadReference
                 \/ MissReference \/ CheckSignal
      <3>1. UNCHANGED vars
        BY <2>1 DEF SampleReference, SummarizeGoodReference, SummarizeBadReference,
                    MissReference, CheckSignal
      <3>2. QED
        BY <2>1, <3>1, ReferenceStep
    <2>2. CASE Walk \/ SampleCandidate
      BY <2>2, WalkStep
    <2>3. CASE ClassifyCandidate
      BY <2>3, ClassifyStep
    <2>4. CASE MissCandidate
      BY <2>4, MissStep
    <2>5. CASE UNCHANGED pairedVars
      <3> USE <2>5 DEF pairedVars, machine, references
      <3>1. IInv'
        BY NextIInv DEF PairedInv
      <3>2. n' = n /\ answer' = answer
        BY DEF vars, inputs
      <3>3. PairedTypeOK' /\ ReferenceInv' /\ VerdictInv'
        BY <3>2 DEF PairedInv, PairedTypeOK, IsSummary, ReferenceInv, VerdictInv,
                    VerdictFor, policy, noise
      <3>4. QED
        BY <3>1, <3>3 DEF PairedInv
    <2>6. QED
      BY <2>1, <2>2, <2>3, <2>4, <2>5 DEF PairedNext
  <1>3. QED
    BY <1>1, <1>2, PTL DEF PairedSpec

-----------------------------------------------------------------------------
(* Arithmetic.                                                             *)

\* A product grows with either factor, strictly if the other one is positive.
LEMMA ProductGrows ==
  /\ \A a, b \in Int, c \in Nat : a <= b => a * c <= b * c
  /\ \A a, b \in Int, c \in Nat : a < b /\ c > 0 => a * c < b * c
  /\ \A a, b \in Int, c \in Nat : a * c < b * c => a < b
  <1>1. \A a, b \in Int, c \in Nat : a <= b => a * c <= b * c
    OBVIOUS
  <1>2. \A a, b \in Int, c \in Nat : a < b /\ c > 0 => a * c < b * c
    OBVIOUS
  <1>3. \A a, b \in Int, c \in Nat : a * c < b * c => a < b
    <2> SUFFICES ASSUME NEW a \in Int, NEW b \in Int, NEW c \in Nat, ~(a < b)
                 PROVE  ~(a * c < b * c)
      OBVIOUS
    <2>1. b <= a
      OBVIOUS
    <2>2. b * c <= a * c /\ a * c \in Int /\ b * c \in Int
      BY <2>1, <1>1
    <2>3. QED
      BY <2>2
  <1>4. QED
    BY <1>1, <1>2, <1>3

\* A difference of losses reaches what lies between the cutoffs they meet.
LEMMA CutoffsApart ==
  ASSUME NEW x \in Int, NEW y \in Int, NEW d \in Nat, NEW g \in Nat,
         NEW upper \in Nat, NEW lower \in Nat, NEW margin \in Nat,
         x * d >= upper * g, y * d <= lower * g, margin <= upper - lower
  PROVE  (x - y) * d >= margin * g
  <1>1. (x - y) * d = x * d - y * d
    OBVIOUS
  <1>2. (upper - lower) * g = upper * g - lower * g
    OBVIOUS
  <1>3. margin * g <= (upper - lower) * g
    BY ProductGrows
  <1>4. /\ x * d \in Int /\ y * d \in Int /\ upper * g \in Int /\ lower * g \in Int
        /\ margin * g \in Int
    OBVIOUS
  <1>5. QED
    BY <1>1, <1>2, <1>3, <1>4

\* The smaller of two naturals.
LEMMA SmallerOfTwo ==
  ASSUME NEW a \in Nat, NEW b \in Nat
  PROVE  Min({a, b}) \in Nat /\ Min({a, b}) <= a /\ Min({a, b}) <= b
  <1>1. \E x \in {a, b} : \A y \in {a, b} : x <= y
    OBVIOUS
  <1>2. Min({a, b}) \in {a, b} /\ \A y \in {a, b} : Min({a, b}) <= y
    BY <1>1 DEF Min
  <1>3. QED
    BY <1>2

-----------------------------------------------------------------------------
(* Theorems.                                                               *)

\* run_local_bisection never leaves its types, whatever is measured.
THEOREM PairedTypeCorrectness ==
  PairedSpec => []PairedTypeOK
  <1>1. PairedInv => PairedTypeOK
    BY DEF PairedInv
  <1>2. QED
    BY <1>1, PairedInvariance, PTL

\* A bisection implements the search of BisectSearch: what is proved of the search for
\* every sequence of answers holds for the answers that measurements give.
THEOREM BisectionImplementsSearch ==
  PairedSpec => Spec
  <1>1. PairedInit => Init
    BY DEF PairedInit
  <1>2. [PairedNext]_pairedVars => [Next]_vars
    BY PairedStepIsASearchStep
  <1>3. QED
    BY <1>1, <1>2, PTL DEF PairedSpec, Spec

\* What the invariant gives of the numbers while the search runs.
LEMMA SearchNumbers ==
  ASSUME PairedInv, stage = "search"
  PROVE  /\ good.median2 \in Nat /\ good.median2 > 0 /\ bad.median2 \in Nat
         /\ noise.num \in Nat /\ noise.den \in Nat /\ noise.den > 0
         /\ Loss(bad.median2) \in Int
         /\ Loss(bad.median2) * noise.den >= Threshold(policy, noise) * good.median2
         /\ Loss(good.median2) = 0
         /\ \A i \in 0 .. n - 1 :
              answer[i] \in {"GOOD", "BAD"} =>
                Loss(measured[i]) \in Int /\ VerdictFor(measured[i]) = answer[i]
  <1>1. /\ good.median2 \in Nat /\ good.median2 > 0
        /\ noise.num \in Nat /\ noise.den \in Nat /\ noise.den > 0
        /\ Loss(bad.median2) * noise.den >= Threshold(policy, noise) * good.median2
    BY ReproducedSignal DEF PairedInv, PairedTypeOK, ReferenceInv
  <1>2. bad.median2 \in Nat
    BY DEF PairedInv, PairedTypeOK, IsSummary
  <1>3. Loss(bad.median2) \in Int
    BY <1>1, <1>2, LossType
  <1>4. Loss(good.median2) = 0
    BY <1>1 DEF Loss, Regression
  <1>5. QED
    BY <1>1, <1>2, <1>3, <1>4, LossType DEF PairedInv, VerdictInv

\* The bounds of the search are commits, or references, that were measured apart.
THEOREM BoundsApart ==
  PairedSpec => []BoundsAreMeasuredApart
  <1>1. PairedInv => BoundsAreMeasuredApart
    <2> SUFFICES ASSUME PairedInv, stage = "search"
                 PROVE  WorseBy(MedianOf(bestBad), MedianOf(lastGood),
                                Min({Threshold(policy, noise), GrayZone(policy, noise)}))
      BY DEF BoundsAreMeasuredApart
    <2> DEFINE T == Threshold(policy, noise)
               G == GrayZone(policy, noise)
               margin == Min({T, G})
               g == good.median2
               d == noise.den
    <2>1. /\ g \in Nat /\ g > 0 /\ d \in Nat /\ d > 0
          /\ Loss(bad.median2) \in Int /\ Loss(bad.median2) * d >= T * g
          /\ Loss(g) = 0
          /\ \A i \in 0 .. n - 1 :
               answer[i] \in {"GOOD", "BAD"} =>
                 Loss(measured[i]) \in Int /\ VerdictFor(measured[i]) = answer[i]
      BY SearchNumbers
    <2>2. /\ T \in Nat /\ G \in Nat
          /\ BadCutoff(policy, noise) = T + G
          /\ GoodCutoff(policy, noise) \in Nat
          /\ GoodCutoff(policy, noise) = 0 \/ GoodCutoff(policy, noise) = T - G
      BY SearchNumbers, CutoffTypes DEF PairedInv, PairedTypeOK
    <2>3. margin \in Nat /\ margin <= T /\ margin <= G
      <3> HIDE DEF T, G
      <3>1. QED
        BY <2>2, SmallerOfTwo
    <2>4. /\ n \in Nat \ {0} /\ lastGood \in -1 .. n - 2 /\ bestBad \in 0 .. n - 1
          /\ lastGood # -1 => answer[lastGood] = "GOOD"
          /\ bestBad # n - 1 => answer[bestBad] = "BAD"
      BY IndexTypes DEF PairedInv, IInv, BoundInv
    <2> HIDE DEF margin, T, G, g, d
    <2>5. \E upper \in {T, T + G} :
            /\ Loss(MedianOf(bestBad)) \in Int
            /\ Loss(MedianOf(bestBad)) * d >= upper * g
      <3>1. CASE bestBad = n - 1
        <4>1. MedianOf(bestBad) = bad.median2
          BY <3>1, <2>4 DEF MedianOf
        <4>2. QED
          BY <4>1, <2>1
      <3>2. CASE bestBad # n - 1
        <4>1. MedianOf(bestBad) = measured[bestBad] /\ answer[bestBad] = "BAD"
          BY <3>2, <2>4 DEF MedianOf
        <4>2. /\ Loss(measured[bestBad]) \in Int
              /\ VerdictFor(measured[bestBad]) = "BAD"
          BY <4>1, <2>1, <2>4
        <4>3. Loss(measured[bestBad]) * d >= (T + G) * g
          BY <4>2, <2>2, VerdictMeaning DEF d, g
        <4>4. QED
          BY <4>1, <4>2, <4>3
      <3>3. QED
        BY <3>1, <3>2
    <2>6. \E lower \in {0, GoodCutoff(policy, noise)} :
            /\ Loss(MedianOf(lastGood)) \in Int
            /\ Loss(MedianOf(lastGood)) * d <= lower * g
      <3>1. CASE lastGood = -1
        <4>1. MedianOf(lastGood) = g
          BY <3>1 DEF MedianOf, g
        <4>2. Loss(MedianOf(lastGood)) = 0 /\ 0 * d <= 0 * g
          BY <4>1, <2>1
        <4>3. QED
          BY <4>2
      <3>2. CASE lastGood # -1
        <4>1. MedianOf(lastGood) = measured[lastGood] /\ answer[lastGood] = "GOOD"
          BY <3>2, <2>4 DEF MedianOf
        <4>2. /\ Loss(measured[lastGood]) \in Int
              /\ VerdictFor(measured[lastGood]) = "GOOD"
          BY <4>1, <2>1, <2>4, <3>2
        <4>3. Loss(measured[lastGood]) * d <= GoodCutoff(policy, noise) * g
          BY <4>2, VerdictMeaning DEF d, g
        <4>4. QED
          BY <4>1, <4>2, <4>3
      <3>3. QED
        BY <3>1, <3>2
    <2>7. PICK upper \in {T, T + G} : /\ Loss(MedianOf(bestBad)) \in Int
                                     /\ Loss(MedianOf(bestBad)) * d >= upper * g
      BY <2>5
    <2>8. PICK lower \in {0, GoodCutoff(policy, noise)} :
            /\ Loss(MedianOf(lastGood)) \in Int
            /\ Loss(MedianOf(lastGood)) * d <= lower * g
      BY <2>6
    <2>9. upper \in Nat /\ lower \in Nat /\ margin <= upper - lower
      BY <2>2, <2>3, <2>7, <2>8
    <2>10. (Loss(MedianOf(bestBad)) - Loss(MedianOf(lastGood))) * d >= margin * g
      BY <2>1, <2>3, <2>7, <2>8, <2>9, CutoffsApart
    <2>11. QED
      BY <2>10 DEF WorseBy, margin, T, G, g, d
  <1>2. QED
    BY <1>1, PairedInvariance, PTL

\* GOOD commits were measured better than BAD ones and than the bad reference.
THEOREM VerdictsOrdered ==
  PairedSpec => []VerdictsFollowMeasurements
  <1>1. PairedInv => VerdictsFollowMeasurements
    <2> SUFFICES ASSUME PairedInv, stage = "search", Threshold(policy, noise) > 0,
                        NEW i \in testedIdx, answer[i] = "GOOD"
                 PROVE  /\ Loss(measured[i]) < Loss(bad.median2)
                        /\ \A j \in testedIdx : answer[j] = "BAD" =>
                             Loss(measured[i]) < Loss(measured[j])
      BY DEF VerdictsFollowMeasurements
    <2> DEFINE T == Threshold(policy, noise)
               G == GrayZone(policy, noise)
               C == GoodCutoff(policy, noise)
               g == good.median2
               d == noise.den
               x == Loss(measured[i])
               b == Loss(bad.median2)
    <2>1. /\ g \in Nat /\ g > 0 /\ d \in Nat /\ d > 0 /\ b \in Int /\ b * d >= T * g
          /\ \A k \in 0 .. n - 1 :
               answer[k] \in {"GOOD", "BAD"} =>
                 Loss(measured[k]) \in Int /\ VerdictFor(measured[k]) = answer[k]
      BY SearchNumbers
    <2>2. /\ T \in Nat /\ G \in Nat /\ C \in Nat
          /\ BadCutoff(policy, noise) = T + G
          /\ C = 0 \/ C = T - G
      BY SearchNumbers, CutoffTypes DEF PairedInv, PairedTypeOK
    <2>3. \A k \in testedIdx : k \in 0 .. n - 1
      BY DEF testedIdx
    <2>4. /\ x \in Int
          /\ ~(x * d >= (T + G) * g)
          /\ x * d <= C * g
      BY <2>1, <2>2, <2>3, VerdictMeaning
    <2> HIDE DEF T, G, C, g, d, x, b
    <2>5. x * d < (T + G) * g
      <3>1. x * d \in Int /\ (T + G) * g \in Int
        BY <2>1, <2>2, <2>4
      <3>2. QED
        BY <3>1, <2>4
    <2>6. x < b
      <3>1. x * d < T * g
        <4>1. CASE G = 0
          BY <4>1, <2>2, <2>5
        <4>2. CASE G # 0
          <5>1. C < T
            BY <4>2, <2>2 DEF T
          <5>2. C * g < T * g
            BY <5>1, <2>1, <2>2, ProductGrows
          <5>3. x * d \in Int /\ C * g \in Int /\ T * g \in Int
            BY <2>1, <2>2, <2>4
          <5>4. QED
            BY <5>2, <5>3, <2>4
        <4>3. QED
          BY <4>1, <4>2
      <3>2. x * d < b * d
        <4>1. x * d \in Int /\ b * d \in Int /\ T * g \in Int
          BY <2>1, <2>2, <2>4
        <4>2. QED
          BY <4>1, <3>1, <2>1
      <3>3. QED
        BY <3>2, <2>1, <2>4, ProductGrows
    <2>7. ASSUME NEW j \in testedIdx, answer[j] = "BAD"
          PROVE  x < Loss(measured[j])
      <3> DEFINE y == Loss(measured[j])
      <3>1. y \in Int /\ y * d >= (T + G) * g
        BY <2>1, <2>2, <2>3, <2>7, VerdictMeaning DEF d, g
      <3> HIDE DEF y
      <3>2. x * d < y * d
        <4>1. x * d \in Int /\ y * d \in Int /\ (T + G) * g \in Int
          BY <3>1, <2>1, <2>2, <2>4
        <4>2. QED
          BY <4>1, <3>1, <2>5
      <3>3. x < y
        BY <3>1, <3>2, <2>1, <2>4, ProductGrows
      <3>4. QED
        BY <3>3 DEF y
    <2>8. QED
      BY <2>6, <2>7 DEF x, b
  <1>2. QED
    BY <1>1, PairedInvariance, PTL

\* A BAD commit is worse than the good reference by more than the references' noise.
THEOREM BadBeyondNoise ==
  PairedSpec => []BadIsBeyondTheNoise
  <1>1. PairedInv => BadIsBeyondTheNoise
    <2> SUFFICES ASSUME PairedInv, stage = "search", policy.minRegression > 0,
                        NEW i \in testedIdx, answer[i] = "BAD"
                 PROVE  Loss(measured[i]) * noise.den > noise.num * good.median2
      BY DEF BadIsBeyondTheNoise
    <2> DEFINE T == Threshold(policy, noise)
               G == GrayZone(policy, noise)
               g == good.median2
               d == noise.den
               x == Loss(measured[i])
    <2>1. /\ g \in Nat /\ g > 0 /\ d \in Nat /\ d > 0 /\ noise.num \in Nat
          /\ \A k \in 0 .. n - 1 :
               answer[k] \in {"GOOD", "BAD"} =>
                 Loss(measured[k]) \in Int /\ VerdictFor(measured[k]) = answer[k]
      BY SearchNumbers
    <2>2. /\ T \in Nat /\ G \in Nat /\ G >= noise.num
          /\ policy.minRegression \in Nat
          /\ T >= policy.minRegression * d
          /\ BadCutoff(policy, noise) = T + G
      BY <2>1, CutoffTypes DEF PairedInv, PairedTypeOK
    <2>3. i \in 0 .. n - 1
      BY DEF testedIdx
    <2>4. x \in Int /\ x * d >= (T + G) * g
      BY <2>1, <2>2, <2>3, VerdictMeaning
    <2> HIDE DEF T, G, g, d, x
    <2>5. T > 0
      <3>1. policy.minRegression * d > 0 /\ policy.minRegression * d \in Nat
        BY <2>1, <2>2
      <3>2. QED
        BY <3>1, <2>2
    <2>6. noise.num < T + G
      BY <2>1, <2>2, <2>5
    <2>7. noise.num * g < (T + G) * g
      BY <2>1, <2>2, <2>6, ProductGrows
    <2>8. x * d > noise.num * g
      <3>1. x * d \in Int /\ noise.num * g \in Int /\ (T + G) * g \in Int
        BY <2>1, <2>2, <2>4
      <3>2. QED
        BY <3>1, <2>4, <2>7
    <2>9. QED
      BY <2>8 DEF x, d, g
  <1>2. QED
    BY <1>1, PairedInvariance, PTL

\* Nothing is searched for with a reference whose runs were dead.
THEOREM AliveReferences ==
  PairedSpec => []ReferencesAreAlive
  <1>1. PairedInv => ReferencesAreAlive
    BY ReproducedSignal
    DEF PairedInv, PairedTypeOK, ReferenceInv, ReferencesAreAlive
  <1>2. QED
    BY <1>1, PairedInvariance, PTL

-----------------------------------------------------------------------------
(* The commit that is named.                                               *)

\* One commit brought the regression into a history that does not change.
HistoryInv == parents \in Histories /\ culprit \in 0 .. n - 1

\* Sets that hold the culprit and, with a commit, its children; the least of them.
Handed(S) == culprit \in S /\ \A i \in 0 .. n - 1 : (\E j \in parents[i] \ {-1} : j \in S) => i \in S
Afflicted == {i \in 0 .. n - 1 : \A S \in SUBSET (0 .. n - 1) : Handed(S) => i \in S}

\* A commit is afflicted by being the culprit or through a parent.
LEMMA AfflictedIsFixpoint ==
  ASSUME HistoryInv, NEW i \in 0 .. n - 1
  PROVE  i \in Afflicted <=> (i = culprit \/ \E j \in parents[i] \ {-1} : j \in Afflicted)
<1>1. Handed(Afflicted)
  BY DEF HistoryInv, Handed, Afflicted
<1>2. ASSUME i \in Afflicted, i # culprit, \A j \in parents[i] \ {-1} : j \notin Afflicted
      PROVE  FALSE
  <2>1. Handed(Afflicted \ {i})
    <3>1. culprit \in Afflicted \ {i}
      BY <1>1, <1>2 DEF Handed
    <3>2. ASSUME NEW k \in 0 .. n - 1, NEW j \in parents[k] \ {-1}, j \in Afflicted \ {i}
          PROVE  k \in Afflicted \ {i}
      BY <1>1, <1>2, <3>2 DEF Handed
    <3> QED BY <3>1, <3>2 DEF Handed
  <2>2. Afflicted \ {i} \in SUBSET (0 .. n - 1)
    BY DEF Afflicted
  <2> QED BY <1>2, <2>1, <2>2 DEF Afflicted
<1> QED BY <1>1, <1>2 DEF Handed

\* The recursive definition of Regressed has a solution, so Regressed is one.
LEMMA RegressedEquation ==
  ASSUME HistoryInv, n \in Nat
  PROVE  \A i \in 0 .. n - 1 :
           Regressed[i] <=> (i = culprit \/ \E j \in parents[i] \ {-1} : Regressed[j])
<1> DEFINE F(h) == [i \in 0 .. n - 1 |-> i = culprit \/ \E j \in parents[i] \ {-1} : h[j]]
           f == [i \in 0 .. n - 1 |-> i \in Afflicted]
<1>1. Regressed = CHOOSE h : h = F(h)
  BY DEF Regressed
<1>2. f = F(f)
  <2>1. ASSUME NEW i \in 0 .. n - 1
        PROVE  (i \in Afflicted) = (i = culprit \/ \E j \in parents[i] \ {-1} : f[j])
    <3>1. \A j \in parents[i] \ {-1} : f[j] = (j \in Afflicted)
      <4>1. \A j \in parents[i] \ {-1} : j \in 0 .. n - 1
        BY DEF HistoryInv, Histories, ParentSets
      <4> QED BY <4>1
    <3> HIDE DEF f
    <3>2. i \in Afflicted <=> (i = culprit \/ \E j \in parents[i] \ {-1} : j \in Afflicted)
      BY AfflictedIsFixpoint
    <3> DEFINE A == i \in Afflicted
               B == i = culprit \/ \E j \in parents[i] \ {-1} : f[j]
    <3>3. A <=> B
      BY <3>1, <3>2
    <3>4. A \in BOOLEAN /\ B \in BOOLEAN
      OBVIOUS
    <3> HIDE DEF A, B
    <3>5. A = B
      BY <3>3, <3>4
    <3> QED BY <3>5 DEF A, B
  <2> QED BY <2>1
<1>3. Regressed = F(Regressed)
  <2> HIDE DEF F, f
  <2> QED BY <1>1, <1>2
<1> QED BY <1>3

\* The median of samples is that of two of them.
LEMMA MedianIsOfTwo ==
  ASSUME NEW s \in Seq(Nat), Len(s) >= 1
  PROVE  \E i, j \in 1 .. Len(s) : Median2(s) = s[i] + s[j]
<1>1. /\ (Len(s) + 1) \div 2 \in 1 .. Len(s)
      /\ Len(s) \div 2 + 1 \in 1 .. Len(s)
  OBVIOUS
<1>2. PICK i \in 1 .. Len(s) : KthSmallest(s, (Len(s) + 1) \div 2) = s[i]
  BY <1>1, KthSmallestIsASample
<1>3. PICK j \in 1 .. Len(s) : KthSmallest(s, Len(s) \div 2 + 1) = s[j]
  BY <1>1, KthSmallestIsASample
<1> QED
  BY <1>2, <1>3 DEF Median2

\* What is half way between two numbers, multiplied out.
LEMMA HalfWay ==
  ASSUME NEW x \in Int, NEW y \in Int, NEW z \in Int, NEW d \in Int, z + z = x + y
  PROVE  2 * (z * d) = x * d + y * d
<1>1. (x + y) * d = x * d + y * d
  OBVIOUS
<1>2. (z + z) * d = z * d + z * d
  OBVIOUS
<1>3. z * d \in Int /\ x * d \in Int /\ y * d \in Int
  OBVIOUS
<1>4. z * d + z * d = x * d + y * d
  BY <1>1, <1>2
<1> QED
  BY <1>3, <1>4

\* Where every single value has one verdict, so has every median of such values.
LEMMA MedianKeepsVerdict ==
  ASSUME PairedInv, stage = "search", NEW V \in SUBSET Nat, NEW s \in Seq(V), Len(s) >= 1,
         NEW a \in {"GOOD", "BAD"}, \A v \in V : VerdictOf(<<v>>) = a
  PROVE  VerdictFor(Median2(s)) = a
<1>1. s \in Seq(Nat) /\ \A i \in 1 .. Len(s) : s[i] \in V
  <2>1. Len(s) \in Nat /\ DOMAIN s = 1 .. Len(s) /\ s \in [1 .. Len(s) -> V]
    OBVIOUS
  <2>2. s \in [1 .. Len(s) -> Nat] /\ \A i \in 1 .. Len(s) : s[i] \in V
    BY <2>1
  <2> QED
    BY <2>1, <2>2, IsASeq
<1>2. PICK i \in 1 .. Len(s), j \in 1 .. Len(s) : Median2(s) = s[i] + s[j]
  BY <1>1, MedianIsOfTwo
<1> DEFINE x == s[i]
           y == s[j]
           g == good.median2
           d == noise.den
           B == BadCutoff(policy, noise) * g
           G == GoodCutoff(policy, noise) * g
<1>3. x \in V /\ y \in V /\ x \in Nat /\ y \in Nat /\ Median2(s) = x + y
  BY <1>1, <1>2
<1>4. ASSUME NEW v \in V PROVE VerdictFor(2 * v) = a
  <2>1. <<v>> \in Seq(Nat) /\ Len(<<v>>) = 1 /\ \A k \in 1 .. Len(<<v>>) : <<v>>[k] = v
    BY <1>4
  <2>2. v \in Nat /\ \A k \in 1 .. Len(<<v>>) : v <= <<v>>[k] /\ <<v>>[k] <= v
    BY <2>1
  <2>3. Median2(<<v>>) \in 2 * v .. 2 * v
    <3> DEFINE t == <<v>>
    <3>1. t \in Seq(Nat) /\ Len(t) >= 1 /\ \A k \in 1 .. Len(t) : v <= t[k] /\ t[k] <= v
      BY <2>1, <2>2
    <3> HIDE DEF t
    <3>2. Median2(t) \in 2 * v .. 2 * v
      BY <2>2, <3>1, MedianIsBetween
    <3> QED
      BY <3>2 DEF t
  <2>4. Median2(<<v>>) = 2 * v
    BY <2>2, <2>3
  <2> QED
    BY <1>4, <2>4 DEF VerdictOf, VerdictFor
<1>5. g \in Nat /\ noise.num \in Nat /\ d \in Nat /\ setting \in Settings
  BY SearchNumbers DEF PairedInv, PairedTypeOK
<1>6. B \in Nat /\ G \in Nat
  <2>1. BadCutoff(policy, noise) \in Nat /\ GoodCutoff(policy, noise) \in Nat
    BY <1>5, CutoffTypes
  <2> QED
    BY <1>5, <2>1
<1>7. \A m : /\ VerdictFor(m) = "BAD" <=> Loss(m) * d >= B
             /\ VerdictFor(m) = "GOOD" <=> ~(Loss(m) * d >= B) /\ Loss(m) * d <= G
  BY DEF VerdictFor, Verdict, Reaches, Within, Loss, Regression
<1> HIDE DEF x, y, d, B, G
<1>8. /\ 2 * x \in Nat /\ 2 * y \in Nat /\ x + y \in Nat
      /\ Loss(2 * x) \in Int /\ Loss(2 * y) \in Int /\ Loss(x + y) \in Int
  <2>1. 2 * x \in Nat /\ 2 * y \in Nat /\ x + y \in Nat
    BY <1>3
  <2> QED
    BY <1>5, <2>1, LossType
<1> HIDE DEF g
<1>9. 2 * Loss(x + y) = Loss(2 * x) + Loss(2 * y)
  <2>1. \A m : Loss(m) = 100 * (IF setting.direction = "decrease" THEN g - m ELSE m - g)
    BY DEF Loss, Regression, g
  <2>2. CASE setting.direction = "decrease"
    BY <1>3, <1>5, <2>1, <2>2
  <2>3. CASE setting.direction # "decrease"
    BY <1>3, <1>5, <2>1, <2>3
  <2> QED
    BY <2>2, <2>3
<1>10. 2 * (Loss(x + y) * d) = Loss(2 * x) * d + Loss(2 * y) * d
  <2>1. Loss(x + y) + Loss(x + y) = Loss(2 * x) + Loss(2 * y) /\ d \in Int
    BY <1>5, <1>8, <1>9
  <2> DEFINE p == Loss(2 * x)
             q == Loss(2 * y)
             r == Loss(x + y)
  <2>2. p \in Int /\ q \in Int /\ r \in Int /\ d \in Int /\ r + r = p + q
    BY <1>8, <2>1
  <2> HIDE DEF p, q, r
  <2>3. 2 * (r * d) = p * d + q * d
    BY <2>2, HalfWay
  <2> QED
    BY <2>3 DEF p, q, r
<1>11. Loss(x + y) * d \in Int /\ Loss(2 * x) * d \in Int /\ Loss(2 * y) * d \in Int
  BY <1>5, <1>8
<1>12. CASE a = "BAD"
  <2>1. Loss(2 * x) * d >= B /\ Loss(2 * y) * d >= B
    BY <1>3, <1>4, <1>7, <1>12
  <2>2. Loss(x + y) * d >= B
    BY <1>6, <1>10, <1>11, <2>1
  <2> QED
    BY <1>3, <1>7, <1>12, <2>2
<1>13. CASE a = "GOOD"
  <2>1. /\ ~(Loss(2 * x) * d >= B) /\ Loss(2 * x) * d <= G
        /\ ~(Loss(2 * y) * d >= B) /\ Loss(2 * y) * d <= G
    BY <1>3, <1>4, <1>7, <1>13
  <2>2. ~(Loss(x + y) * d >= B) /\ Loss(x + y) * d <= G
    BY <1>6, <1>10, <1>11, <2>1
  <2> QED
    BY <1>3, <1>7, <1>13, <2>2
<1> QED
  BY <1>12, <1>13

\* Samples are of the commit that is being sampled, and of no other.
SampleInv ==
  /\ stage = "signal" => values = << >>
  /\ stage = "search" =>
       IF SamplingCandidate THEN values \in Seq(CandidateValues) ELSE values = << >>

\* Where single values separate, every verdict is the truth.
TruthInv ==
  stage = "search" /\ Separable =>
    \A i \in 0 .. n - 1 : /\ answer[i] = "GOOD" => ~Regressed[i]
                          /\ answer[i] = "BAD" => Regressed[i]

TrueInv == HistoryInv /\ SampleInv /\ TruthInv

\* The invariant holds initially.
LEMMA InitTrueInv ==
  PairedInit => TrueInv
<1> SUFFICES ASSUME PairedInit PROVE TrueInv
  OBVIOUS
<1> QED
  BY DEF PairedInit, HistoryInit, TrueInv, HistoryInv, SampleInv, TruthInv

\* While the history, the references and the verdicts so far stay, so does what they say.
LEMMA TruthStays ==
  ASSUME PairedInv, TrueInv, n' = n, UNCHANGED <<machine, references>>,
         \A i \in 0 .. n - 1 :
           \/ answer'[i] = answer[i]
           \/ answer'[i] \notin {"GOOD", "BAD"}
           \/ Separable => /\ answer'[i] = "GOOD" => ~Regressed[i]
                           /\ answer'[i] = "BAD" => Regressed[i]
  PROVE  HistoryInv' /\ TruthInv' /\ Regressed' = Regressed
<1>1. /\ n' = n /\ parents' = parents /\ culprit' = culprit /\ setting' = setting
      /\ good' = good /\ bad' = bad /\ stage' = stage
  BY DEF machine, references, historyVars
<1>2. Regressed' = Regressed
  BY <1>1 DEF Regressed
<1>3. HistoryInv'
  BY <1>1 DEF TrueInv, HistoryInv, Histories, ParentSets, OnTheAncestryPath
<1>4. Separable' <=> Separable
  BY <1>1 DEF Separable, VerdictOf, policy, noise
<1>5. TruthInv'
  <2> SUFFICES ASSUME stage = "search", Separable, NEW i \in 0 .. n - 1
               PROVE  /\ answer'[i] = "GOOD" => ~Regressed[i]
                      /\ answer'[i] = "BAD" => Regressed[i]
    BY <1>1, <1>2, <1>4 DEF TruthInv
  <2> QED
    BY DEF TrueInv, TruthInv
<1> QED
  BY <1>2, <1>3, <1>5

\* Every step keeps the verdicts true.
LEMMA TrueStep ==
  PairedInv /\ TrueInv /\ [PairedNext]_pairedVars => TrueInv'
<1> SUFFICES ASSUME PairedInv, TrueInv, [PairedNext]_pairedVars PROVE TrueInv'
  OBVIOUS
<1>1. ASSUME vars' = vars, machine' = machine, stage # "search", stage' # "search",
             stage' = "signal" => values' = << >>
      PROVE  TrueInv'
  <2>1. n' = n /\ parents' = parents /\ culprit' = culprit
    BY <1>1 DEF vars, inputs, machine, historyVars
  <2>2. HistoryInv'
    BY <2>1 DEF TrueInv, HistoryInv, Histories, ParentSets, OnTheAncestryPath
  <2> QED
    BY <1>1, <2>2 DEF TrueInv, SampleInv, TruthInv
<1>2. CASE SampleReference \/ SummarizeGoodReference \/ SummarizeBadReference
             \/ MissReference
  <2>1. /\ vars' = vars /\ machine' = machine /\ stage # "search" /\ stage' # "search"
        /\ stage' = "signal" => values' = << >>
    BY <1>2 DEF SampleReference, SummarizeGoodReference, SummarizeBadReference,
                MissReference, SamplingReference, references
  <2> QED
    BY <1>1, <2>1
<1>3. CASE CheckSignal
  <2>1. /\ vars' = vars /\ machine' = machine /\ stage = "signal" /\ values' = values
        /\ stage' \in {"search", "stopped"}
    BY <1>3 DEF CheckSignal
  <2>2. values' = << >> /\ \A i \in 0 .. n - 1 : answer[i] = "untested"
    BY <2>1 DEF TrueInv, SampleInv, PairedInv, ReferenceInv
  <2>3. n' = n /\ parents' = parents /\ culprit' = culprit /\ answer' = answer
    BY <2>1 DEF vars, inputs, machine, historyVars
  <2>4. HistoryInv'
    BY <2>3 DEF TrueInv, HistoryInv, Histories, ParentSets, OnTheAncestryPath
  <2>5. SampleInv'
    <3>1. << >> \in Seq(CandidateValues')
      OBVIOUS
    <3> QED
      BY <2>1, <2>2, <3>1 DEF SampleInv
  <2>6. TruthInv'
    BY <2>2, <2>3 DEF TruthInv
  <2> QED
    BY <2>4, <2>5, <2>6 DEF TrueInv
<1>4. CASE Walk
  <2>1. /\ stage = "search" /\ UNCHANGED <<machine, references, values>> /\ answer' = answer
        /\ n' = n /\ stage' = stage
    BY <1>4 DEF Walk, ChooseProbe, StopAtBudget, StopAllHoles, Finish, inputs, references
  <2>2. values' = << >>
    <3>1. ~SamplingCandidate
      BY <1>4 DEF Walk, ChooseProbe, StopAtBudget, StopAllHoles, Finish, SamplingCandidate
    <3> QED
      BY <2>1, <3>1 DEF TrueInv, SampleInv
  <2>3. SampleInv'
    <3>1. << >> \in Seq(CandidateValues')
      OBVIOUS
    <3> QED
      BY <2>1, <2>2, <3>1 DEF SampleInv
  <2> QED
    BY <2>1, <2>3, TruthStays DEF TrueInv
<1>5. CASE SampleCandidate
  <2>1. /\ stage = "search" /\ UNCHANGED <<vars, machine, references>> /\ SamplingCandidate
        /\ n' = n /\ stage' = stage /\ answer' = answer /\ pc' = pc /\ probe' = probe
        /\ setting' = setting
    BY <1>5 DEF SampleCandidate, SamplingCandidate, vars, inputs, machine, references
  <2>2. HistoryInv' /\ TruthInv' /\ Regressed' = Regressed
    BY <2>1, TruthStays
  <2>3. values' \in Seq(CandidateValues)
    <3>1. PICK v \in CandidateValues : values' = Append(values, v)
      BY <1>5 DEF SampleCandidate
    <3>2. values \in Seq(CandidateValues)
      BY <2>1 DEF TrueInv, SampleInv
    <3> QED
      BY <3>1, <3>2
  <2>4. CandidateValues' = CandidateValues
    BY <2>1, <2>2 DEF CandidateValues
  <2>5. SampleInv'
    BY <2>1, <2>3, <2>4 DEF SampleInv, SamplingCandidate
  <2> QED
    BY <2>2, <2>5 DEF TrueInv
<1>6. CASE ClassifyCandidate
  <2>1. /\ stage = "search" /\ UNCHANGED <<machine, references>> /\ values' = << >>
        /\ SamplingCandidate /\ stage' = stage
    BY <1>6 DEF ClassifyCandidate, SamplingCandidate, references
  <2>2. PICK v \in CandidateValues : Classify(Append(values, v))
    BY <1>6 DEF ClassifyCandidate
  <2> DEFINE s == Append(values, v)
  <2>3. s \in Seq(CandidateValues) /\ Len(s) >= 1 /\ CandidateValues \in SUBSET Nat
    <3>1. values \in Seq(CandidateValues)
      BY <2>1 DEF TrueInv, SampleInv
    <3>2. CandidateValues \subseteq Nat
      BY SettingsAssumption DEF CandidateValues, PairedInv, PairedTypeOK
    <3> QED
      BY <3>1, <3>2
  <2>4. PICK a \in {"GOOD", "BAD", "UNCLEAR"} :
          Evaluate(a) /\ VerdictFor(Median2(s)) = a /\ skipped' = skipped
    BY <2>2 DEF Classify, VerdictOf, VerdictFor, RecordGood, RecordBad, StopUnclear
  <2> HIDE DEF s
  <2>5. /\ answer'[probe] = a /\ n' = n
        /\ \A i \in 0 .. n - 1 : i # probe => answer'[i] = answer[i]
    <3>1. a \in Answers
      BY DEF Answers
    <3> QED
      BY <2>4, <3>1, EvaluateStep DEF PairedInv
  <2>6. Separable => /\ a = "GOOD" => ~Regressed[probe]
                     /\ a = "BAD" => Regressed[probe]
    <3> SUFFICES ASSUME Separable
                 PROVE  /\ a = "GOOD" => ~Regressed[probe]
                        /\ a = "BAD" => Regressed[probe]
      OBVIOUS
    <3>1. CASE Regressed[probe]
      <4>1. \A w \in CandidateValues : VerdictOf(<<w>>) = "BAD"
        BY <3>1 DEF Separable, CandidateValues
      <4>2. VerdictFor(Median2(s)) = "BAD"
        BY <2>1, <2>3, <4>1, MedianKeepsVerdict
      <4> QED
        BY <2>4, <3>1, <4>2
    <3>2. CASE ~Regressed[probe]
      <4>1. \A w \in CandidateValues : VerdictOf(<<w>>) = "GOOD"
        BY <3>2 DEF Separable, CandidateValues
      <4>2. VerdictFor(Median2(s)) = "GOOD"
        BY <2>1, <2>3, <4>1, MedianKeepsVerdict
      <4> QED
        BY <2>4, <3>2, <4>2
    <3> QED
      BY <3>1, <3>2
  <2>7. HistoryInv' /\ TruthInv'
    BY <2>1, <2>5, <2>6, TruthStays
  <2>8. SampleInv'
    <3>1. << >> \in Seq(CandidateValues')
      OBVIOUS
    <3> QED
      BY <2>1, <3>1 DEF SampleInv
  <2> QED
    BY <2>7, <2>8 DEF TrueInv
<1>7. CASE MissCandidate
  <2>1. /\ stage = "search" /\ UNCHANGED <<machine, references>> /\ values' = << >>
        /\ stage' = stage
    BY <1>7 DEF MissCandidate, SamplingCandidate, references
  <2>2. PICK a \in {"SKIP", "TOOLING"} : Evaluate(a) /\ skipped \subseteq skipped'
    BY <1>7 DEF MissCandidate, RecordHole, StopUnsupportedTooling
  <2>3. /\ answer'[probe] = a /\ n' = n
        /\ \A i \in 0 .. n - 1 : i # probe => answer'[i] = answer[i]
    <3>1. a \in Answers
      BY DEF Answers
    <3> QED
      BY <2>2, <3>1, EvaluateStep DEF PairedInv
  <2>4. HistoryInv' /\ TruthInv'
    BY <2>1, <2>3, TruthStays
  <2>5. SampleInv'
    <3>1. << >> \in Seq(CandidateValues')
      OBVIOUS
    <3> QED
      BY <2>1, <3>1 DEF SampleInv
  <2> QED
    BY <2>4, <2>5 DEF TrueInv
<1>8. CASE UNCHANGED pairedVars
  <2>1. /\ UNCHANGED <<machine, references>> /\ n' = n /\ answer' = answer /\ pc' = pc
        /\ probe' = probe /\ values' = values /\ stage' = stage /\ setting' = setting
    BY <1>8 DEF pairedVars, vars, inputs, machine, references
  <2>2. HistoryInv' /\ TruthInv' /\ Regressed' = Regressed
    BY <2>1, TruthStays
  <2>3. SampleInv'
    BY <2>1, <2>2 DEF TrueInv, SampleInv, SamplingCandidate, CandidateValues
  <2> QED
    BY <2>2, <2>3 DEF TrueInv
<1> QED
  BY <1>2, <1>3, <1>4, <1>5, <1>6, <1>7, <1>8 DEF PairedNext

\* The known-bad commit has the regression: every candidate is one of its ancestors.
LEMMA LastIsRegressed ==
  ASSUME HistoryInv, n \in Nat \ {0}
  PROVE  Regressed[n - 1]
<1> DEFINE Distances == {d \in 0 .. n - 1 : Regressed[n - 1 - d]}
<1>1. \A i \in 0 .. n - 1 :
        Regressed[i] <=> (i = culprit \/ \E j \in parents[i] \ {-1} : Regressed[j])
  BY RegressedEquation
<1>2. culprit \in 0 .. n - 1 /\ Regressed[culprit]
  BY <1>1 DEF HistoryInv
<1>3. n - 1 - culprit \in Distances
  <2>1. n - 1 - culprit \in 0 .. n - 1 /\ n - 1 - (n - 1 - culprit) = culprit
    BY <1>2
  <2> QED
    BY <1>2, <2>1
<1>4. Distances \in SUBSET Nat /\ Distances # {}
  BY <1>3
<1>5. PICK least \in Distances : \A d \in Distances : least <= d
  <2> HIDE DEF Distances
  <2> QED
    BY <1>4, SmallestOfIsLeast
<1>6. least \in 0 .. n - 1 /\ Regressed[n - 1 - least]
  OBVIOUS
<1>7. CASE least = 0
  BY <1>6, <1>7
<1>8. CASE least # 0
  <2> DEFINE i == n - 1 - least
  <2>1. i \in 0 .. n - 2 /\ i # -1
    BY <1>6, <1>8
  <2>2. PICK j \in i + 1 .. n - 1 : i \in parents[j]
    BY <2>1 DEF HistoryInv, Histories, OnTheAncestryPath
  <2>3. Regressed[j]
    <3>1. j \in 0 .. n - 1 /\ i \in parents[j] \ {-1} /\ Regressed[i]
      BY <1>6, <2>1, <2>2
    <3> QED
      BY <1>1, <3>1
  <2>4. n - 1 - j \in 0 .. n - 1 /\ n - 1 - (n - 1 - j) = j /\ n - 1 - j < least
    BY <1>6, <2>1, <2>2
  <2>5. n - 1 - j \in Distances
    BY <2>3, <2>4
  <2> QED
    BY <1>5, <1>6, <2>4, <2>5
<1> QED
  BY <1>7, <1>8

\* For every history, with merges or without: where single values separate, the search
\* names a commit with the regression whose predecessor in the list is without it.
THEOREM RegressionIsNamed ==
  PairedSpec => []NamesTheRegression
<1>1. PairedInv /\ TrueInv => NamesTheRegression
  <2> SUFFICES ASSUME PairedInv, TrueInv, stage = "search", Separable,
                      outcome.status = "completed", NEW s \in outcome.suspected
               PROVE  /\ Regressed[s]
                      /\ s > 0 => ~Regressed[s - 1]
                      /\ Linear => s = culprit
    BY DEF NamesTheRegression
  <2>1. pc = "done"
    <3>1. Searching.status = "searching"
      BY DEF Searching
    <3> QED
      BY <3>1 DEF PairedInv, IInv, OutcomeInv
  <2>2. bestBad = lastGood + 1 /\ s = bestBad
    BY <2>1 DEF PairedInv, IInv, OutcomeInv
  <2>3. /\ n \in Nat \ {0} /\ lastGood \in -1 .. n - 2 /\ bestBad \in 0 .. n - 1
        /\ lastGood # -1 => answer[lastGood] = "GOOD"
        /\ bestBad # n - 1 => answer[bestBad] = "BAD"
    BY IndexTypes DEF PairedInv, IInv, BoundInv
  <2>4. \A i \in 0 .. n - 1 : /\ answer[i] = "GOOD" => ~Regressed[i]
                              /\ answer[i] = "BAD" => Regressed[i]
    BY DEF TrueInv, TruthInv
  <2>5. Regressed[s]
    <3>1. CASE bestBad = n - 1
      BY <2>2, <2>3, <3>1, LastIsRegressed DEF TrueInv
    <3>2. CASE bestBad # n - 1
      BY <2>2, <2>3, <2>4, <3>2
    <3> QED
      BY <3>1, <3>2
  <2>6. s > 0 => ~Regressed[s - 1]
    <3>1. s > 0 => lastGood = s - 1 /\ lastGood \in 0 .. n - 1 /\ lastGood # -1
      BY <2>2, <2>3
    <3> QED
      BY <2>3, <2>4, <3>1
  <2>7. Linear => s = culprit
    <3> SUFFICES ASSUME Linear, s # culprit PROVE FALSE
      OBVIOUS
    <3>1. s \in 0 .. n - 1 /\ parents[s] = {s - 1}
      BY <2>2, <2>3 DEF Linear
    <3>2. \E j \in {s - 1} \ {-1} : Regressed[j]
      BY <2>3, <2>5, <3>1, RegressedEquation DEF TrueInv
    <3>3. s - 1 # -1 /\ Regressed[s - 1]
      BY <3>2
    <3>4. s > 0
      BY <3>1, <3>3
    <3> QED
      BY <2>6, <3>3, <3>4
  <2> QED
    BY <2>5, <2>6, <2>7
<1>2. PairedInv /\ PairedInv' /\ TrueInv /\ [PairedNext]_pairedVars => TrueInv'
  BY TrueStep
<1>3. PairedSpec => []TrueInv
  BY InitTrueInv, PairedInvariance, <1>2, PTL DEF PairedSpec
<1> QED
  BY <1>1, <1>3, PairedInvariance, PTL

-----------------------------------------------------------------------------
(* How many measurements a search without holes takes.                     *)

\* f is base at 0, and elsewhere the step from its value at a smaller argument.
Decreasing(prev) == prev \in [Nat -> Nat] /\ \A k \in Nat \ {0} : prev[k] < k
Recursive(f, S, base, step, prev) ==
  f \in [Nat -> S] /\ \A k \in Nat : f[k] = IF k = 0 THEN base ELSE step[f[prev[k]]]

\* Such a function exists.
LEMMA RecursionHasSolution ==
  ASSUME NEW S, NEW base \in S, NEW step \in [S -> S],
         NEW prev, Decreasing(prev)
  PROVE  \E f : Recursive(f, S, base, step, prev)
<1> USE DEF Decreasing
<1> DEFINE Upto(m, g) ==
             g \in [0 .. m -> S] /\ \A k \in 0 .. m :
               g[k] = IF k = 0 THEN base ELSE step[g[prev[k]]]
<1>1. \A m \in Nat : \E g : Upto(m, g)
  <2> DEFINE Stuck == {m \in Nat : \A g : ~Upto(m, g)}
  <2> SUFFICES ASSUME Stuck # {} PROVE FALSE
    <3> HIDE DEF Upto
    <3> QED OBVIOUS
  <2>1. PICK m \in Stuck : \A k \in Stuck : m <= k
    <3>1. Stuck \in SUBSET Nat
      OBVIOUS
    <3> HIDE DEF Stuck
    <3> QED BY <3>1, SmallestOfIsLeast
  <2>2. CASE m = 0
    <3>1. Upto(0, [k \in 0 .. 0 |-> base])
      OBVIOUS
    <3> QED BY <2>2, <3>1
  <2>3. CASE m # 0
    <3>1. m \in Nat /\ m - 1 \in Nat /\ m - 1 \notin Stuck
      BY <2>1, <2>3
    <3>2. PICK g : Upto(m - 1, g)
      BY <3>1
    <3>3. prev[m] \in 0 .. m - 1 /\ g[prev[m]] \in S /\ step[g[prev[m]]] \in S
      BY <2>3, <3>1, <3>2
    <3> DEFINE h == [k \in 0 .. m |-> IF k = m THEN step[g[prev[m]]] ELSE g[k]]
    <3>4. h \in [0 .. m -> S] /\ h[m] = step[g[prev[m]]] /\ \A k \in 0 .. m - 1 : h[k] = g[k]
      BY <3>1, <3>2, <3>3
    <3> HIDE DEF h
    <3>5. ASSUME NEW k \in 0 .. m
          PROVE  h[k] = IF k = 0 THEN base ELSE step[h[prev[k]]]
      <4>1. k # 0 => prev[k] \in 0 .. m - 1 /\ h[prev[k]] = g[prev[k]]
        <5> SUFFICES ASSUME k # 0 PROVE prev[k] \in 0 .. m - 1 /\ h[prev[k]] = g[prev[k]]
          OBVIOUS
        <5>1. k \in Nat \ {0} /\ k <= m
          BY <3>1
        <5>2. prev[k] \in Nat /\ prev[k] < k
          BY <5>1
        <5>3. prev[k] \in 0 .. m - 1
          BY <3>1, <5>1, <5>2
        <5> QED BY <3>4, <5>3
      <4>2. CASE k = m
        BY <2>3, <3>4, <4>1, <4>2
      <4>3. CASE k # m
        <5>1. k \in 0 .. m - 1
          BY <3>1, <4>3
        <5> QED BY <3>2, <3>4, <4>1, <5>1
      <4> QED BY <4>2, <4>3
    <3> QED BY <2>1, <3>4, <3>5
  <2> QED BY <2>2, <2>3
<1>2. ASSUME NEW m \in Nat, NEW g, Upto(m, g), NEW l \in Nat, NEW h, Upto(l, h), m <= l
      PROVE  \A k \in 0 .. m : g[k] = h[k]
  <2> DEFINE Apart == {k \in 0 .. m : g[k] # h[k]}
  <2> SUFFICES ASSUME Apart # {} PROVE FALSE
    OBVIOUS
  <2>1. PICK k \in Apart : \A j \in Apart : k <= j
    <3>1. Apart \in SUBSET Nat
      OBVIOUS
    <3> HIDE DEF Apart
    <3> QED BY <3>1, SmallestOfIsLeast
  <2>2. k \in 0 .. m /\ k \in 0 .. l /\ g[k] # h[k]
    BY <1>2
  <2>3. k # 0
    BY <1>2, <2>2
  <2>4. prev[k] \in 0 .. m /\ prev[k] < k
    BY <2>2, <2>3
  <2>5. g[prev[k]] = h[prev[k]]
    BY <2>1, <2>2, <2>4
  <2>6. g[k] = step[g[prev[k]]] /\ h[k] = step[h[prev[k]]]
    BY <1>2, <2>2, <2>3
  <2> QED BY <2>2, <2>5, <2>6
<1> DEFINE G(m) == CHOOSE g : Upto(m, g)
           f == [k \in Nat |-> G(k)[k]]
<1>3. \A m \in Nat : Upto(m, G(m))
  <2> HIDE DEF Upto
  <2> QED BY <1>1
<1> HIDE DEF G
<1>4. f \in [Nat -> S]
  BY <1>3
<1>5. ASSUME NEW k \in Nat PROVE f[k] = IF k = 0 THEN base ELSE step[f[prev[k]]]
  <2>1. G(k)[k] = IF k = 0 THEN base ELSE step[G(k)[prev[k]]]
    BY <1>3
  <2>2. k # 0 => G(prev[k])[prev[k]] = G(k)[prev[k]]
    <3> SUFFICES ASSUME k # 0 PROVE G(prev[k])[prev[k]] = G(k)[prev[k]]
      OBVIOUS
    <3>1. prev[k] \in Nat /\ prev[k] <= k /\ prev[k] \in 0 .. prev[k]
      OBVIOUS
    <3>2. Upto(k, G(k)) /\ Upto(prev[k], G(prev[k]))
      BY <1>3, <3>1
    <3> HIDE DEF Upto
    <3> QED BY <1>2, <3>1, <3>2
  <2> QED BY <2>1, <2>2
<1> HIDE DEF f
<1> QED BY <1>4, <1>5 DEF Recursive

\* bitLength is what its recursion says, of every natural.
LEMMA BitLengthEquation ==
  \A k \in Nat : /\ bitLength[k] \in Nat
                 /\ bitLength[k] = IF k = 0 THEN 0 ELSE 1 + bitLength[k \div 2]
<1> DEFINE F(h) == [k \in Nat |-> IF k = 0 THEN 0 ELSE 1 + h[k \div 2]]
           prev == [k \in Nat |-> k \div 2]
           step == [b \in Nat |-> 1 + b]
<1>1. \E f \in [Nat -> Nat] : f = F(f)
  <2>1. step \in [Nat -> Nat] /\ prev \in [Nat -> Nat] /\ \A k \in Nat \ {0} : prev[k] < k
    OBVIOUS
  <2>2. \A k \in Nat, f \in [Nat -> Nat] : prev[k] = k \div 2 /\ step[f[prev[k]]] = 1 + f[k \div 2]
    OBVIOUS
  <2> HIDE DEF prev, step
  <2>3. PICK f \in [Nat -> Nat] :
          \A k \in Nat : f[k] = IF k = 0 THEN 0 ELSE step[f[prev[k]]]
    <3>1. Decreasing(prev) /\ 0 \in Nat
      BY <2>1 DEF Decreasing
    <3>2. \E f : Recursive(f, Nat, 0, step, prev)
      BY <2>1, <3>1, RecursionHasSolution
    <3> QED
      BY <3>2 DEF Recursive
  <2>4. f = F(f)
    BY <2>2, <2>3
  <2> QED
    BY <2>4
<1>2. bitLength = CHOOSE h : h = F(h)
  BY DEF bitLength
<1>3. bitLength = F(bitLength)
  <2> HIDE DEF F
  <2> QED
    BY <1>1, <1>2
<1>4. \A k \in Nat : bitLength[k] = IF k = 0 THEN 0 ELSE 1 + bitLength[k \div 2]
  BY <1>3
<1> DEFINE Odd == {k \in Nat : bitLength[k] \notin Nat}
<1>5. Odd = {}
  <2> SUFFICES ASSUME Odd # {} PROVE FALSE
    OBVIOUS
  <2>1. PICK k \in Odd : \A j \in Odd : k <= j
    <3>1. Odd \in SUBSET Nat
      OBVIOUS
    <3> HIDE DEF Odd
    <3> QED
      BY <3>1, SmallestOfIsLeast
  <2>2. k # 0 /\ k \in Nat
    BY <1>4, <2>1
  <2>3. k \div 2 \in Nat /\ k \div 2 < k
    BY <2>2
  <2>4. bitLength[k \div 2] \in Nat
    BY <2>1, <2>3
  <2> QED
    BY <1>4, <2>1, <2>2, <2>4
<1> QED
  BY <1>4, <1>5

\* A longer window has no fewer bits, and never more bits than commits.
LEMMA BitLengthGrows ==
  /\ \A k \in Nat : bitLength[k] <= k
  /\ \A k, j \in Nat : j <= k => bitLength[j] <= bitLength[k]
<1> DEFINE Odd == {k \in Nat : \/ bitLength[k] > k
                               \/ \E j \in 0 .. k : bitLength[j] > bitLength[k]}
<1>1. Odd = {}
  <2> SUFFICES ASSUME Odd # {} PROVE FALSE
    OBVIOUS
  <2>1. PICK k \in Odd : \A j \in Odd : k <= j
    <3>1. Odd \in SUBSET Nat
      OBVIOUS
    <3> HIDE DEF Odd
    <3> QED
      BY <3>1, SmallestOfIsLeast
  <2>2. k \in Nat /\ bitLength[k] \in Nat /\ bitLength[0] = 0
    BY BitLengthEquation
  <2>3. k # 0
    BY <2>1, <2>2
  <2> DEFINE h == k \div 2
  <2>4. h \in Nat /\ h < k /\ 1 + h <= k
    BY <2>2, <2>3
  <2>5. bitLength[k] = 1 + bitLength[h] /\ bitLength[h] \in Nat
    BY <2>2, <2>3, <2>4, BitLengthEquation
  <2>6. bitLength[h] <= h /\ \A j \in 0 .. h : bitLength[j] <= bitLength[h]
    <3>1. h \notin Odd
      BY <2>1, <2>2, <2>4
    <3>2. \A j \in 0 .. h : bitLength[j] \in Nat
      BY <2>4, BitLengthEquation
    <3> HIDE DEF h
    <3> QED
      BY <2>4, <2>5, <3>1, <3>2
  <2>7. bitLength[k] <= k
    BY <2>4, <2>5, <2>6
  <2>8. ASSUME NEW j \in 0 .. k PROVE bitLength[j] <= bitLength[k]
    <3>1. CASE j = 0
      BY <2>2, <3>1
    <3>2. CASE j # 0
      <4>1. j \in Nat /\ j \div 2 \in 0 .. h
        BY <2>2, <2>8
      <4>2. bitLength[j] = 1 + bitLength[j \div 2] /\ bitLength[j \div 2] \in Nat
        BY <3>2, <4>1, BitLengthEquation
      <4> QED
        BY <2>5, <2>6, <4>1, <4>2
    <3> QED
      BY <3>1, <3>2
  <2>9. \A j \in 0 .. k : bitLength[j] \in Nat
    BY <2>2, BitLengthEquation
  <2> QED
    BY <2>1, <2>2, <2>7, <2>8, <2>9
<1>2. ASSUME NEW k \in Nat PROVE bitLength[k] <= k /\ \A j \in 0 .. k : bitLength[j] <= bitLength[k]
  <2>1. \A j \in 0 .. k : bitLength[j] \in Nat
    BY BitLengthEquation
  <2>2. k \notin Odd /\ k \in 0 .. k
    BY <1>1
  <2> QED
    BY <2>1, <2>2
<1> QED
  BY <1>2

\* Without holes every measurement is of the middle of the window, and halves it.
HalvingInv ==
  /\ pc = "inner" => mid = Midpoint(low, high)
  /\ skipped = {} =>
       IF pc = "done" THEN Len(tested) <= bitLength[n - 1]
       ELSE Len(tested) + bitLength[high - low + 1] <= bitLength[n - 1]

\* What the window is when a search without holes measures its midpoint.
LEMMA HalvedWindow ==
  ASSUME IInv, HalvingInv, NEW a \in Answers, Evaluate(a), skipped = {}, skipped' = {}
  PROVE  /\ n' = n /\ n \in Nat \ {0} /\ probe = (low + high) \div 2 /\ probe \in low .. high
         /\ low \in Nat /\ high \in Nat
         /\ Len(tested') = Len(tested) + 1 /\ Len(tested) \in Nat
         /\ \A size \in Nat : size <= (high - low + 1) \div 2 =>
              Len(tested') + bitLength[size] <= bitLength[n - 1]
<1>1. /\ n' = n /\ n \in Nat \ {0} /\ probe \in low .. high
      /\ Len(tested') = Len(tested) + 1 /\ Len(tested) \in Nat
      /\ skipped = {} /\ pc = "inner"
  <2>1. skipped \subseteq skipped' /\ pc = "inner"
    BY DEF Evaluate
  <2>2. Len(tested) \in Nat
    BY DEF IInv, TypeOK
  <2> QED
    BY <2>1, <2>2, EvaluateStep
<1>2. low \in Nat /\ high \in Nat
  BY <1>1, LengthsAssumption DEF IInv, TypeOK
<1>3. probe = (low + high) \div 2
  <2>1. mid \in low .. high /\ (probe = mid \/ mid \in testedIdx)
    BY <1>1 DEF IInv, ProbeInv
  <2>2. testedIdx \cap (low .. high) = {}
    BY <1>1 DEF IInv, HoleInv
  <2>3. mid = (low + high) \div 2
    BY <1>1 DEF HalvingInv, Midpoint
  <2> QED
    BY <2>1, <2>2, <2>3
<1> DEFINE w == high - low + 1
<1>4. w \in Nat /\ w # 0 /\ w \div 2 \in Nat /\ n - 1 \in Nat
  BY <1>1, <1>2
<1>5. Len(tested) + bitLength[w] <= bitLength[n - 1]
  BY <1>1 DEF HalvingInv
<1>6. bitLength[w] = 1 + bitLength[w \div 2] /\ bitLength[w \div 2] \in Nat
      /\ bitLength[n - 1] \in Nat
  BY <1>4, BitLengthEquation
<1> HIDE DEF w
<1>7. ASSUME NEW size \in Nat, size <= w \div 2
      PROVE  Len(tested') + bitLength[size] <= bitLength[n - 1]
  <2>1. bitLength[size] \in Nat /\ bitLength[size] <= bitLength[w \div 2]
    BY <1>4, <1>7, BitLengthEquation, BitLengthGrows
  <2> QED
    BY <1>1, <1>5, <1>6, <2>1
<1> QED
  BY <1>1, <1>2, <1>3, <1>7 DEF w

\* Every step keeps the bound.
LEMMA HalvingStep ==
  IInv /\ HalvingInv /\ [Next]_vars => HalvingInv'
<1> SUFFICES ASSUME IInv, HalvingInv, [Next]_vars PROVE HalvingInv'
  OBVIOUS
<1> DEFINE Bound(m, size, len, p) ==
             IF p = "done" THEN m <= bitLength[len - 1] ELSE m + bitLength[size] <= bitLength[len - 1]
<1>1. n \in Nat \ {0} /\ low \in 0 .. n /\ high \in -1 .. n - 2 /\ Len(tested) \in Nat
      /\ high - low + 1 \in Nat
  <2>1. n \in Nat \ {0} /\ Len(tested) \in Nat
    BY LengthsAssumption DEF IInv, TypeOK
  <2>2. low \in 0 .. n /\ high \in -1 .. n - 2 /\ lastGood \in Int /\ bestBad \in Int
    BY <2>1 DEF IInv, TypeOK
  <2> QED
    BY <2>1, <2>2 DEF IInv, WindowInv
<1>2. ASSUME skipped' = {}, StopAtBudget \/ StopAllHoles \/ Finish \/ ChooseProbe
      PROVE  Bound(Len(tested'), high' - low' + 1, n', pc')
  <2>1. /\ skipped = {} /\ n' = n /\ low' = low /\ high' = high /\ tested' = tested
        /\ pc # "done"
    BY <1>2 DEF StopAtBudget, StopAllHoles, Finish, ChooseProbe, inputs, window
  <2>2. Len(tested) + bitLength[high - low + 1] <= bitLength[n - 1]
    BY <2>1 DEF HalvingInv
  <2>3. bitLength[high - low + 1] \in Nat /\ bitLength[n - 1] \in Nat
    BY <1>1, BitLengthEquation
  <2> QED
    BY <1>1, <2>1, <2>2, <2>3
<1>3. ASSUME skipped' = {}, RecordGood
      PROVE  Bound(Len(tested'), high' - low' + 1, n', pc')
  <2>1. skipped = {} /\ low' = probe + 1 /\ high' = high /\ pc' = "outer" /\ Evaluate("GOOD")
    BY <1>3 DEF RecordGood
  <2>2. /\ n' = n /\ probe = (low + high) \div 2 /\ probe \in low .. high
        /\ low \in Nat /\ high \in Nat
        /\ \A size \in Nat : size <= (high - low + 1) \div 2 =>
             Len(tested') + bitLength[size] <= bitLength[n - 1]
    BY <1>3, <2>1, HalvedWindow DEF Answers
  <2>3. high' - low' + 1 \in Nat /\ high' - low' + 1 <= (high - low + 1) \div 2
    BY <2>1, <2>2
  <2> QED
    BY <2>1, <2>2, <2>3
<1>4. ASSUME skipped' = {}, RecordBad
      PROVE  Bound(Len(tested'), high' - low' + 1, n', pc')
  <2>1. skipped = {} /\ high' = probe - 1 /\ low' = low /\ pc' = "outer" /\ Evaluate("BAD")
    BY <1>4 DEF RecordBad
  <2>2. /\ n' = n /\ probe = (low + high) \div 2 /\ probe \in low .. high
        /\ low \in Nat /\ high \in Nat
        /\ \A size \in Nat : size <= (high - low + 1) \div 2 =>
             Len(tested') + bitLength[size] <= bitLength[n - 1]
    BY <1>4, <2>1, HalvedWindow DEF Answers
  <2>3. high' - low' + 1 \in Nat /\ high' - low' + 1 <= (high - low + 1) \div 2
    BY <2>1, <2>2
  <2> QED
    BY <2>1, <2>2, <2>3
<1>5. ASSUME skipped' = {}, StopUnclear
      PROVE  Bound(Len(tested'), high' - low' + 1, n', pc')
  <2>1. skipped = {} /\ pc' = "done" /\ Evaluate("UNCLEAR")
    BY <1>5 DEF StopUnclear, Return
  <2>2. /\ n' = n /\ low \in Nat /\ high \in Nat /\ probe \in low .. high
        /\ Len(tested') = Len(tested) + 1
        /\ \A size \in Nat : size <= (high - low + 1) \div 2 =>
             Len(tested') + bitLength[size] <= bitLength[n - 1]
    BY <1>5, <2>1, HalvedWindow DEF Answers
  <2>3. Len(tested') + bitLength[0] <= bitLength[n - 1] /\ bitLength[0] = 0
    BY <2>2, BitLengthEquation
  <2> QED
    BY <1>1, <2>1, <2>2, <2>3
<1>6. ASSUME skipped' = {}, RecordHole \/ StopUnsupportedTooling
      PROVE  FALSE
  BY <1>6 DEF RecordHole, StopUnsupportedTooling
<1>7. pc' = "inner" => mid' = Midpoint(low', high')
  BY DEF HalvingInv, Next, vars, window, ChooseProbe, RecordGood, RecordBad, StopUnclear,
         RecordHole, StopUnsupportedTooling, StopAllHoles, StopAtBudget, Finish, Return, Evaluate
<1>8. CASE UNCHANGED vars
  BY <1>8 DEF HalvingInv, vars, inputs, window
<1>9. CASE Next
  <2>1. skipped' = {} => Bound(Len(tested'), high' - low' + 1, n', pc')
    BY <1>2, <1>3, <1>4, <1>5, <1>6, <1>9 DEF Next
  <2> QED
    BY <1>7, <2>1 DEF HalvingInv
<1> QED
  BY <1>8, <1>9

\* Without holes the search takes no more measurements than the announced number; there is
\* even one bit to spare whenever the number of candidates is a power of two.
THEOREM ExpectedTestsSuffice ==
  Spec => []WithinExpectedTests
<1>1. Init => HalvingInv
  <2> SUFFICES ASSUME Init PROVE HalvingInv
    OBVIOUS
  <2>1. n \in Nat \ {0} /\ Len(tested) = 0 /\ pc = "outer" /\ high - low + 1 = n - 1
    BY LengthsAssumption DEF Init, LastInterior
  <2>2. bitLength[n - 1] \in Nat
    BY <2>1, BitLengthEquation
  <2> QED
    BY <2>1, <2>2 DEF HalvingInv
<1>2. IInv /\ HalvingInv => WithinExpectedTests
  <2> SUFFICES ASSUME IInv, HalvingInv, skipped = {}
               PROVE  Len(tested) <= n /\ Len(tested) <= bitLength[n]
    BY DEF WithinExpectedTests
  <2>1. n \in Nat \ {0} /\ Len(tested) \in Nat /\ high - low + 1 \in Nat
    <3>1. n \in Nat \ {0} /\ Len(tested) \in Nat
      BY LengthsAssumption DEF IInv, TypeOK
    <3>2. low \in Int /\ high \in Int /\ lastGood \in Int /\ bestBad \in Int
      BY <3>1 DEF IInv, TypeOK
    <3> QED
      BY <3>1, <3>2 DEF IInv, WindowInv
  <2>2. bitLength[high - low + 1] \in Nat /\ bitLength[n - 1] \in Nat /\ bitLength[n] \in Nat
        /\ n - 1 \in Nat
    BY <2>1, BitLengthEquation
  <2>3. Len(tested) <= bitLength[n - 1]
    BY <2>1, <2>2 DEF HalvingInv
  <2>4. bitLength[n - 1] <= n - 1 /\ bitLength[n - 1] <= bitLength[n]
    BY <2>1, <2>2, BitLengthGrows
  <2> QED
    BY <2>1, <2>2, <2>3, <2>4
<1>3. IInv /\ IInv' /\ HalvingInv /\ [Next]_vars => HalvingInv'
  BY HalvingStep
<1>4. Spec => []HalvingInv
  BY <1>1, <1>3, Invariance, PTL DEF Spec
<1> QED
  BY <1>2, <1>4, Invariance, PTL

=============================================================================
