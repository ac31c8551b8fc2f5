---------------------- MODULE MeasurementRecoveryProofs ----------------------
(***************************************************************************)
(* The safety properties of MeasurementRecovery, for every policy, budget, *)
(* ceiling, timeout, set of run records and set of categories a model may  *)
(* invent.                                                                 *)
(*                                                                         *)
(* The invariant that carries them relates the counter of the loop to the  *)
(* history of the runs, says which runs may have been followed by another, *)
(* and that the knobs in force include all that was ever cleared.          *)
(***************************************************************************)
EXTENDS MeasurementRecovery, SequenceTheorems, TLAPS

\* Every category the code can come up with is one of Categories.
LEMMA SkipCategoryType ==
  ASSUME NEW note, NEW signs
  PROVE  SkipCategoryFor(note, signs) \in Categories
BY DEF SkipCategoryFor, Categories, EnvSkips

\* Every note of a run is one of Notes.
LEMMA NoteType ==
  ASSUME NEW r \in Runs
  PROVE  MeasurementNote(r) \in Notes
<1>1. r \in RunRecords
  BY RunsAssumption
<1>2. FileNote(r) \in Notes
  BY <1>1 DEF FileNote, Notes, EnvSkips, RunRecords
<1> QED
  BY <1>1, <1>2 DEF MeasurementNote, Notes, EnvSkips, ProbeNotes, RunRecords

\* Whether a note, with its log, is one that no retry can fix under the policy p.
Unfixable(p, note, signs) ==
  \/ note = "dependency_unavailable"
  \/ p = "deterministic" /\ (HostBlocked(signs) \/ note \in NotRetryable \cup ProbeNotes)

\* A decision about the k-th run: an acceptance has a category; a retry is one of the four
\* actions, has budget left, and is not of an unfixable run.
Sound(p, k, note, signs, d) ==
  \/ d \in [action : {"accept"}, category : Categories]
  \/ /\ d \in [action : RetryActions, category : {""}]
     /\ p # "none" /\ k < budget
     /\ ~Unfixable(p, note, signs)

\* Accepting with a category is always sound.
LEMMA AcceptIsSound ==
  ASSUME NEW p, NEW k, NEW note, NEW signs, NEW c \in Categories
  PROVE  Sound(p, k, note, signs, Accept(c))
BY DEF Sound, Accept

\* Retrying is, with budget left and a run that may be retried.
LEMMA RetryIsSound ==
  ASSUME NEW p, NEW k, NEW note, NEW signs, NEW a \in RetryActions,
         p # "none", k < budget, ~Unfixable(p, note, signs)
  PROVE  Sound(p, k, note, signs, Retry(a))
BY DEF Sound, Retry

\* What is sound for the deterministic policy is so for a model, its fallback.
LEMMA SoundUnderAModel ==
  ASSUME NEW k, NEW note, NEW signs, NEW d, Sound("deterministic", k, note, signs, d)
  PROVE  Sound("llm", k, note, signs, d)
<1>1. Unfixable("llm", note, signs) => Unfixable("deterministic", note, signs)
  BY DEF Unfixable
<1> QED
  BY <1>1 DEF Sound

\* DeterministicRecoveryPolicy.decide is sound.
LEMMA DeterministicDecides ==
  ASSUME NEW k \in Nat, NEW note, NEW signs, budget \in Int
  PROVE  Sound("deterministic", k, note, signs, DeterministicDecision(k, note, signs))
<1>0. NotRetryable \cup {"host_blocker", "runtime_incompatible"} \subseteq Categories
  BY DEF NotRetryable, Categories, EnvSkips
<1>1. CASE HostBlocked(signs)
  BY <1>0, <1>1, AcceptIsSound DEF DeterministicDecision
<1>2. CASE ~HostBlocked(signs) /\ note \in NotRetryable
  BY <1>0, <1>2, AcceptIsSound DEF DeterministicDecision
<1>3. CASE /\ ~HostBlocked(signs) /\ note \notin NotRetryable
           /\ note \in ProbeNotes \/ ~BudgetLeft(k)
  BY <1>3, AcceptIsSound, SkipCategoryType DEF DeterministicDecision
<1>4. CASE /\ ~HostBlocked(signs) /\ note \notin NotRetryable
           /\ note \notin ProbeNotes /\ BudgetLeft(k)
  <2>1. k < budget /\ ~Unfixable("deterministic", note, signs)
    BY <1>4 DEF BudgetLeft, Unfixable, NotRetryable
  <2>2. \/ DeterministicDecision(k, note, signs) = Accept("runtime_incompatible")
        \/ \E a \in RetryActions : DeterministicDecision(k, note, signs) = Retry(a)
    BY <1>4 DEF DeterministicDecision, RetryActions
  <2> QED
    BY <1>0, <2>1, <2>2, AcceptIsSound, RetryIsSound
<1> QED
  BY <1>1, <1>2, <1>3, <1>4

\* Every policy.decide is sound, whatever a model replies.
LEMMA Decides ==
  ASSUME NEW k \in Nat, NEW note, NEW signs, NEW d \in Decisions(k, note, signs),
         budget \in Int, policy \in Policies
  PROVE  Sound(policy, k, note, signs, d)
<1>0. Sound(policy, k, note, signs, Accept(SkipCategoryFor(note, signs)))
  BY SkipCategoryType, AcceptIsSound
<1>1. CASE policy = "none"
  BY <1>0, <1>1 DEF Decisions
<1>2. CASE policy = "deterministic"
  BY <1>2, DeterministicDecides DEF Decisions
<1>3. CASE policy = "llm"
  <2>1. d \in LLMDecisions(k, note, signs)
    BY <1>3 DEF Decisions
  <2>2. CASE ~BudgetLeft(k)
    BY <1>0, <2>1, <2>2 DEF LLMDecisions
  <2>3. Sound(policy, k, note, signs, DeterministicDecision(k, note, signs))
    BY <1>3, DeterministicDecides, SoundUnderAModel
  <2>4. CASE BudgetLeft(k) /\ note = "dependency_unavailable"
    BY <2>1, <2>3, <2>4 DEF LLMDecisions
  <2>5. CASE BudgetLeft(k) /\ note # "dependency_unavailable"
    <3>1. k < budget /\ ~Unfixable(policy, note, signs)
      BY <1>3, <2>5 DEF BudgetLeft, Unfixable
    <3>2. \A a \in RetryActions : Sound(policy, k, note, signs, Retry(a))
      BY <1>3, <3>1, RetryIsSound
    <3>3. \A c \in ModelCategories : Sound(policy, k, note, signs, Accept(c))
      BY AcceptIsSound DEF Categories
    <3> QED
      BY <1>0, <2>1, <2>3, <2>5, <3>2, <3>3 DEF LLMDecisions
  <2> QED
    BY <2>2, <2>4, <2>5
<1> QED
  BY <1>1, <1>2, <1>3, PoliciesAssumption

-----------------------------------------------------------------------------
(* The inductive invariant.                                                *)

Sticky == {"clear_caches", "force_reinstall"}

\* Runs and events against the counter of the loop.
Counted ==
  /\ Len(ran) = IF pc = "measure" THEN attemptIdx ELSE attemptIdx + 1
  /\ Len(events) = IF pc = "done" /\ result # "metric" THEN attemptIdx + 1 ELSE attemptIdx
  /\ pc # "done" <=> result = "none"
  /\ pc = "decide" => lastNote # "metric"

\* What a run that was followed by another one says of the policy, and of itself.
Retried ==
  /\ attemptIdx > 0 => policy # "none" /\ attemptIdx <= budget
  /\ \A k \in 1 .. attemptIdx :
       ~Unfixable(policy, MeasurementNote(ran[k].record), ran[k].record.signs)

\* The knobs in force are those of the last run, and keep all that was ever cleared.
KnobsKept ==
  /\ pc # "measure" => ran[Len(ran)].knobs = knobs
  /\ \A k \in 1 .. Len(ran) : ran[k].knobs \cap Sticky \subseteq knobs
  /\ ClearingAccumulates

EventsTrue ==
  \A k \in 1 .. Len(events) :
    /\ events[k].note = MeasurementNote(ran[k].record)
    /\ events[k].knobs = ran[k].knobs

IInv ==
  /\ TypeOK /\ Counted /\ Retried /\ KnobsKept /\ EventsTrue
  /\ SkipsAreCategorised /\ ToolingBoundaryKept

\* The invariant holds initially.
THEOREM InitEstablishes == Init => IInv
<1> SUFFICES ASSUME Init PROVE IInv
  OBVIOUS
<1>1. TypeOK
  BY EmptySeq, BudgetsAssumption DEF Init, TypeOK
<1> QED
  BY <1>1 DEF Init, IInv, Counted, Retried, KnobsKept, EventsTrue, SkipsAreCategorised,
              ClearingAccumulates, ToolingBoundaryKept

\* What a benchmark run adds to the history.
RunRecord(r) == [record |-> r, knobs |-> knobs, limit |-> TimeoutOf(knobs)]
RunHistory == [record : Runs, knobs : SUBSET Knobs, limit : Nat]

\* A run is added at the end of the history.
LEMMA RunAppends ==
  ASSUME TypeOK, Counted, pc = "measure", NEW r \in Runs, ran' = Append(ran, RunRecord(r))
  PROVE  /\ ran' \in Seq(RunHistory)
         /\ Len(ran') = attemptIdx + 1
         /\ \A k \in 1 .. attemptIdx : ran'[k] = ran[k]
         /\ ran'[attemptIdx + 1] = RunRecord(r)
<1>1. RunRecord(r) \in RunHistory
  BY TimeoutsAssumption DEF TypeOK, RunRecord, RunHistory, TimeoutOf
<1>2. ran \in Seq(RunHistory) /\ Len(ran) = attemptIdx
  BY DEF TypeOK, Counted, RunHistory
<1> QED
  BY <1>1, <1>2, AppendProperties

\* A run, whether it yields a metric or not.
LEMMA RunPreserves ==
  ASSUME IInv, NEW r \in Runs, Run(r),
         \/ MeasurementNote(r) = "metric" /\ pc' = "done" /\ result' = "metric"
         \/ MeasurementNote(r) # "metric" /\ pc' = "decide" /\ result' = result
  PROVE  IInv'
<1> USE DEF IInv
<1>1. /\ pc = "measure" /\ result = "none" /\ attemptIdx \in Nat
      /\ ran' = Append(ran, RunRecord(r))
      /\ UNCHANGED <<inputs, attemptIdx, knobs, events>>
      /\ Len(ran) = attemptIdx /\ Len(events) = attemptIdx
  BY DEF Run, Counted, TypeOK, RunRecord
<1>2. /\ ran' \in Seq(RunHistory)
      /\ Len(ran') = attemptIdx + 1
      /\ \A k \in 1 .. attemptIdx : ran'[k] = ran[k]
      /\ ran'[attemptIdx + 1] = RunRecord(r)
  BY <1>1, RunAppends
<1>3. RunRecord(r).record = r /\ RunRecord(r).knobs = knobs
  BY DEF RunRecord
<1>4. TypeOK'
  BY <1>1, <1>2 DEF TypeOK, inputs, RunHistory, Notes
<1>5. Counted'
  BY <1>1, <1>2, <1>3 DEF Counted, lastNote, last
<1>6. Retried'
  BY <1>1, <1>2 DEF Retried, inputs
<1>7. KnobsKept'
  <2>1. \A k \in 1 .. Len(ran') : ran'[k].knobs \cap Sticky \subseteq knobs
    BY <1>1, <1>2, <1>3 DEF KnobsKept
  <2>2. ClearingAccumulates'
    <3> SUFFICES ASSUME NEW j \in 1 .. Len(ran'), NEW k \in 1 .. Len(ran'), j < k
                 PROVE  ran'[j].knobs \cap Sticky \subseteq ran'[k].knobs
      BY DEF ClearingAccumulates, Sticky
    <3>1. CASE k = attemptIdx + 1
      BY <1>1, <1>2, <1>3, <2>1, <3>1
    <3>2. CASE k # attemptIdx + 1
      <4>1. j \in 1 .. Len(ran) /\ k \in 1 .. Len(ran)
        BY <1>1, <1>2, <3>2
      <4> QED
        BY <1>1, <1>2, <4>1 DEF KnobsKept, ClearingAccumulates, Sticky
    <3> QED
      BY <3>1, <3>2
  <2> QED
    BY <1>1, <1>2, <1>3, <2>1, <2>2 DEF KnobsKept
<1>8. EventsTrue'
  BY <1>1, <1>2 DEF EventsTrue
<1>9. SkipsAreCategorised'
  BY <1>1 DEF SkipsAreCategorised
<1>10. ToolingBoundaryKept'
  <2>1. lastNote' = MeasurementNote(r)
    BY <1>1, <1>2, <1>3 DEF lastNote, last
  <2> QED
    BY <2>1 DEF ToolingBoundaryKept
<1> QED
  BY <1>4, <1>5, <1>6, <1>7, <1>8, <1>9, <1>10

\* What a decision of the policy adds to the events.
LEMMA DecisionRecorded ==
  ASSUME IInv, NEW d \in Choices, Decide(d)
  PROVE  /\ pc = "decide" /\ attemptIdx \in Nat /\ Len(ran) = attemptIdx + 1
         /\ UNCHANGED <<inputs, ran>>
         /\ Sound(policy, attemptIdx, lastNote, last.signs, d)
         /\ lastNote \in Notes \ {"metric"}
         /\ events' \in Seq([note : Notes, action : {"accept"} \cup RetryActions,
                             knobs : SUBSET Knobs])
         /\ Len(events') = attemptIdx + 1
         /\ EventsTrue'
<1> DEFINE Events == [note : Notes, action : {"accept"} \cup RetryActions,
                      knobs : SUBSET Knobs]
<1>1. /\ pc = "decide" /\ attemptIdx \in Nat
      /\ UNCHANGED <<inputs, ran>>
      /\ events' = Append(events, Event(d))
      /\ events \in Seq(Events)
      /\ Len(ran) = attemptIdx + 1 /\ Len(events) = attemptIdx
  BY DEF IInv, Decide, TypeOK, Counted
<1>2. /\ policy \in Policies /\ budget \in Int
      /\ d \in Decisions(attemptIdx, lastNote, last.signs)
  BY <1>1, BudgetsAssumption DEF IInv, TypeOK, Choices
<1>3. Sound(policy, attemptIdx, lastNote, last.signs, d)
  BY <1>1, <1>2, Decides
<1>4. lastNote \in Notes \ {"metric"}
  <2>1. last \in Runs
    <3>1. ran \in Seq(RunHistory) /\ Len(ran) \in 1 .. Len(ran)
      BY <1>1 DEF IInv, TypeOK, RunHistory
    <3>2. ran[Len(ran)] \in RunHistory
      BY <3>1, ElementOfSeq
    <3> QED
      BY <3>2 DEF last, RunHistory
  <2> QED
    BY <1>1, <2>1, NoteType DEF IInv, Counted, lastNote
<1>5. Event(d) \in Events
  <2>1. d.action \in {"accept"} \cup RetryActions
    BY <1>3 DEF Sound
  <2> QED
    BY <1>4, <2>1 DEF Event, IInv, TypeOK
<1>6. /\ events' \in Seq(Events)
      /\ Len(events') = attemptIdx + 1
      /\ \A k \in 1 .. attemptIdx : events'[k] = events[k]
      /\ events'[attemptIdx + 1] = Event(d)
  BY <1>1, <1>5, AppendProperties
<1>7. EventsTrue'
  <2> SUFFICES ASSUME NEW k \in 1 .. attemptIdx + 1
               PROVE  /\ events'[k].note = MeasurementNote(ran[k].record)
                      /\ events'[k].knobs = ran[k].knobs
    BY <1>1, <1>6 DEF EventsTrue
  <2>1. CASE k = attemptIdx + 1
    BY <1>1, <1>6, <2>1 DEF Event, lastNote, last, IInv, KnobsKept
  <2>2. CASE k # attemptIdx + 1
    BY <1>1, <1>6, <2>2 DEF IInv, EventsTrue
  <2> QED
    BY <2>1, <2>2
<1> QED
  BY <1>1, <1>3, <1>4, <1>6, <1>7

\* knobs_for_action yields knobs, and drops none that was cleared or rebuilt with.
LEMMA KnobsEscalate ==
  ASSUME NEW a \in RetryActions, NEW on \in SUBSET Knobs
  PROVE  /\ KnobsForAction(a, on) \subseteq Knobs
         /\ on \cap Sticky \subseteq KnobsForAction(a, on)
BY DEF KnobsForAction, RetryActions, Knobs, Sticky

\* Every step preserves the invariant.
THEOREM StepPreserves == IInv /\ [Next]_vars => IInv'
<1> SUFFICES ASSUME IInv, [Next]_vars PROVE IInv'
  OBVIOUS
<1>1. CASE MeasureOK
  <2>1. PICK r \in Runs : /\ MeasurementNote(r) = "metric" /\ Run(r)
                          /\ pc' = "done" /\ result' = "metric"
    BY <1>1 DEF MeasureOK
  <2> QED
    BY <2>1, RunPreserves
<1>2. CASE MeasureFailed
  <2>1. PICK r \in Runs : /\ MeasurementNote(r) # "metric" /\ Run(r)
                          /\ pc' = "decide" /\ result' = result
    BY <1>2 DEF MeasureFailed
  <2> QED
    BY <2>1, RunPreserves
<1>3. CASE AcceptSkip
  <2>1. PICK d \in Choices : /\ d.action = "accept" /\ Decide(d)
                             /\ result' = d.category /\ pc' = "done"
                             /\ UNCHANGED <<attemptIdx, knobs>>
    BY <1>3 DEF AcceptSkip
  <2> USE <2>1, DecisionRecorded
  <2>2. result' \in Categories /\ result' \notin {"none", "metric"}
    <3>1. d.category \in Categories
      BY DEF Sound, RetryActions
    <3> QED
      BY <3>1, CategoriesAssumption DEF Categories, EnvSkips
  <2>3. TypeOK'
    BY <2>2 DEF IInv, TypeOK, inputs
  <2>4. Counted'
    BY <2>2 DEF Counted
  <2>5. Retried' /\ KnobsKept'
    BY DEF IInv, Retried, KnobsKept, ClearingAccumulates, inputs
  <2>6. SkipsAreCategorised'
    BY <2>2 DEF SkipsAreCategorised, Categories
  <2>7. ToolingBoundaryKept'
    <3> SUFFICES ASSUME policy = "deterministic", ~HostBlocked(last.signs),
                        lastNote = "perf_smoke_tooling_incompatible"
                 PROVE  d.category = lastNote
      BY DEF ToolingBoundaryKept, inputs, lastNote, last
    <3>1. d = DeterministicDecision(attemptIdx, lastNote, last.signs)
      BY DEF Choices, Decisions
    <3> QED
      BY <3>1 DEF DeterministicDecision, Accept, NotRetryable
  <2> QED
    BY <2>3, <2>4, <2>5, <2>6, <2>7 DEF IInv
<1>4. CASE StopAtCap
  <2>1. PICK d \in Choices : /\ d.action # "accept" /\ CapReached /\ Decide(d)
                             /\ result' = lastNote /\ pc' = "done"
                             /\ UNCHANGED <<attemptIdx, knobs>>
    BY <1>4 DEF StopAtCap
  <2> USE <2>1, DecisionRecorded
  <2>2. attemptIdx = MaxRecoveryRetries /\ attemptIdx < budget /\ budget' = budget
    <3>1. attemptIdx < budget /\ budget' = budget
      BY DEF Sound, inputs
    <3>2. attemptIdx \in 0 .. MaxRecoveryRetries /\ MaxRecoveryRetries \in Nat
      BY BudgetsAssumption DEF IInv, TypeOK
    <3>3. attemptIdx >= MaxRecoveryRetries
      BY DEF CapReached
    <3> QED
      BY <3>1, <3>2, <3>3
  <2>3. TypeOK'
    BY DEF IInv, TypeOK, inputs
  <2>4. Counted'
    BY DEF Counted, Notes, EnvSkips, ProbeNotes
  <2>5. Retried' /\ KnobsKept'
    BY DEF IInv, Retried, KnobsKept, ClearingAccumulates, inputs
  <2>6. SkipsAreCategorised'
    BY <2>2 DEF SkipsAreCategorised
  <2>7. ToolingBoundaryKept'
    BY DEF ToolingBoundaryKept, inputs, lastNote, last
  <2> QED
    BY <2>3, <2>4, <2>5, <2>6, <2>7 DEF IInv
<1>5. CASE RetryRun
  <2>1. PICK d \in Choices : /\ d.action # "accept" /\ ~CapReached /\ Decide(d)
                             /\ knobs' = KnobsForAction(d.action, knobs)
                             /\ attemptIdx' = attemptIdx + 1
                             /\ pc' = "measure" /\ UNCHANGED result
    BY <1>5 DEF RetryRun
  <2> USE <2>1, DecisionRecorded
  <2>2. /\ d.action \in RetryActions /\ policy # "none" /\ attemptIdx < budget
        /\ ~Unfixable(policy, lastNote, last.signs)
    BY DEF Sound
  <2>3. /\ knobs' \subseteq Knobs /\ knobs \cap Sticky \subseteq knobs'
    BY <2>2, KnobsEscalate DEF IInv, TypeOK
  <2>4. TypeOK'
    <3>1. attemptIdx' \in 0 .. MaxRecoveryRetries
      <4>1. attemptIdx \in 0 .. MaxRecoveryRetries /\ MaxRecoveryRetries \in Nat
        BY BudgetsAssumption DEF IInv, TypeOK
      <4>2. ~(attemptIdx >= MaxRecoveryRetries) /\ attemptIdx' = attemptIdx + 1
        BY DEF CapReached
      <4> QED
        BY <4>1, <4>2
    <3> QED
      BY <2>3, <3>1 DEF IInv, TypeOK, inputs
  <2>5. Counted'
    BY DEF IInv, Counted
  <2>6. Retried'
    <3>1. policy' = policy /\ budget' = budget /\ budget \in Int
      BY BudgetsAssumption DEF inputs, IInv, TypeOK
    <3>2. \A k \in 1 .. attemptIdx + 1 :
            ~Unfixable(policy, MeasurementNote(ran[k].record), ran[k].record.signs)
      BY <2>2 DEF IInv, Retried, lastNote, last
    <3> QED
      BY <2>2, <3>1, <3>2 DEF Retried
  <2>7. KnobsKept'
    BY <2>3 DEF IInv, KnobsKept, ClearingAccumulates
  <2>8. SkipsAreCategorised'
    BY DEF SkipsAreCategorised
  <2>9. ToolingBoundaryKept'
    BY DEF ToolingBoundaryKept
  <2> QED
    BY <2>4, <2>5, <2>6, <2>7, <2>8, <2>9 DEF IInv
<1>6. CASE UNCHANGED vars
  BY <1>6 DEF vars, inputs, IInv, TypeOK, Counted, Retried, KnobsKept, EventsTrue,
              SkipsAreCategorised, ToolingBoundaryKept, ClearingAccumulates, lastNote, last
<1> QED
  BY <1>1, <1>2, <1>3, <1>4, <1>5, <1>6 DEF Next

\* The invariant holds in every state.
THEOREM Invariance == Spec => []IInv
  BY InitEstablishes, StepPreserves, PTL DEF Spec

-----------------------------------------------------------------------------
(* What follows.                                                           *)

\* A commit is never run more often than the policy's budget and the engine's ceiling
\* allow, whatever the budget, the ceiling and the replies of a model are.
THEOREM RetriesBounded == Spec => []RetriesWithinBudget
<1>1. IInv => RetriesWithinBudget
  BY BudgetsAssumption DEF IInv, TypeOK, Counted, Retried, RetriesWithinBudget
<1> QED
  BY <1>1, Invariance, PTL

\* A condition no retry can fix is never retried.
THEOREM NoFutileRetry == Spec => []UnfixableNotRetried
<1>1. IInv => UnfixableNotRetried
  BY DEF IInv, TypeOK, Counted, Retried, UnfixableNotRetried, Unfixable
<1> QED
  BY <1>1, Invariance, PTL

\* The recorded events are the history of the failed runs.
THEOREM EventsAreHistory == Spec => []EventsTellTheRuns
<1>1. IInv => EventsTellTheRuns
  BY DEF IInv, TypeOK, Counted, EventsTrue, EventsTellTheRuns
<1> QED
  BY <1>1, Invariance, PTL

\* An accepted failure has a skip category; a bare note is returned only at the ceiling.
THEOREM SkipsCategorised == Spec => []SkipsAreCategorised
  BY Invariance, PTL DEF IInv

\* What was cleared or rebuilt for a retry is so for every later one.
THEOREM ClearingIsSticky == Spec => []ClearingAccumulates
<1>1. IInv => ClearingAccumulates
  BY DEF IInv, KnobsKept
<1> QED
  BY <1>1, Invariance, PTL

\* Without a model and a host blocker the tooling boundary is reported as such.
THEOREM ToolingBoundaryReported == Spec => []ToolingBoundaryKept
  BY Invariance, PTL DEF IInv

=============================================================================
