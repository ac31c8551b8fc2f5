------------------------- MODULE MeasurementRecovery -------------------------
(***************************************************************************)
(* One call of engine._measure_with_recovery: run the benchmark of a       *)
(* commit, and while it yields no metric let the recovery policy retry it  *)
(* with other knobs or accept the failure as a skip.                       *)
(*                                                                         *)
(* A failure note is its category when the code writes env_skip:<category> *)
(* and the note itself otherwise.  All host-blocker categories are one,    *)
(* "host_blocker".  A log excerpt is the set of signature families it      *)
(* matches; the benchmark log and the log tails match alike.  The model    *)
(* answers of the LLM policy are arbitrary.  A timeout of 0 is no timeout. *)
(***************************************************************************)
EXTENDS Integers, Sequences

CONSTANTS
  Policies,             \* recovery policies: "none", "deterministic", "llm"
  RetryBudgets,         \* values --recovery_max_retries may have
  MaxRecoveryRetries,   \* _MAX_RECOVERY_RETRIES, 5 in the code
  BaseTimeouts,         \* values --candidate_timeout_s may have, 0 for none
  TimeoutExtension,     \* DEFAULT_TIMEOUT_EXTENSION_S
  Runs,                 \* what a benchmark run may leave behind, see RunRecords
  ModelCategories       \* skip categories a model may invent

ASSUME PoliciesAssumption == Policies \subseteq {"none", "deterministic", "llm"}
ASSUME BudgetsAssumption == RetryBudgets \subseteq Int /\ MaxRecoveryRetries \in Nat
\* A category is not taken for one of the two results that are none.
ASSUME CategoriesAssumption == ModelCategories \cap {"none", "metric"} = {}
ASSUME TimeoutsAssumption == BaseTimeouts \subseteq Nat /\ TimeoutExtension \in Nat \ {0}

VARIABLES
  policy,               \* the recovery policy
  budget,               \* its max_attempts
  baseTimeout,          \* plan.timeout.candidate_timeout_s
  attemptIdx,           \* attempt_idx
  knobs,                \* the RecoveryKnobs that are on
  ran,                  \* every run so far: its record, and the knobs and limit it got
  events,               \* recovery_events
  pc,                   \* "measure", "decide" or "done"
  result                \* the note the call returns; "metric" with a metric value

inputs == <<policy, budget, baseTimeout>>
vars == <<inputs, attemptIdx, knobs, ran, events, pc, result>>

Knobs == {"clear_caches", "force_reinstall", "extra_timeout"}
Signs == {"host", "host_detail", "runtime", "checkout"}
EnvSkips == {"dependency_unavailable", "install_failed", "runtime_incompatible",
             "source_checkout_failed", "perf_smoke_tooling_incompatible"}
ProbeNotes == {"probe_failed:plan_issue", "probe_failed:harness_blocked"}

\* What one run leaves behind: the probe's answer, whether the command timed out, the
\* bisect_env.json sidecar, the exit status, the result file, and the log signatures.
RunRecords ==
  [probe : {"ready"} \cup ProbeNotes,
   timedOut : BOOLEAN,
   env : {"ok"} \cup EnvSkips,
   exitOk : BOOLEAN,
   file : {"usable", "missing", "tooling_incompatible", "wrong_tooling", "no_metric"},
   signs : SUBSET Signs]

ASSUME RunsAssumption == Runs \subseteq RunRecords

RetryActions == {"retry_plain", "retry_clear_caches", "retry_increase_timeout",
                 "retry_reinstall"}

Accept(category) == [action |-> "accept", category |-> category]
Retry(action) == [action |-> action, category |-> ""]

-----------------------------------------------------------------------------
(* The note of a run, and what the policies make of it.                    *)

\* The note of the finished command; "metric" when the metric can be read.
FileNote(r) ==
  CASE r.file = "usable" -> "metric"
    [] r.file = "missing" -> "missing_perf_smoke_test_result"
    [] r.file = "tooling_incompatible" -> "perf_smoke_tooling_incompatible"
    [] r.file = "wrong_tooling" -> "tooling_mismatch"
    [] r.file = "no_metric" -> IF "runtime" \in r.signs THEN "runtime_incompatible"
                               ELSE "metric_unavailable"

MeasurementNote(r) ==
  IF r.probe # "ready" THEN r.probe
  ELSE IF r.timedOut THEN "candidate_timeout"
  ELSE IF r.env # "ok" THEN r.env
  ELSE IF ~r.exitOk THEN "runner_command_failed"
  ELSE FileNote(r)

SkipCategoryForTimeoutBare(note, signs) ==
  IF "host" \in signs THEN "host_blocker"
  ELSE IF note \in EnvSkips \cup {"candidate_timeout"} THEN note
  ELSE IF "runtime" \in signs THEN "runtime_incompatible"
  ELSE "infra"
\* _skip_category_for
SkipCategoryFor(note, signs) ==
  IF "host" \in signs THEN "host_blocker"
  ELSE IF note \in EnvSkips THEN note
  ELSE IF note = "probe_failed:plan_issue" THEN "plan_issue"
  ELSE IF note = "probe_failed:harness_blocked" THEN "harness_blocked"
  ELSE IF note = "candidate_timeout" \/ "runtime" \in signs THEN "runtime_incompatible"
  ELSE IF "checkout" \in signs THEN "source_checkout_failed"
  ELSE "infra"

HostBlocked(signs) == signs \cap {"host", "host_detail"} # {}

NotRetryableToolingForgotten == {"dependency_unavailable", "source_checkout_failed"}
NotRetryable == {"dependency_unavailable", "perf_smoke_tooling_incompatible",
                 "source_checkout_failed"}

BudgetLeft(k) == k < budget

\* DeterministicRecoveryPolicy.decide for the k-th attempt, counted from 0.
DeterministicDecision(k, note, signs) ==
  IF HostBlocked(signs) THEN Accept("host_blocker")
  ELSE IF note \in NotRetryable THEN Accept(note)
  ELSE IF note \in ProbeNotes \/ ~BudgetLeft(k) THEN Accept(SkipCategoryFor(note, signs))
  ELSE IF note = "install_failed" THEN Retry("retry_reinstall")
  ELSE IF note = "runtime_incompatible" \/ "runtime" \in signs
    THEN IF k = 0 THEN Retry("retry_clear_caches") ELSE Accept("runtime_incompatible")
  ELSE IF note = "candidate_timeout"
    THEN IF k = 0 THEN Retry("retry_increase_timeout") ELSE Accept("runtime_incompatible")
  ELSE Retry(IF k = 0 THEN "retry_plain" ELSE "retry_clear_caches")

\* LLMRecoveryPolicy.decide: any valid reply, or the deterministic fallback.
LLMDecisionsPinForgotten(k, note, signs) ==
  IF ~BudgetLeft(k) THEN {Accept(SkipCategoryFor(note, signs))}
  ELSE {DeterministicDecision(k, note, signs), Accept(SkipCategoryFor(note, signs))}
         \cup {Accept(c) : c \in ModelCategories} \cup {Retry(a) : a \in RetryActions}
LLMDecisions(k, note, signs) ==
  IF ~BudgetLeft(k) THEN {Accept(SkipCategoryFor(note, signs))}
  ELSE IF note = "dependency_unavailable" THEN {DeterministicDecision(k, note, signs)}
  ELSE {DeterministicDecision(k, note, signs), Accept(SkipCategoryFor(note, signs))}
         \cup {Accept(c) : c \in ModelCategories} \cup {Retry(a) : a \in RetryActions}

\* policy.decide
Decisions(k, note, signs) ==
  CASE policy = "none" -> {Accept(SkipCategoryFor(note, signs))}
    [] policy = "deterministic" -> {DeterministicDecision(k, note, signs)}
    [] policy = "llm" -> LLMDecisions(k, note, signs)

\* knobs_for_action: cache clearing and reinstalling accumulate, the extension does not.
KnobsForActionFresh(action, previous) ==
  CASE action = "retry_clear_caches" -> {"clear_caches"}
    [] action = "retry_increase_timeout" -> {"extra_timeout"}
    [] action = "retry_reinstall" -> {"force_reinstall", "clear_caches"}
    [] action = "retry_plain" -> {}
KnobsForAction(action, previous) ==
  (previous \ {"extra_timeout"}) \cup
    CASE action = "retry_clear_caches" -> {"clear_caches"}
      [] action = "retry_increase_timeout" -> {"extra_timeout"}
      [] action = "retry_reinstall" -> {"force_reinstall", "clear_caches"}
      [] action = "retry_plain" -> {}

\* The limit a run gets; an extension of no limit is a limit: (timeout_s or 0) + extra.
TimeoutOf(on) ==
  IF "extra_timeout" \in on THEN baseTimeout + TimeoutExtension ELSE baseTimeout

-----------------------------------------------------------------------------
Init ==
  /\ policy \in Policies
  /\ budget \in RetryBudgets
  /\ baseTimeout \in BaseTimeouts
  /\ attemptIdx = 0
  /\ knobs = {}
  /\ ran = << >>
  /\ events = << >>
  /\ pc = "measure"
  /\ result = "none"

\* _run_single_measurement; a run is killed only when it has a limit.
Run(r) ==
  /\ pc = "measure"
  /\ r.timedOut => TimeoutOf(knobs) # 0
  /\ ran' = Append(ran, [record |-> r, knobs |-> knobs, limit |-> TimeoutOf(knobs)])
  /\ UNCHANGED <<inputs, attemptIdx, knobs, events>>

MeasureOK == \E r \in Runs :
  /\ MeasurementNote(r) = "metric"
  /\ Run(r)
  /\ pc' = "done"
  /\ result' = "metric"

MeasureFailed == \E r \in Runs :
  /\ MeasurementNote(r) # "metric"
  /\ Run(r)
  /\ pc' = "decide"
  /\ UNCHANGED result

last == ran[Len(ran)].record
lastNote == MeasurementNote(last)

EventAfterEscalation(d) ==
  [note |-> lastNote, action |-> d.action,
   knobs |-> IF d.action = "accept" THEN knobs ELSE KnobsForAction(d.action, knobs)]
Event(d) == [note |-> lastNote, action |-> d.action, knobs |-> knobs]

\* What the policy may answer now.
Choices == IF pc = "decide" THEN Decisions(attemptIdx, lastNote, last.signs) ELSE {}

\* The policy decides, and the decision is recorded before it is acted upon.
Decide(d) ==
  /\ pc = "decide"
  /\ events' = Append(events, Event(d))
  /\ UNCHANGED <<inputs, ran>>

AcceptSkip == \E d \in Choices :
  /\ d.action = "accept"
  /\ Decide(d)
  /\ result' = d.category
  /\ pc' = "done"
  /\ UNCHANGED <<attemptIdx, knobs>>

\* The engine's own ceiling ends the loop on a retry, which has no category.
CapReached == attemptIdx >= MaxRecoveryRetries
StopPastCap == \E d \in Choices :
  /\ d.action # "accept"
  /\ attemptIdx > MaxRecoveryRetries
  /\ Decide(d)
  /\ result' = lastNote
  /\ pc' = "done"
  /\ UNCHANGED <<attemptIdx, knobs>>
StopAtCap == \E d \in Choices :
  /\ d.action # "accept"
  /\ CapReached
  /\ Decide(d)
  /\ result' = lastNote
  /\ pc' = "done"
  /\ UNCHANGED <<attemptIdx, knobs>>

RetryRun == \E d \in Choices :
  /\ d.action # "accept"
  /\ ~CapReached
  /\ Decide(d)
  /\ knobs' = KnobsForAction(d.action, knobs)
  /\ attemptIdx' = attemptIdx + 1
  /\ pc' = "measure"
  /\ UNCHANGED result

Next ==
  \/ MeasureOK
  \/ MeasureFailed
  \/ AcceptSkip
  \/ StopAtCap
  \/ RetryRun

Spec == Init /\ [][Next]_vars

\* One thread; the timeout, when there is one, ends every run.
FairSpec == Spec /\ WF_vars(Next)

-----------------------------------------------------------------------------
(* Correctness.                                                            *)

Categories == ModelCategories \cup EnvSkips \cup
              {"host_blocker", "plan_issue", "harness_blocked", "infra"}
Notes == EnvSkips \cup ProbeNotes \cup
         {"metric", "candidate_timeout", "runner_command_failed",
          "missing_perf_smoke_test_result", "tooling_mismatch", "metric_unavailable"}

TypeOK ==
  /\ policy \in Policies
  /\ budget \in RetryBudgets
  /\ baseTimeout \in BaseTimeouts
  /\ attemptIdx \in 0 .. MaxRecoveryRetries
  /\ knobs \subseteq Knobs
  /\ ran \in Seq([record : Runs, knobs : SUBSET Knobs, limit : Nat])
  /\ events \in Seq([note : Notes, action : {"accept"} \cup RetryActions,
                     knobs : SUBSET Knobs])
  /\ pc \in {"measure", "decide", "done"}
  /\ result \in {"none"} \cup Categories \cup Notes

\* A commit is never run more often than the policy's budget and the engine's own
\* ceiling allow, and exactly once without recovery, whatever a model answers.
RetriesWithinBudget ==
  /\ Len(ran) <= 1 + MaxRecoveryRetries
  /\ Len(ran) > 1 => policy # "none" /\ Len(ran) <= 1 + budget

\* A condition no retry can fix is never retried: an unavailable pin under any policy;
\* without a model also a host blocker, the tooling boundary, a failed checkout and a
\* terminal probe (DeterministicRecoveryPolicy.decide, LLMRecoveryPolicy.decide).
UnfixableNotRetried ==
  \A k \in 1 .. Len(ran) - 1 :
    LET r == ran[k].record
        note == MeasurementNote(r)
    IN /\ note # "dependency_unavailable"
       /\ policy = "deterministic" =>
            ~HostBlocked(r.signs) /\ note \notin NotRetryable \cup ProbeNotes

\* The recorded events are the history of the failed runs: one per run, in order, with
\* the note that run had and the knobs its command was really given.
EventsTellTheRuns ==
  pc # "decide" =>
    /\ Len(events) = IF result = "metric" THEN Len(ran) - 1 ELSE Len(ran)
    /\ \A k \in 1 .. Len(events) :
         /\ events[k].note = MeasurementNote(ran[k].record)
         /\ events[k].knobs = ran[k].knobs

\* Whatever the policy accepts leaves with a skip category; a bare friction note is
\* returned only when the engine's ceiling cut off a policy that would have gone on.
SkipsAreCategorised ==
  pc = "done" /\ result \notin Categories \cup {"metric"} =>
    Len(ran) = 1 + MaxRecoveryRetries /\ budget > MaxRecoveryRetries

\* Once caches are cleared, or the environment is rebuilt, for a retry, every later retry
\* of the measurement does it too (knobs_for_action).
ClearingAccumulates ==
  \A j, k \in 1 .. Len(ran) :
    j < k => ran[j].knobs \cap {"clear_caches", "force_reinstall"} \subseteq ran[k].knobs

\* Under the deterministic policy the tooling boundary is reported as such, so that the
\* search stops there, unless the log blames the host.
ToolingBoundaryKept ==
  policy = "deterministic" /\ pc = "done" /\ ~HostBlocked(last.signs)
    /\ lastNote = "perf_smoke_tooling_incompatible"
      => result = "perf_smoke_tooling_incompatible"

\* Every measurement ends, with a metric or a skip.
Termination == <>(pc = "done")

\* What the documentation says, and the code does not do: see the violation runs.

\* "the search does not step around it as a hole" (reference.md): a measurement whose
\* last run met the tooling boundary is returned with that note.
ToolingBoundaryEndsTheSearch ==
  pc = "done" /\ lastNote = "perf_smoke_tooling_incompatible"
    => result = "perf_smoke_tooling_incompatible"

=============================================================================
