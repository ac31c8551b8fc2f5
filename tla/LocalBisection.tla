---------------------------- MODULE LocalBisection ----------------------------
(***************************************************************************)
(* Successive runs of engine.run_local_bisection on one work directory:    *)
(* both references are measured, their signal is checked, the candidates   *)
(* are searched, and artifacts.finalize_run_artifacts turns what lies in   *)
(* the directory into a report.  A run may die anywhere; the next one,     *)
(* perhaps with another range or another task, finds what was left.        *)
(*                                                                         *)
(* Commits are positions of a linear history.  A measurement is one        *)
(* sample, retried at most once into the sibling directory of a retry: a   *)
(* warmup or a further sample only adds attempts in other directories.     *)
(* The order of the search is module BisectSearch's matter; here it tests  *)
(* any commit between its bounds, as module IntervalNarrowing allows.      *)
(***************************************************************************)
EXTENDS Integers, Sequences, SequencesExt

CONSTANTS
  Plans,                \* [good, bad, setup]: a range, and a task with a backend
  MaxRuns               \* bound: runs considered

ASSUME PlansAssumption ==
  /\ \A p \in Plans : p.good \in Nat /\ p.bad \in Nat /\ p.good < p.bad
  /\ MaxRuns \in Nat

VARIABLES
  attempts,             \* attempt_summary.json files, in the order they were last written
  results,              \* results/<commit>.json
  blockers,             \* terminal_blocker of blockers.json
  status,               \* status.json
  summary,              \* summary.json
  run,                  \* the number of the run
  plan,                 \* its plan
  pc,                   \* where it is
  current,              \* the measurement under way
  refs,                 \* artifact directories of its qualified references
  lastGood, firstBad,   \* the bounds of its search
  tested, holes,        \* the candidates it evaluated, and those it skipped
  verdict,              \* the BisectionSummary it is about to write
  response              \* what the Skill adapter answers once the process has ended

disk == <<attempts, results, blockers, status, summary>>
search == <<lastGood, firstBad, tested, holes>>
process == <<run, plan, refs, search>>
vars == <<disk, process, pc, current, verdict, response>>

Setups == {p.setup : p \in Plans}
Commits == UNION {p.good .. p.bad : p \in Plans}
Labels == {"good_ref", "bad_ref", "candidate"}

\* measurements/<label>/<commit>/<task>/<backend>/run_1, or run_1_r1 for a retry.
Dirs == [label : Labels, commit : Commits, setup : Setups, retry : {0, 1}]
Attempts == [dir : Dirs, run : 1 .. MaxRuns, outcome : {"measured", "failed", "tooling"}]

None == [none |-> TRUE]
Torn == [torn |-> TRUE]
NoCommit == -1
NotTested == [verdict |-> "none", run |-> 0]

-----------------------------------------------------------------------------
(* The files.                                                              *)

File(outcome) == [dir |-> current, run |-> run, outcome |-> outcome]
\* Where the summary of an earlier measurement in the same directory is: at most one.
Earlier == {k \in DOMAIN attempts : attempts[k].dir = current}
WithoutCurrent ==
  IF Earlier = {} THEN attempts ELSE RemoveAt(attempts, CHOOSE k \in Earlier : TRUE)

RewrittenInPlace(outcome) ==
  IF Earlier = {} THEN Append(attempts, File(outcome))
  ELSE [k \in DOMAIN attempts |-> IF k \in Earlier THEN File(outcome) ELSE attempts[k]]
\* write_attempt_summary; generated_at orders the summaries by their last write.
Rewritten(outcome) == Append(WithoutCurrent, File(outcome))

WriteAttempt(outcome) == attempts' = Rewritten(outcome)

\* write_status copies the terminal blocker of whatever blockers.json there is.
StatusFile(phase, state) ==
  [phase |-> phase, status |-> state, run |-> run, blocker |-> blockers]
WriteStatus(phase, state) == status' = StatusFile(phase, state)

Measure(label, commit) ==
  /\ current' = [label |-> label, commit |-> commit, setup |-> plan'.setup, retry |-> 0]
  /\ pc' = "measure"

Conclude(state, reason, suspected, good) ==
  /\ verdict' = [status |-> state, reason |-> reason, suspected |-> suspected,
                 lastGood |-> good]
  /\ pc' = "finalize"

\* A process begins, or ends, with nothing in its memory but the plan.
Forget(p) ==
  /\ plan' = p
  /\ refs' = {}
  /\ lastGood' = p.good
  /\ firstBad' = p.bad
  /\ tested' = {}
  /\ holes' = {}
  /\ verdict' = None

Init ==
  /\ attempts = << >>
  /\ results = [c \in Commits |-> NotTested]
  /\ blockers = None
  /\ status = [phase |-> "none", status |-> "none", run |-> 0, blocker |-> None]
  /\ summary = None
  /\ run = 0
  /\ plan \in Plans
  /\ pc = "idle"
  /\ current = None
  /\ refs = {}
  /\ lastGood = plan.good
  /\ firstBad = plan.bad
  /\ tested = {}
  /\ holes = {}
  /\ verdict = None
  /\ response = None

Fresh(p) ==
  /\ pc = "idle"
  /\ run < MaxRuns
  /\ run' = run + 1
  /\ Forget(p)
  /\ UNCHANGED <<attempts, results, blockers, summary>>

\* skill_api._run_harness: the process's exit code, and the summary.json that is there.
Respond(exit, left) ==
  response' = IF left = Torn THEN [exit |-> 2, result |-> None, status |-> "error"]
              ELSE [exit |-> exit, result |-> left,
                    status |-> IF left = None THEN "inconclusive" ELSE left.status]

\* The tooling snapshot cannot be made: no measurement at all.
ToolingBlocked == \E p \in Plans :
  /\ Fresh(p)
  /\ status' = [StatusFile("tooling_setup", "blocked") EXCEPT !.run = run']
  /\ Respond(2, summary)
  /\ UNCHANGED <<pc, current>>

StartRun == \E p \in Plans :
  /\ Fresh(p)
  /\ status' = [StatusFile("preflight", "running") EXCEPT !.run = run']
  /\ response' = None
  /\ Measure("good_ref", p.good)

-----------------------------------------------------------------------------
(* A measurement; its outcome decides, with its label, how the run goes on. *)

\* Only a failed attempt is retried; the retry writes into a directory of its own.
Retry ==
  /\ pc = "measure"
  /\ current.retry = 0
  /\ WriteAttempt("failed")
  /\ current' = [current EXCEPT !.retry = 1]
  /\ UNCHANGED <<results, blockers, status, summary, process, pc, verdict, response>>

Measured(label, outcome) ==
  /\ pc = "measure"
  /\ current.label = label
  /\ WriteAttempt(outcome)
  /\ UNCHANGED <<blockers, summary, run, plan, response>>

QualifyGood ==
  /\ Measured("good_ref", "measured")
  /\ refs' = {current}
  /\ WriteStatus("preflight", "running")
  /\ Measure("bad_ref", plan.bad)
  /\ UNCHANGED <<results, search, verdict>>

QualifyBad ==
  /\ Measured("bad_ref", "measured")
  /\ refs' = refs \cup {current}
  /\ pc' = "signal"
  /\ UNCHANGED <<results, status, current, search, verdict>>

ReferenceFails == \E label \in {"good_ref", "bad_ref"}, outcome \in {"failed", "tooling"} :
  /\ Measured(label, outcome)
  /\ refs' = refs \cup {current}
  /\ IF outcome = "tooling"
     THEN Conclude("unsupported_tooling_contract", "tooling_incompatible", NoCommit, NoCommit)
     ELSE Conclude("inconclusive", label, NoCommit, NoCommit)
  /\ UNCHANGED <<results, status, current, search>>

\* check_reference_signal: too noisy, or no regression to look for.
SignalMissing ==
  /\ pc = "signal"
  /\ Conclude("inconclusive", "not_reproduced", NoCommit, plan.good)
  /\ UNCHANGED <<disk, process, current, response>>

SignalReproduced ==
  /\ pc = "signal"
  /\ pc' = "search"
  /\ UNCHANGED <<disk, process, current, verdict, response>>

between == lastGood + 1 .. firstBad - 1

untested == between \ tested

TestCandidate == \E c \in untested :
  /\ pc = "search"
  /\ WriteStatus("running", "running")
  /\ UNCHANGED <<attempts, results, blockers, summary, process, verdict, response>>
  /\ Measure("candidate", c)

WriteResultOnce(v) ==
  results' = IF results[current.commit] # NotTested THEN results
             ELSE [results EXCEPT ![current.commit] = [verdict |-> v, run |-> run]]
WriteResult(v) ==
  results' = [results EXCEPT ![current.commit] = [verdict |-> v, run |-> run]]

Evaluated(outcome, v) ==
  /\ Measured("candidate", outcome)
  /\ WriteResult(v)
  /\ tested' = tested \cup {current.commit}
  /\ UNCHANGED <<status, current, refs>>

CandidateGood ==
  /\ Evaluated("measured", "GOOD")
  /\ lastGood' = current.commit
  /\ pc' = "search"
  /\ UNCHANGED <<firstBad, holes, verdict>>

CandidateBad ==
  /\ Evaluated("measured", "BAD")
  /\ firstBad' = current.commit
  /\ pc' = "search"
  /\ UNCHANGED <<lastGood, holes, verdict>>

CandidateUnclear ==
  /\ Evaluated("measured", "UNCLEAR")
  /\ Conclude("inconclusive", "candidate_unclear", firstBad, lastGood)
  /\ UNCHANGED <<lastGood, firstBad, holes>>

CandidateSkipped ==
  /\ Evaluated("failed", "SKIP")
  /\ holes' = holes \cup {current.commit}
  /\ pc' = "search"
  /\ UNCHANGED <<lastGood, firstBad, verdict>>

CandidateUnsupported ==
  /\ Evaluated("tooling", "SKIP")
  /\ holes' = holes \cup {current.commit}
  /\ Conclude("unsupported_tooling_contract", "tooling_incompatible", NoCommit, lastGood)
  /\ UNCHANGED <<lastGood, firstBad>>

SearchEnds ==
  /\ pc = "search"
  /\ \/ /\ between = {}
        /\ Conclude("completed", "first_bad_found", firstBad, lastGood)
     \/ /\ between # {}
        /\ between \subseteq holes
        /\ Conclude("inconclusive_holes", "candidates_unevaluable", firstBad, lastGood)
     \/ /\ between # {}
        /\ Conclude("inconclusive", "max_tests_reached", firstBad, lastGood)
  /\ UNCHANGED <<disk, process, current, response>>

-----------------------------------------------------------------------------
(* finalize_run_artifacts, and the end of the process.                     *)

OfThisSetupForgotten(a) == a.dir.commit \in tested
\* _filter_attempt_summaries: the references' own directories, and whatever was measured
\* of an evaluated candidate under this task and backend.
OfThisSetup(a) == a.dir.commit \in tested /\ a.dir.setup = plan.setup
Belongs(a) == a.dir \in refs \/ OfThisSetup(a)

\* The positions of the attempts the index lists.
IndexedAttempts ==
  LET kept == {k \in DOMAIN attempts : Belongs(attempts[k])}
  IN IF kept = {} THEN DOMAIN attempts ELSE kept

\* classify_blocker: an attempt without a metric has a blocker.  It has none without a note or
\* sign of a failure, but no such attempt ends without a note.
BlockedAttempts == {k \in IndexedAttempts : attempts[k].outcome # "measured"}

\* _choose_terminal_blocker: the failed reference, else the last attempt if it failed,
\* else the last failure.
TerminalBlocker(reason) ==
  LET failedRef == {k \in BlockedAttempts :
                      attempts[k].dir \in refs /\ attempts[k].dir.label = reason}
  IN IF BlockedAttempts = {} THEN None
     ELSE attempts[Max(IF failedRef # {} THEN failedRef ELSE BlockedAttempts)]

\* _candidate_decision
Decision(commit) == IF commit = NoCommit THEN NotTested ELSE results[commit]

Finalize ==
  /\ pc = "finalize"
  /\ blockers' = TerminalBlocker(verdict.reason)
  /\ verdict' = [status |-> verdict.status, reason |-> verdict.reason,
                 suspected |-> verdict.suspected, lastGood |-> verdict.lastGood,
                 run |-> run, plan |-> plan, tested |-> tested,
                 index |-> {attempts[k] : k \in IndexedAttempts}, blocker |-> blockers',
                 goodDecision |-> Decision(verdict.lastGood),
                 badDecision |-> Decision(verdict.suspected)]
  /\ pc' = "summary"
  /\ UNCHANGED <<attempts, results, status, summary, process, current, response>>

SummaryForgotten ==
  /\ pc = "summary"
  /\ pc' = "exit"
  /\ UNCHANGED <<disk, process, current, verdict, response>>
WriteSummary ==
  /\ pc = "summary"
  /\ summary' = verdict
  /\ pc' = "exit"
  /\ UNCHANGED <<attempts, results, blockers, status, process, current, verdict, response>>

\* The second is the end of a range probe, which is module RangeProbe's.
SuccessfulIfStarted == {"completed", "probe_completed", "inconclusive_holes"}
Successful == {"completed", "probe_completed"}

Exit ==
  /\ pc = "exit"
  /\ IF verdict.status \in Successful
     THEN WriteStatus("completed", verdict.status) /\ Respond(0, summary)
     ELSE WriteStatus("failed", verdict.status) /\ Respond(2, summary)
  /\ Forget(plan)
  /\ pc' = "idle"
  /\ current' = None
  /\ UNCHANGED <<attempts, results, blockers, summary, run>>

\* What a death leaves of the measurement: its summary as it was, new, or cut off; and
\* for a candidate that was measured, its result as it was or cut off.
MeasurementCut ==
  IF pc = "measure"
  THEN {[a |-> attempts, r |-> results], [a |-> WithoutCurrent, r |-> results]}
         \cup {[a |-> Rewritten(o), r |-> r] : o \in {"measured", "failed", "tooling"},
               r \in {results} \cup IF current.label # "candidate" THEN {}
                                   ELSE {[results EXCEPT ![current.commit] = NotTested]}}
  ELSE {[a |-> attempts, r |-> results]}

\* The process dies.  A file cut off while it was written reads like an absent one; only
\* the Skill adapter takes a torn summary.json for an error.
Crash == \E cut \in MeasurementCut :
  /\ pc # "idle"
  /\ attempts' = cut.a
  /\ results' = cut.r
  /\ blockers' \in IF pc = "finalize" THEN {blockers, None} ELSE {blockers}
  /\ summary' \in IF pc = "summary" THEN {summary, Torn} ELSE {summary}
  /\ Respond(1, summary')
  /\ Forget(plan)
  /\ pc' = "idle"
  /\ current' = None
  /\ UNCHANGED <<status, run>>

Step ==
  \/ Retry
  \/ QualifyGood
  \/ QualifyBad
  \/ ReferenceFails
  \/ SignalMissing
  \/ SignalReproduced
  \/ TestCandidate
  \/ CandidateGood
  \/ CandidateBad
  \/ CandidateUnclear
  \/ CandidateSkipped
  \/ CandidateUnsupported
  \/ SearchEnds
  \/ Finalize
  \/ WriteSummary
  \/ Exit

Next == StartRun \/ ToolingBlocked \/ Step \/ Crash

Spec == Init /\ [][Next]_vars

-----------------------------------------------------------------------------
(* Correctness.                                                            *)

TypeOK ==
  /\ attempts \in Seq(Attempts)
  /\ results \in [Commits -> [verdict : {"none", "GOOD", "BAD", "UNCLEAR", "SKIP"},
                              run : 0 .. MaxRuns]]
  /\ blockers \in {None} \cup [dir : Dirs, run : 1 .. MaxRuns, outcome : {"failed", "tooling"}]
  /\ status.phase \in {"none", "tooling_setup", "preflight", "running", "completed", "failed"}
  /\ run \in 0 .. MaxRuns
  /\ plan \in Plans
  /\ pc \in {"idle", "measure", "signal", "search", "finalize", "summary", "exit"}
  /\ current \in {None} \cup Dirs
  /\ refs \subseteq Dirs
  /\ lastGood \in plan.good .. firstBad - 1 /\ firstBad \in plan.good + 1 .. plan.bad
  /\ holes \subseteq tested /\ tested \subseteq plan.good + 1 .. plan.bad - 1

\* What the latest run left as its summary, if it got that far.
Finished == summary \notin {None, Torn} /\ summary.run = run

\* "prevents stale attempts from older task/backend experiments from polluting the final
\* blocker and artifact index" (_filter_attempt_summaries), whatever earlier runs left.
IndexKeepsToTheSetup ==
  Finished => \A a \in summary.index : a.dir.setup = plan.setup

\* A run that ends because a measurement failed is blamed on that very measurement of
\* this run (_choose_terminal_blocker).
FailureIsTheBlocker ==
  pc = "exit" /\ summary.reason \in {"good_ref", "bad_ref", "tooling_incompatible"} =>
    /\ summary.blocker # None
    /\ summary.blocker.dir = current /\ summary.blocker.run = run

\* The report quotes for a boundary commit that this run tested the decision this run
\* made: the last good commit was GOOD and the first bad one BAD.
BoundaryIsThisRuns ==
  Finished =>
    /\ summary.lastGood \in summary.tested =>
         summary.goodDecision = [verdict |-> "GOOD", run |-> run]
    /\ summary.suspected \in summary.tested =>
         summary.badDecision = [verdict |-> "BAD", run |-> run]

\* status.json announces an end only when the summary of that run is on disk and says the
\* same, across deaths of the process.
AnnouncedAfterSummary ==
  status.phase \in {"completed", "failed"} =>
    summary \notin {None, Torn} /\ summary.run >= status.run
      /\ (summary.run = status.run => summary.status = status.status)

\* A process of bisect-range that exits with 0 has, in this very run, narrowed the range to a
\* commit whose predecessor was good.
ExitZeroIsExact ==
  response # None /\ response.exit = 0 =>
    /\ response.result.run = run
    /\ response.result.suspected = response.result.lastGood + 1

\* What the documentation says, and the code does not do: see the violation runs.

\* "Accept a culprit only when status is completed" (perf-bisect-range/SKILL.md): what the
\* adapter calls completed is the outcome of the run it was asked for.
CompletedIsThisRuns ==
  response # None /\ response.status = "completed" => response.result.run = run

=============================================================================
