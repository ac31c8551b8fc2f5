------------------------- MODULE LocalBisectionProofs -------------------------
(***************************************************************************)
(* Successive runs on one work directory: what the report of a run says.   *)
(*                                                                         *)
(* For every set of ranges and tasks, any number of runs, and deaths of    *)
(* the process anywhere: the report of a run lists attempts of its own     *)
(* task only, blames the failure that ended the run, quotes the decisions  *)
(* this run made, and is on disk before an end is announced; and a process *)
(* that exits with 0 has narrowed the range to one step.                   *)
(***************************************************************************)
EXTENDS LocalBisection, SequenceTheorems, WellFoundedInduction, TLAPS

References == {"good_ref", "bad_ref"}

\* A directory has one attempt_summary.json: a measurement repeated in it replaces it.
OneSummaryEach ==
  \A j, k \in DOMAIN attempts : attempts[j].dir = attempts[k].dir => j = k

\* The references of the run have a summary on disk, one for each side, of its setup.
RefsOnDisk ==
  /\ \A d \in refs : /\ d.label \in References /\ d.setup = plan.setup
                     /\ \E k \in DOMAIN attempts : attempts[k].dir = d
  /\ \A d, e \in refs : d.label = e.label => d = e

\* What is measured, and what the run knows by then.
Progress ==
  /\ IF pc = "idle" THEN refs = {} /\ tested = {} ELSE run \in 1 .. MaxRuns
  /\ pc = "signal" => tested = {}
  /\ pc \in {"signal", "search", "finalize"} => refs # {}
  /\ pc = "measure" =>
       /\ current \in Dirs /\ current.setup = plan.setup
       /\ current.label = "good_ref" => refs = {} /\ tested = {}
       /\ current.label = "bad_ref" =>
            refs # {} /\ tested = {} /\ \A d \in refs : d.label = "good_ref"
       /\ current.label = "candidate" =>
            refs # {} /\ current.commit \in between /\ current.commit \notin tested

\* A bound the search moved has the result of this run.
BoundsAreDecided ==
  /\ lastGood \in tested => results[lastGood] = [verdict |-> "GOOD", run |-> run]
  /\ firstBad \in tested => results[firstBad] = [verdict |-> "BAD", run |-> run]

\* The measurement that ended the run was written last, failed, and is the run's own.
FailedLast ==
  /\ attempts # << >>
  /\ LET last == attempts[Len(attempts)]
     IN last.dir = current /\ last.run = run /\ last.outcome # "measured"
  /\ \/ current \in refs
     \/ current.commit \in tested /\ current.setup = plan.setup

Failures == References \cup {"tooling_incompatible"}

Concluded ==
  pc = "finalize" =>
    /\ verdict.lastGood \in {NoCommit, plan.good, lastGood}
    /\ verdict.suspected \in {NoCommit, firstBad}
    /\ verdict.status \in Successful => verdict.suspected = verdict.lastGood + 1
    /\ verdict.reason \in Failures => FailedLast
    /\ verdict.reason \in References => current \in refs /\ current.label = verdict.reason

\* What every report of the current run says.
Faithful(v) ==
  /\ v \notin {None, Torn}
  /\ v.run = run
  /\ v.status \in Successful => v.suspected = v.lastGood + 1
  /\ \A a \in v.index : a.dir.setup = plan.setup
  /\ v.reason \in Failures => v.blocker # None /\ v.blocker.dir = current /\ v.blocker.run = run
  /\ v.lastGood \in v.tested => v.goodDecision = [verdict |-> "GOOD", run |-> run]
  /\ v.suspected \in v.tested => v.badDecision = [verdict |-> "BAD", run |-> run]

Reported ==
  /\ pc \in {"summary", "exit"} => Faithful(verdict)
  /\ pc = "exit" => summary = verdict
  /\ summary \notin {None, Torn} => summary.run \in Int /\ summary.run <= run

\* A run that goes on has announced nothing, and nobody has been answered.
Announcements ==
  /\ status.run \in Int /\ status.run <= run
  /\ pc # "idle" => status.phase \notin {"completed", "failed"} /\ response = None

IInv ==
  /\ TypeOK
  /\ OneSummaryEach
  /\ RefsOnDisk
  /\ Progress
  /\ BoundsAreDecided
  /\ Concluded
  /\ Reported
  /\ Announcements
  /\ IndexKeepsToTheSetup
  /\ BoundaryIsThisRuns
  /\ AnnouncedAfterSummary
  /\ ExitZeroIsExact

-----------------------------------------------------------------------------
(* The summaries of the attempts.                                          *)

\* A non-empty set of positions has a last one, and Max finds it.
LEMMA LastPosition ==
  ASSUME NEW n \in Nat, NEW S \in SUBSET (1 .. n), S # {}
  PROVE  Max(S) \in S /\ \A k \in S : k <= Max(S)
<1> DEFINE Below == OpToRel(<, Nat)
           FromEnd == {n - k : k \in S}
<1>1. \A a, b \in Nat : a < b => <<a, b>> \in Below
  BY DEF OpToRel
<1>2. IsWellFoundedOn(Below, Nat)
  BY NatLessThanWellFounded
<1>3. FromEnd \in SUBSET Nat /\ FromEnd # {}
  <2>1. \A k \in S : n - k \in Nat
    OBVIOUS
  <2> QED BY <2>1
<1> HIDE DEF Below
<1>4. PICK x \in FromEnd : \A y \in FromEnd : ~(<<y, x>> \in Below)
  BY <1>2, <1>3, WFMin
<1>5. PICK m \in S : x = n - m
  OBVIOUS
<1>6. ASSUME NEW k \in S PROVE k <= m
  <2>1. n - k \in FromEnd /\ n - k \in Nat /\ n - m \in Nat
    OBVIOUS
  <2>2. ~(n - k < n - m)
    BY <1>1, <1>4, <1>5, <2>1, Zenon
  <2> QED BY <2>1, <2>2
<1> QED BY <1>5, <1>6 DEF Max

\* Removing one position keeps the others, in their order.
LEMMA RemoveOne ==
  ASSUME NEW S, NEW s \in Seq(S), NEW at \in DOMAIN s
  PROVE  /\ RemoveAt(s, at) \in Seq(S)
         /\ Len(RemoveAt(s, at)) = Len(s) - 1
         /\ \A k \in 1 .. Len(s) - 1 :
              RemoveAt(s, at)[k] = IF k < at THEN s[k] ELSE s[k + 1]
<1> DEFINE before == SubSeq(s, 1, at - 1)
           after == SubSeq(s, at + 1, Len(s))
<1>1. at \in 1 .. Len(s) /\ Len(s) \in Nat /\ \A k \in 1 .. Len(s) : s[k] \in S
  OBVIOUS
<1>2. /\ before \in Seq(S) /\ Len(before) = at - 1
      /\ \A k \in 1 .. at - 1 : before[k] = s[k]
  <2>1. /\ before \in Seq(S) /\ Len(before) = IF 1 <= at - 1 THEN at - 1 - 1 + 1 ELSE 0
        /\ \A k \in 1 .. at - 1 - 1 + 1 : before[k] = s[1 + k - 1]
    BY <1>1, SubSeqProperties
  <2> HIDE DEF before
  <2> QED BY <1>1, <2>1
<1>3. /\ after \in Seq(S) /\ Len(after) = Len(s) - at
      /\ \A k \in 1 .. Len(s) - at : after[k] = s[at + k]
  <2>1. /\ after \in Seq(S)
        /\ Len(after) = IF at + 1 <= Len(s) THEN Len(s) - (at + 1) + 1 ELSE 0
        /\ \A k \in 1 .. Len(s) - (at + 1) + 1 : after[k] = s[at + 1 + k - 1]
    BY <1>1, SubSeqProperties
  <2> HIDE DEF after
  <2> QED BY <1>1, <2>1
<1>4. RemoveAt(s, at) = before \o after
  BY DEF RemoveAt
<1> HIDE DEF before, after
<1>5. /\ before \o after \in Seq(S) /\ Len(before \o after) = Len(s) - 1
      /\ \A k \in 1 .. Len(s) - 1 :
           (before \o after)[k] = IF k <= at - 1 THEN before[k] ELSE after[k - (at - 1)]
  BY <1>1, <1>2, <1>3, ConcatProperties
<1>6. ASSUME NEW k \in 1 .. Len(s) - 1
      PROVE  (before \o after)[k] = IF k < at THEN s[k] ELSE s[k + 1]
  <2>1. CASE k < at
    BY <1>1, <1>2, <1>5, <2>1
  <2>2. CASE ~(k < at)
    <3>1. k - (at - 1) \in 1 .. Len(s) - at /\ at + (k - (at - 1)) = k + 1
      BY <1>1, <2>2
    <3>2. after[k - (at - 1)] = s[k + 1]
      BY <1>3, <3>1
    <3>3. (before \o after)[k] = after[k - (at - 1)]
      BY <1>1, <1>5, <2>2
    <3> QED BY <2>2, <3>2, <3>3
  <2> QED BY <2>1, <2>2
<1> QED BY <1>4, <1>5, <1>6

\* What is left of the summaries when the one of the measurement under way is gone.
LEMMA Others ==
  ASSUME TypeOK, OneSummaryEach
  PROVE  /\ WithoutCurrent \in Seq(Attempts)
         /\ \A k \in DOMAIN WithoutCurrent : WithoutCurrent[k].dir # current
         /\ \A d : (d # current /\ \E k \in DOMAIN attempts : attempts[k].dir = d)
              => \E k \in DOMAIN WithoutCurrent : WithoutCurrent[k].dir = d
         /\ \A j, k \in DOMAIN WithoutCurrent :
              WithoutCurrent[j].dir = WithoutCurrent[k].dir => j = k
<1>1. attempts \in Seq(Attempts)
  BY DEF TypeOK
<1>2. CASE Earlier = {}
  BY <1>1, <1>2 DEF WithoutCurrent, Earlier, OneSummaryEach
<1>3. CASE Earlier # {}
  <2> DEFINE at == CHOOSE k \in Earlier : TRUE
             w == RemoveAt(attempts, at)
  <2>1. at \in DOMAIN attempts /\ attempts[at].dir = current
    BY <1>3 DEF Earlier
  <2>2. \A k \in DOMAIN attempts : attempts[k].dir = current => k = at
    BY <2>1 DEF OneSummaryEach
  <2>3. w = WithoutCurrent
    BY <1>3 DEF WithoutCurrent
  <2> HIDE DEF at
  <2>4. /\ w \in Seq(Attempts) /\ Len(w) = Len(attempts) - 1
        /\ \A k \in 1 .. Len(attempts) - 1 : w[k] = IF k < at THEN attempts[k] ELSE attempts[k + 1]
    BY <1>1, <2>1, RemoveOne
  <2> HIDE DEF w
  <2>5. DOMAIN w = 1 .. Len(attempts) - 1 /\ DOMAIN attempts = 1 .. Len(attempts)
        /\ Len(attempts) \in Nat /\ at \in 1 .. Len(attempts)
    BY <1>1, <2>1, <2>4
  <2> DEFINE from(k) == IF k < at THEN k ELSE k + 1
  <2>f. \A k \in DOMAIN w : /\ from(k) \in DOMAIN attempts /\ from(k) # at
                            /\ w[k] = attempts[from(k)]
    BY <2>4, <2>5
  <2>6. \A k \in DOMAIN w : w[k].dir # current
    BY <2>2, <2>f
  <2>7. ASSUME NEW d, d # current, NEW k \in DOMAIN attempts, attempts[k].dir = d
        PROVE  \E j \in DOMAIN w : w[j].dir = d
    <3>1. k # at
      BY <2>1, <2>7
    <3>2. CASE k < at
      <4>1. k \in DOMAIN w /\ w[k].dir = d
        BY <2>4, <2>5, <2>7, <3>2
      <4> QED BY <4>1
    <3>3. CASE k > at
      <4>1. k - 1 \in DOMAIN w /\ w[k - 1].dir = d
        BY <2>4, <2>5, <2>7, <3>3
      <4> QED BY <4>1
    <3> QED BY <2>5, <3>1, <3>2, <3>3
  <2>8. ASSUME NEW j \in DOMAIN w, NEW k \in DOMAIN w, w[j].dir = w[k].dir
        PROVE  j = k
    <3>1. from(j) = from(k)
      BY <2>8, <2>f DEF OneSummaryEach
    <3> QED BY <2>5, <3>1
  <2> QED BY <2>3, <2>4, <2>6, <2>7, <2>8
<1> QED BY <1>2, <1>3

\* Writing a summary: it is the last one, and no other is lost.
LEMMA Writing ==
  ASSUME TypeOK, OneSummaryEach, current \in Dirs, run \in 1 .. MaxRuns,
         NEW o \in {"measured", "failed", "tooling"}
  PROVE  /\ Rewritten(o) \in Seq(Attempts) /\ Rewritten(o) # << >>
         /\ Rewritten(o)[Len(Rewritten(o))] = File(o)
         /\ \A d : (d = current \/ \E k \in DOMAIN attempts : attempts[k].dir = d)
              => \E k \in DOMAIN Rewritten(o) : Rewritten(o)[k].dir = d
         /\ \A j, k \in DOMAIN Rewritten(o) :
              Rewritten(o)[j].dir = Rewritten(o)[k].dir => j = k
<1> DEFINE w == WithoutCurrent
           r == Append(w, File(o))
<1>1. r = Rewritten(o)
  BY DEF Rewritten
<1>2. File(o) \in Attempts /\ File(o).dir = current
  BY DEF File, Attempts
<1>3. /\ w \in Seq(Attempts)
      /\ \A k \in DOMAIN w : w[k].dir # current
      /\ \A d : (d # current /\ \E k \in DOMAIN attempts : attempts[k].dir = d)
           => \E k \in DOMAIN w : w[k].dir = d
      /\ \A j, k \in DOMAIN w : w[j].dir = w[k].dir => j = k
  BY Others, Zenon
<1> HIDE DEF w
<1>4. /\ r \in Seq(Attempts) /\ Len(r) = Len(w) + 1 /\ r[Len(w) + 1] = File(o)
      /\ \A k \in 1 .. Len(w) : r[k] = w[k]
  BY <1>2, <1>3
<1> HIDE DEF r
<1>5. DOMAIN r = 1 .. Len(w) + 1 /\ DOMAIN w = 1 .. Len(w) /\ Len(w) \in Nat
  BY <1>3, <1>4
<1>6. r # << >> /\ r[Len(r)] = File(o)
  BY <1>4, <1>5
<1>7. ASSUME NEW d, d = current \/ \E k \in DOMAIN attempts : attempts[k].dir = d
      PROVE  \E k \in DOMAIN r : r[k].dir = d
  <2>1. CASE d = current
    BY <1>2, <1>4, <1>5, <2>1
  <2>2. CASE d # current
    <3>1. PICK k \in DOMAIN w : w[k].dir = d
      BY <1>3, <1>7, <2>2
    <3> QED BY <1>4, <1>5, <3>1
  <2> QED BY <2>1, <2>2
<1>8. ASSUME NEW j \in DOMAIN r, NEW k \in DOMAIN r, r[j].dir = r[k].dir
      PROVE  j = k
  <2>1. CASE j = Len(w) + 1 /\ k # Len(w) + 1
    BY <1>2, <1>3, <1>4, <1>5, <1>8, <2>1
  <2>2. CASE k = Len(w) + 1 /\ j # Len(w) + 1
    BY <1>2, <1>3, <1>4, <1>5, <1>8, <2>2
  <2>3. CASE j # Len(w) + 1 /\ k # Len(w) + 1
    BY <1>3, <1>4, <1>5, <1>8, <2>3
  <2> QED BY <2>1, <2>2, <2>3
<1> QED BY <1>1, <1>4, <1>6, <1>7, <1>8

\* What a step that writes the summary of the measurement under way leaves.
LEMMA Written ==
  ASSUME IInv, pc = "measure", NEW o \in {"measured", "failed", "tooling"}, WriteAttempt(o)
  PROVE  /\ attempts' \in Seq(Attempts) /\ attempts' # << >>
         /\ attempts'[Len(attempts')] = File(o)
         /\ \A d : (d = current \/ \E k \in DOMAIN attempts : attempts[k].dir = d)
              => \E k \in DOMAIN attempts' : attempts'[k].dir = d
         /\ OneSummaryEach'
<1>1. current \in Dirs /\ run \in 1 .. MaxRuns
  BY DEF IInv, Progress
<1>2. attempts' = Rewritten(o)
  BY DEF WriteAttempt
<1>3. TypeOK /\ OneSummaryEach
  BY DEF IInv
<1>4. /\ Rewritten(o) \in Seq(Attempts) /\ Rewritten(o) # << >>
      /\ Rewritten(o)[Len(Rewritten(o))] = File(o)
      /\ \A d : (d = current \/ \E k \in DOMAIN attempts : attempts[k].dir = d)
           => \E k \in DOMAIN Rewritten(o) : Rewritten(o)[k].dir = d
      /\ \A j, k \in DOMAIN Rewritten(o) :
           Rewritten(o)[j].dir = Rewritten(o)[k].dir => j = k
  BY <1>1, <1>3, Writing
<1> QED BY <1>2, <1>4 DEF OneSummaryEach

-----------------------------------------------------------------------------
(* Every step of a run keeps the invariant.                                *)

\* Before the run has a report, what was reported stands.
LEMMA EarlierReports ==
  ASSUME IInv, pc # "idle", pc' # "idle", pc' # "exit", UNCHANGED <<summary, run, plan, response>>,
         status' = status \/ status' = StatusFile("preflight", "running")
                         \/ status' = StatusFile("running", "running")
  PROVE  /\ Announcements' /\ IndexKeepsToTheSetup' /\ BoundaryIsThisRuns'
         /\ AnnouncedAfterSummary' /\ ExitZeroIsExact'
         /\ status'.phase \in {"none", "tooling_setup", "preflight", "running", "completed", "failed"}
         /\ summary' \notin {None, Torn} => summary'.run \in Int /\ summary'.run <= run'
<1>1. /\ status'.phase \notin {"completed", "failed"}
      /\ status'.run \in Int /\ status'.run <= run /\ run \in Int
      /\ status'.phase \in {"none", "tooling_setup", "preflight", "running", "completed", "failed"}
  BY PlansAssumption DEF IInv, TypeOK, Announcements, StatusFile
<1> QED BY <1>1 DEF IInv, Announcements, IndexKeepsToTheSetup, BoundaryIsThisRuns, Finished,
                    AnnouncedAfterSummary, ExitZeroIsExact, Reported

\* The first attempt failed and is repeated in a directory of its own.
LEMMA RetryStep == ASSUME IInv, Retry PROVE IInv'
<1>1. /\ attempts' \in Seq(Attempts)
      /\ \A d : (\E k \in DOMAIN attempts : attempts[k].dir = d)
           => \E k \in DOMAIN attempts' : attempts'[k].dir = d
      /\ OneSummaryEach'
  BY Written DEF Retry
<1>2. /\ pc = "measure" /\ pc' = pc /\ current' = [current EXCEPT !.retry = 1]
      /\ UNCHANGED <<results, blockers, status, summary, process, verdict, response>>
  BY DEF Retry
<1>3. /\ current' \in Dirs /\ current'.label = current.label
      /\ current'.setup = current.setup /\ current'.commit = current.commit
  BY <1>2 DEF IInv, Progress, Dirs
<1>4. TypeOK'
  BY <1>1, <1>2, <1>3 DEF IInv, TypeOK, process, search
<1>5. RefsOnDisk'
  BY <1>1, <1>2 DEF IInv, RefsOnDisk, process, search
<1>6. Progress'
  BY <1>2, <1>3 DEF IInv, Progress, process, search, between
<1>7. BoundsAreDecided' /\ Concluded' /\ Reported'
  BY <1>2 DEF IInv, BoundsAreDecided, Concluded, Reported, process, search
<1>8. /\ Announcements' /\ IndexKeepsToTheSetup' /\ BoundaryIsThisRuns'
      /\ AnnouncedAfterSummary' /\ ExitZeroIsExact'
  BY <1>2, EarlierReports DEF process
<1> QED BY <1>1, <1>4, <1>5, <1>6, <1>7, <1>8 DEF IInv

\* A reference was measured; the other one, or the check of their signal, follows.
LEMMA QualifyStep == ASSUME IInv, QualifyGood \/ QualifyBad PROVE IInv'
<1>1. /\ pc = "measure" /\ WriteAttempt("measured")
      /\ UNCHANGED <<results, blockers, summary, run, plan, search, verdict, response>>
      /\ status' = status \/ status' = StatusFile("preflight", "running")
      /\ refs' = refs \cup {current}
      /\ current.label \in References
      /\ \A d \in refs : d.label # current.label
    BY DEF QualifyGood, QualifyBad, Measured, WriteStatus, Measure, IInv, Progress, References
<1>2. /\ attempts' \in Seq(Attempts)
      /\ \A d : (d = current \/ \E k \in DOMAIN attempts : attempts[k].dir = d)
           => \E k \in DOMAIN attempts' : attempts'[k].dir = d
      /\ OneSummaryEach'
  BY <1>1, Written
<1>3. /\ current \in Dirs /\ current.setup = plan.setup /\ run \in 1 .. MaxRuns
      /\ tested = {} /\ plan \in Plans
  BY <1>1 DEF IInv, Progress, References, TypeOK
<1>4. \/ /\ pc' = "signal" /\ current' = current
      \/ /\ pc' = "measure" /\ current' \in Dirs /\ current'.setup = plan.setup
         /\ current'.label = "bad_ref" /\ \A d \in refs' : d.label = "good_ref"
  <2>1. CASE QualifyBad
    BY <2>1 DEF QualifyBad
  <2>2. CASE QualifyGood
    <3>1. plan.bad \in plan.good .. plan.bad
      BY <1>3, PlansAssumption
    <3>2. plan.bad \in Commits /\ plan.setup \in Setups
      BY <1>3, <3>1 DEF Commits, Setups
    <3>3. /\ current' = [label |-> "bad_ref", commit |-> plan.bad, setup |-> plan.setup, retry |-> 0]
          /\ pc' = "measure" /\ refs' = {current} /\ current.label = "good_ref"
      BY <1>1, <2>2 DEF QualifyGood, Measure, Measured
    <3> QED BY <3>2, <3>3 DEF Dirs, Labels
  <2> QED BY <2>1, <2>2
<1>5. pc # "idle" /\ pc' \notin {"idle", "exit", "summary", "finalize", "search"}
  BY <1>1, <1>4
<1>6. /\ Announcements' /\ IndexKeepsToTheSetup' /\ BoundaryIsThisRuns'
      /\ AnnouncedAfterSummary' /\ ExitZeroIsExact'
      /\ status'.phase \in {"none", "tooling_setup", "preflight", "running", "completed", "failed"}
      /\ summary' \notin {None, Torn} => summary'.run \in Int /\ summary'.run <= run'
  BY <1>1, <1>5, EarlierReports
<1>7. TypeOK'
  BY <1>1, <1>2, <1>3, <1>4, <1>6 DEF IInv, TypeOK, search
<1>8. RefsOnDisk'
  BY <1>1, <1>2, <1>3 DEF IInv, RefsOnDisk
<1>9. Progress'
  BY <1>1, <1>3, <1>4 DEF Progress, search
<1>10. BoundsAreDecided' /\ Concluded' /\ Reported'
  BY <1>1, <1>3, <1>5, <1>6 DEF IInv, BoundsAreDecided, Concluded, Reported, search
<1> QED BY <1>2, <1>6, <1>7, <1>8, <1>9, <1>10 DEF IInv

\* A reference that was not measured ends the run.
LEMMA ReferenceFailsStep == ASSUME IInv, ReferenceFails PROVE IInv'
<1>1. PICK label \in References, outcome \in {"failed", "tooling"} :
        /\ Measured(label, outcome)
        /\ refs' = refs \cup {current}
        /\ IF outcome = "tooling"
           THEN Conclude("unsupported_tooling_contract", "tooling_incompatible", NoCommit, NoCommit)
           ELSE Conclude("inconclusive", label, NoCommit, NoCommit)
        /\ UNCHANGED <<results, status, current, search>>
  BY DEF ReferenceFails, References
<1>2. /\ pc = "measure" /\ WriteAttempt(outcome) /\ pc' = "finalize"
      /\ UNCHANGED <<results, blockers, status, summary, run, plan, current, search, response>>
      /\ refs' = refs \cup {current}
      /\ current.label = label
      /\ \A d \in refs : d.label # current.label
    BY <1>1 DEF Measured, Conclude, IInv, Progress, References
<1>3. /\ attempts' \in Seq(Attempts) /\ attempts' # << >>
      /\ attempts'[Len(attempts')] = File(outcome)
      /\ \A d : (d = current \/ \E k \in DOMAIN attempts : attempts[k].dir = d)
           => \E k \in DOMAIN attempts' : attempts'[k].dir = d
      /\ OneSummaryEach'
  BY <1>2, Written
<1>4. /\ current \in Dirs /\ current.setup = plan.setup /\ run \in 1 .. MaxRuns
      /\ tested = {} /\ plan \in Plans
  BY <1>2 DEF IInv, Progress, References, TypeOK
<1>5. /\ Announcements' /\ IndexKeepsToTheSetup' /\ BoundaryIsThisRuns'
      /\ AnnouncedAfterSummary' /\ ExitZeroIsExact'
      /\ status'.phase \in {"none", "tooling_setup", "preflight", "running", "completed", "failed"}
      /\ summary' \notin {None, Torn} => summary'.run \in Int /\ summary'.run <= run'
  BY <1>2, EarlierReports
<1>6. TypeOK'
  BY <1>2, <1>3, <1>4, <1>5 DEF IInv, TypeOK, search
<1>7. RefsOnDisk'
  BY <1>2, <1>3, <1>4 DEF IInv, RefsOnDisk
<1>8. Progress' /\ BoundsAreDecided' /\ Reported'
  BY <1>2, <1>4, <1>5 DEF IInv, Progress, BoundsAreDecided, Reported, search
<1>9. Concluded'
  <2>1. /\ verdict'.lastGood = NoCommit /\ verdict'.suspected = NoCommit
        /\ verdict'.status \notin Successful
        /\ verdict'.reason = IF outcome = "tooling" THEN "tooling_incompatible" ELSE label
    BY <1>1 DEF Conclude, Successful
  <2>2. FailedLast'
    BY <1>2, <1>3 DEF FailedLast, File
  <2> QED BY <1>2, <2>1, <2>2 DEF Concluded, References
<1> QED BY <1>3, <1>5, <1>6, <1>7, <1>8, <1>9 DEF IInv

\* The signal is checked, a candidate is chosen, or the search ends: nothing was measured.
LEMMA DecisionStep ==
  ASSUME IInv, SignalMissing \/ SignalReproduced \/ TestCandidate \/ SearchEnds
  PROVE  IInv'
<1>1. /\ pc \in {"signal", "search"} /\ pc' \in {"finalize", "search", "measure"}
      /\ UNCHANGED <<attempts, results, blockers, summary, process, response>>
      /\ status' = status \/ status' = StatusFile("running", "running")
  BY DEF SignalMissing, SignalReproduced, TestCandidate, SearchEnds, Conclude, Measure,
         WriteStatus, disk
<1>2. /\ Announcements' /\ IndexKeepsToTheSetup' /\ BoundaryIsThisRuns'
      /\ AnnouncedAfterSummary' /\ ExitZeroIsExact'
      /\ status'.phase \in {"none", "tooling_setup", "preflight", "running", "completed", "failed"}
      /\ summary' \notin {None, Torn} => summary'.run \in Int /\ summary'.run <= run'
  BY <1>1, EarlierReports DEF process
<1>3. /\ plan \in Plans /\ plan.good \in Nat /\ plan.bad \in Nat
      /\ lastGood \in Int /\ firstBad \in Int /\ plan.good <= lastGood /\ lastGood < firstBad
      /\ firstBad <= plan.bad
  BY PlansAssumption DEF IInv, TypeOK
<1>4. pc' = "measure" => /\ current' \in Dirs /\ current'.setup = plan.setup
                         /\ current'.label = "candidate" /\ current'.commit \in untested
                         /\ pc = "search"
  <2> SUFFICES ASSUME pc' = "measure" PROVE
         /\ current' \in Dirs /\ current'.setup = plan.setup
         /\ current'.label = "candidate" /\ current'.commit \in untested /\ pc = "search"
    OBVIOUS
  <2>1. TestCandidate
    BY DEF SignalMissing, SignalReproduced, SearchEnds, Conclude
  <2>2. PICK c \in untested :
          /\ current' = [label |-> "candidate", commit |-> c, setup |-> plan.setup, retry |-> 0]
          /\ pc = "search"
    BY <1>1, <2>1 DEF TestCandidate, Measure, process
  <2>3. c \in plan.good .. plan.bad
    BY <1>3 DEF untested, between
  <2>4. c \in Commits /\ plan.setup \in Setups
    BY <1>3, <2>3 DEF Commits, Setups
  <2> QED BY <2>2, <2>4 DEF Dirs, Labels
<1>5. TypeOK'
  <2>1. current' \in {None} \cup Dirs
    <3>1. CASE TestCandidate
      BY <1>4, <3>1 DEF TestCandidate, Measure
    <3>2. CASE SignalMissing \/ SignalReproduced \/ SearchEnds
      BY <3>2 DEF IInv, TypeOK, SignalMissing, SignalReproduced, SearchEnds
    <3> QED BY <3>1, <3>2
  <2> QED BY <1>1, <1>2, <2>1 DEF IInv, TypeOK, process, search
<1>6. OneSummaryEach' /\ RefsOnDisk'
  BY <1>1 DEF IInv, OneSummaryEach, RefsOnDisk, process
<1>7. Progress'
  BY <1>1, <1>4 DEF IInv, Progress, process, search, between, untested
<1>8. BoundsAreDecided' /\ Reported'
  BY <1>1, <1>2 DEF IInv, BoundsAreDecided, Reported, process, search
<1>9. Concluded'
  <2>1. CASE SignalMissing
    BY <2>1 DEF SignalMissing, Conclude, Concluded, process, Failures, References, Successful
  <2>2. CASE SearchEnds
    <3>1. /\ UNCHANGED <<lastGood, firstBad, plan>>
          /\ verdict'.lastGood = lastGood /\ verdict'.suspected = firstBad
          /\ verdict'.reason \notin Failures
          /\ verdict'.status \in Successful => between = {}
      BY <2>2 DEF SearchEnds, Conclude, process, search, Failures, References, Successful
    <3>2. between = {} => firstBad = lastGood + 1
      BY <1>3 DEF between
    <3> QED BY <3>1, <3>2 DEF Concluded, Failures
  <2>3. CASE SignalReproduced \/ TestCandidate
    BY <2>3 DEF SignalReproduced, TestCandidate, Measure, Concluded
  <2> QED BY <2>1, <2>2, <2>3
<1> QED BY <1>2, <1>5, <1>6, <1>7, <1>8, <1>9 DEF IInv

\* A candidate was evaluated: its result is written, and the search goes on or ends.
LEMMA CandidateStep ==
  ASSUME IInv, CandidateGood \/ CandidateBad \/ CandidateUnclear \/ CandidateSkipped
                 \/ CandidateUnsupported
  PROVE  IInv'
<1>1. PICK o \in {"measured", "failed", "tooling"}, v \in {"GOOD", "BAD", "UNCLEAR", "SKIP"} :
        /\ Evaluated(o, v)
        /\ \/ /\ v = "GOOD" /\ lastGood' = current.commit /\ firstBad' = firstBad
              /\ pc' = "search" /\ holes' = holes
           \/ /\ v = "BAD" /\ firstBad' = current.commit /\ lastGood' = lastGood
              /\ pc' = "search" /\ holes' = holes
           \/ /\ v \in {"UNCLEAR", "SKIP"} /\ UNCHANGED <<lastGood, firstBad>>
              /\ holes' \in {holes, holes \cup {current.commit}}
              /\ \/ pc' = "search"
                 \/ /\ pc' = "finalize"
                    /\ verdict'.lastGood = lastGood /\ verdict'.suspected \in {firstBad, NoCommit}
                    /\ verdict'.status \notin Successful
                    /\ verdict'.reason \notin References
                    /\ verdict'.reason = "tooling_incompatible" => o = "tooling"
  <2>1. CASE CandidateGood
    BY <2>1 DEF CandidateGood
  <2>2. CASE CandidateBad
    BY <2>2 DEF CandidateBad
  <2>3. CASE CandidateUnclear
    BY <2>3 DEF CandidateUnclear, Conclude, References, Successful
  <2>4. CASE CandidateSkipped
    BY <2>4 DEF CandidateSkipped
  <2>5. CASE CandidateUnsupported
    BY <2>5 DEF CandidateUnsupported, Conclude, References, Successful
  <2> QED BY <2>1, <2>2, <2>3, <2>4, <2>5
<1>2. /\ pc = "measure" /\ WriteAttempt(o) /\ current.label = "candidate"
      /\ results' = [results EXCEPT ![current.commit] = [verdict |-> v, run |-> run]]
      /\ tested' = tested \cup {current.commit}
      /\ UNCHANGED <<blockers, status, summary, run, plan, current, refs, response>>
  BY <1>1 DEF Evaluated, Measured, WriteResult
<1>3. pc' \in {"search", "finalize"}
  BY <1>1
<1>4. /\ attempts' \in Seq(Attempts) /\ attempts' # << >>
      /\ attempts'[Len(attempts')] = File(o)
      /\ \A d : (d = current \/ \E k \in DOMAIN attempts : attempts[k].dir = d)
           => \E k \in DOMAIN attempts' : attempts'[k].dir = d
      /\ OneSummaryEach'
  BY <1>2, Written
<1>5. /\ plan \in Plans /\ plan.good \in Nat /\ plan.bad \in Nat
      /\ lastGood \in Int /\ firstBad \in Int /\ plan.good <= lastGood /\ lastGood < firstBad
      /\ firstBad <= plan.bad
  BY PlansAssumption DEF IInv, TypeOK
<1>6. /\ current \in Dirs /\ current.setup = plan.setup /\ run \in 1 .. MaxRuns /\ refs # {}
      /\ current.commit \in Int /\ lastGood < current.commit /\ current.commit < firstBad
      /\ current.commit \notin tested
  BY <1>2, <1>5 DEF IInv, Progress, between
<1>7. /\ Announcements' /\ IndexKeepsToTheSetup' /\ BoundaryIsThisRuns'
      /\ AnnouncedAfterSummary' /\ ExitZeroIsExact'
      /\ status'.phase \in {"none", "tooling_setup", "preflight", "running", "completed", "failed"}
      /\ summary' \notin {None, Torn} => summary'.run \in Int /\ summary'.run <= run'
  BY <1>2, <1>3, EarlierReports
<1>8. /\ lastGood' \in plan.good .. firstBad' - 1 /\ firstBad' \in plan.good + 1 .. plan.bad
  BY <1>1, <1>5, <1>6
<1>9. holes' \subseteq tested' /\ tested' \subseteq plan.good + 1 .. plan.bad - 1
  <2>1. holes \subseteq tested /\ tested \subseteq plan.good + 1 .. plan.bad - 1
    BY DEF IInv, TypeOK
  <2>2. current.commit \in plan.good + 1 .. plan.bad - 1
    BY <1>5, <1>6
  <2> QED BY <1>1, <1>2, <2>1, <2>2
<1>10. /\ results' \in [Commits -> [verdict : {"none", "GOOD", "BAD", "UNCLEAR", "SKIP"},
                                     run : 0 .. MaxRuns]]
       /\ \A c \in Commits : c # current.commit => results'[c] = results[c]
       /\ results'[current.commit] = [verdict |-> v, run |-> run]
  <2>1. current.commit \in Commits
    BY <1>6 DEF Dirs
  <2>2. [verdict |-> v, run |-> run] \in [verdict : {"none", "GOOD", "BAD", "UNCLEAR", "SKIP"},
                                          run : 0 .. MaxRuns]
    BY <1>6
  <2> QED BY <1>2, <2>1, <2>2 DEF IInv, TypeOK
<1>11. TypeOK'
  BY <1>2, <1>3, <1>4, <1>7, <1>8, <1>9, <1>10 DEF IInv, TypeOK
<1>12. RefsOnDisk'
  BY <1>2, <1>4 DEF IInv, RefsOnDisk
<1>13. Progress'
  BY <1>2, <1>3, <1>6 DEF Progress
<1>14. BoundsAreDecided'
  <2>1. \A c \in tested : c \in Commits
    <3>1. \A c \in tested : c \in plan.good .. plan.bad
      BY <1>5 DEF IInv, TypeOK
    <3> QED BY <1>5, <3>1 DEF Commits
  <2>2. /\ lastGood \in tested => results'[lastGood] = [verdict |-> "GOOD", run |-> run]
        /\ firstBad \in tested => results'[firstBad] = [verdict |-> "BAD", run |-> run]
    BY <1>6, <1>10, <2>1 DEF IInv, BoundsAreDecided
  <2>3. lastGood # current.commit /\ firstBad # current.commit
    BY <1>5, <1>6
  <2> QED BY <1>1, <1>2, <1>10, <2>2, <2>3 DEF BoundsAreDecided
<1>15. Reported'
  BY <1>3, <1>7 DEF Reported
<1>16. Concluded'
  <2> SUFFICES ASSUME pc' = "finalize" PROVE Concluded'
    BY DEF Concluded
  <2>1. /\ v \in {"UNCLEAR", "SKIP"} /\ UNCHANGED <<lastGood, firstBad>>
        /\ verdict'.lastGood = lastGood /\ verdict'.suspected \in {firstBad, NoCommit}
        /\ verdict'.status \notin Successful
        /\ verdict'.reason \notin References
        /\ verdict'.reason = "tooling_incompatible" => o = "tooling"
    BY <1>1
  <2>2. verdict'.reason \in Failures => FailedLast'
    <3>1. o = "tooling" => FailedLast'
      BY <1>2, <1>4, <1>6 DEF FailedLast, File
    <3> QED BY <2>1, <3>1 DEF Failures
  <2> QED BY <1>2, <2>1, <2>2 DEF Concluded
<1> QED BY <1>4, <1>7, <1>11, <1>12, <1>13, <1>14, <1>15, <1>16 DEF IInv

-----------------------------------------------------------------------------
(* The report.                                                             *)

\* An attempt is not the absence of one.
LEMMA AttemptIsSome == ASSUME NEW a \in Attempts PROVE a # None
<1>1. DOMAIN a = {"dir", "run", "outcome"}
  BY DEF Attempts
<1>2. DOMAIN None = {"none"}
  BY DEF None
<1> QED BY <1>1, <1>2

\* The index lists attempts of the run's own setup only: its references are on disk, so it
\* never falls back on everything that is there.
LEMMA IndexIsOwn ==
  ASSUME IInv, pc = "finalize"
  PROVE  /\ IndexedAttempts \in SUBSET DOMAIN attempts
         /\ \A k \in IndexedAttempts : attempts[k].dir.setup = plan.setup
         /\ \A k \in DOMAIN attempts : Belongs(attempts[k]) => k \in IndexedAttempts
<1>1. PICK d \in refs : TRUE
  BY DEF IInv, Progress
<1>2. PICK k \in DOMAIN attempts : attempts[k].dir = d
  BY <1>1 DEF IInv, RefsOnDisk
<1>3. Belongs(attempts[k])
  BY <1>1, <1>2 DEF Belongs
<1>4. IndexedAttempts = {j \in DOMAIN attempts : Belongs(attempts[j])}
  BY <1>3 DEF IndexedAttempts
<1> QED BY <1>4 DEF IInv, RefsOnDisk, Belongs, OfThisSetup

\* The blocker of a report is an attempt that was not measured, if there is one.
LEMMA BlockerIsAFailure ==
  ASSUME IInv, pc = "finalize", NEW reason
  PROVE  /\ BlockedAttempts = {} => TerminalBlocker(reason) = None
         /\ TerminalBlocker(reason) # None =>
              /\ TerminalBlocker(reason) \in Attempts
              /\ TerminalBlocker(reason).outcome # "measured"
<1> DEFINE failedRef == {k \in BlockedAttempts :
                           attempts[k].dir \in refs /\ attempts[k].dir.label = reason}
           S == IF failedRef # {} THEN failedRef ELSE BlockedAttempts
<1>1. CASE BlockedAttempts = {}
  BY <1>1 DEF TerminalBlocker
<1>2. CASE BlockedAttempts # {}
  <2>1. TerminalBlocker(reason) = attempts[Max(S)]
    BY <1>2 DEF TerminalBlocker
  <2>2. attempts \in Seq(Attempts)
    BY DEF IInv, TypeOK
  <2>3. S \in SUBSET BlockedAttempts /\ S # {}
    BY <1>2
  <2>4. BlockedAttempts \in SUBSET (1 .. Len(attempts)) /\ Len(attempts) \in Nat
    BY <2>2, IndexIsOwn DEF BlockedAttempts
  <2> HIDE DEF S
  <2>5. Max(S) \in S
    BY <2>3, <2>4, LastPosition
  <2>6. Max(S) \in BlockedAttempts
    BY <2>3, <2>5
  <2> QED BY <1>2, <2>1, <2>2, <2>4, <2>6 DEF BlockedAttempts
<1> QED BY <1>1, <1>2

\* When a failed measurement ended the run, it is the blocker.
LEMMA BlockerIsTheFailure ==
  ASSUME IInv, pc = "finalize", verdict.reason \in Failures
  PROVE  LET b == TerminalBlocker(verdict.reason)
         IN b # None /\ b.dir = current /\ b.run = run
<1> DEFINE n == Len(attempts)
           failedRef == {k \in BlockedAttempts :
                           attempts[k].dir \in refs /\ attempts[k].dir.label = verdict.reason}
           S == IF failedRef # {} THEN failedRef ELSE BlockedAttempts
<1>1. /\ attempts # << >>
      /\ attempts[n].dir = current /\ attempts[n].run = run /\ attempts[n].outcome # "measured"
      /\ current \in refs \/ (current.commit \in tested /\ current.setup = plan.setup)
      /\ verdict.reason \in References => current \in refs /\ current.label = verdict.reason
  BY DEF IInv, Concluded, FailedLast
<1>2. attempts \in Seq(Attempts)
  BY DEF IInv, TypeOK
<1>3. n \in DOMAIN attempts /\ n \in Nat /\ DOMAIN attempts = 1 .. n
  BY <1>1, <1>2
<1>4. n \in BlockedAttempts
  BY <1>1, <1>3, IndexIsOwn DEF BlockedAttempts, Belongs, OfThisSetup
<1>5. BlockedAttempts \in SUBSET (1 .. n)
  BY <1>3, IndexIsOwn DEF BlockedAttempts
<1>6. n \in S /\ S \in SUBSET (1 .. n)
  <2>1. CASE verdict.reason \in References
    BY <1>1, <1>4, <1>5, <2>1
  <2>2. CASE verdict.reason = "tooling_incompatible"
    <3>1. \A k \in DOMAIN attempts : attempts[k].dir \in refs =>
             attempts[k].dir.label # "tooling_incompatible"
      BY DEF IInv, RefsOnDisk, References
    <3>2. failedRef = {}
      BY <1>3, <1>5, <2>2, <3>1
    <3> QED BY <1>4, <1>5, <3>2
  <2> QED BY <2>1, <2>2 DEF Failures
<1>7. TerminalBlocker(verdict.reason) = attempts[Max(S)]
  BY <1>4 DEF TerminalBlocker
<1> HIDE DEF S, n
<1>8. Max(S) \in S /\ n <= Max(S)
  BY <1>3, <1>6, LastPosition
<1>9. Max(S) = n
  BY <1>3, <1>6, <1>8
<1>10. attempts[n] \in Attempts
  BY <1>2, <1>3
<1> QED BY <1>1, <1>7, <1>9, <1>10, AttemptIsSome

\* The report is put together from what lies on disk.
LEMMA FinalizeStep == ASSUME IInv, Finalize PROVE IInv'
<1>1. /\ pc = "finalize" /\ pc' = "summary"
      /\ blockers' = TerminalBlocker(verdict.reason)
      /\ UNCHANGED <<attempts, results, status, summary, process, current, response>>
  BY DEF Finalize
<1>2. verdict' = [status |-> verdict.status, reason |-> verdict.reason,
                  suspected |-> verdict.suspected, lastGood |-> verdict.lastGood,
                  run |-> run, plan |-> plan, tested |-> tested,
                  index |-> {attempts[k] : k \in IndexedAttempts}, blocker |-> blockers',
                  goodDecision |-> Decision(verdict.lastGood),
                  badDecision |-> Decision(verdict.suspected)]
  BY DEF Finalize
<1>3. verdict' \notin {None, Torn}
  <2>1. "status" \in DOMAIN verdict'
    BY <1>2
  <2>2. DOMAIN None = {"none"} /\ DOMAIN Torn = {"torn"}
    BY DEF None, Torn
  <2> QED BY <2>1, <2>2
<1>4. /\ Announcements' /\ IndexKeepsToTheSetup' /\ BoundaryIsThisRuns'
      /\ AnnouncedAfterSummary' /\ ExitZeroIsExact'
      /\ status'.phase \in {"none", "tooling_setup", "preflight", "running", "completed", "failed"}
      /\ summary' \notin {None, Torn} => summary'.run \in Int /\ summary'.run <= run'
  BY <1>1, EarlierReports DEF process
<1>5. blockers' \in {None} \cup [dir : Dirs, run : 1 .. MaxRuns, outcome : {"failed", "tooling"}]
  BY <1>1, BlockerIsAFailure DEF Attempts
<1>6. TypeOK'
  BY <1>1, <1>4, <1>5 DEF IInv, TypeOK, process, search
<1>7. OneSummaryEach' /\ RefsOnDisk' /\ Progress' /\ BoundsAreDecided' /\ Concluded'
  BY <1>1 DEF IInv, OneSummaryEach, RefsOnDisk, Progress, BoundsAreDecided, Concluded,
              process, search
<1>8. /\ verdict.status \in Successful => verdict.suspected = verdict.lastGood + 1
      /\ verdict.lastGood \in tested =>
           Decision(verdict.lastGood) = [verdict |-> "GOOD", run |-> run]
      /\ verdict.suspected \in tested =>
           Decision(verdict.suspected) = [verdict |-> "BAD", run |-> run]
  <2>1. /\ plan.good \in Nat /\ tested \subseteq plan.good + 1 .. plan.bad - 1
        /\ plan.bad \in Nat
    BY PlansAssumption DEF IInv, TypeOK
  <2>2. NoCommit \notin tested /\ plan.good \notin tested
    BY <2>1 DEF NoCommit
  <2> QED BY <1>1, <2>2 DEF IInv, Concluded, BoundsAreDecided, Decision
<1>9. Faithful(verdict)'
  <2>1. verdict.reason \in Failures =>
           blockers' # None /\ blockers'.dir = current /\ blockers'.run = run
    BY <1>1, BlockerIsTheFailure
  <2>2. \A k \in IndexedAttempts : attempts[k].dir.setup = plan.setup
    BY <1>1, IndexIsOwn
  <2>3. UNCHANGED <<run, plan, tested, current>>
    BY <1>1 DEF process, search
  <2>4. /\ verdict'.status = verdict.status /\ verdict'.reason = verdict.reason
        /\ verdict'.suspected = verdict.suspected /\ verdict'.lastGood = verdict.lastGood
        /\ verdict'.run = run /\ verdict'.tested = tested
        /\ verdict'.index = {attempts[k] : k \in IndexedAttempts}
        /\ verdict'.blocker = blockers'
        /\ verdict'.goodDecision = Decision(verdict.lastGood)
        /\ verdict'.badDecision = Decision(verdict.suspected)
    BY <1>2
  <2> QED BY <1>3, <1>8, <2>1, <2>2, <2>3, <2>4 DEF Faithful
<1>10. Reported'
  BY <1>1, <1>4, <1>9 DEF Reported
<1> QED BY <1>4, <1>6, <1>7, <1>10 DEF IInv

\* The report is written.
LEMMA WriteSummaryStep == ASSUME IInv, WriteSummary PROVE IInv'
<1>1. /\ pc = "summary" /\ pc' = "exit" /\ summary' = verdict
      /\ UNCHANGED <<attempts, results, blockers, status, process, current, verdict, response>>
  BY DEF WriteSummary
<1>2. UNCHANGED <<run, plan, refs, lastGood, firstBad, tested, holes>>
  BY <1>1 DEF process, search
<1>3. Faithful(verdict) /\ run \in 1 .. MaxRuns
  BY <1>1 DEF IInv, Reported, Progress
<1>4. Faithful(verdict)'
  BY <1>1, <1>2, <1>3 DEF Faithful
<1>5. TypeOK' /\ OneSummaryEach' /\ RefsOnDisk' /\ Progress' /\ BoundsAreDecided' /\ Concluded'
  BY <1>1, <1>2 DEF IInv, TypeOK, OneSummaryEach, RefsOnDisk, Progress, BoundsAreDecided, Concluded
<1>6. Reported'
  BY <1>1, <1>2, <1>3, <1>4 DEF Reported, Faithful
<1>7. Announcements' /\ AnnouncedAfterSummary' /\ ExitZeroIsExact'
  BY <1>1, <1>2 DEF IInv, Announcements, AnnouncedAfterSummary, ExitZeroIsExact
<1>8. IndexKeepsToTheSetup' /\ BoundaryIsThisRuns'
  BY <1>1, <1>2, <1>3 DEF Faithful, IndexKeepsToTheSetup, BoundaryIsThisRuns, Finished
<1> QED BY <1>5, <1>6, <1>7, <1>8 DEF IInv

\* A new process knows its plan only.
LEMMA Forgotten ==
  ASSUME NEW p \in Plans, Forget(p)
  PROVE  /\ plan' \in Plans /\ plan' = p /\ refs' = {} /\ tested' = {} /\ holes' = {}
         /\ lastGood' \in plan'.good .. firstBad' - 1 /\ firstBad' \in plan'.good + 1 .. plan'.bad
<1>1. p.good \in Nat /\ p.bad \in Nat /\ p.good < p.bad
  BY PlansAssumption
<1> QED BY <1>1 DEF Forget

\* The end of the process is announced, and it is answered.
LEMMA ExitStep == ASSUME IInv, Exit PROVE IInv'
<1>1. /\ pc = "exit" /\ pc' = "idle" /\ current' = None /\ Forget(plan)
      /\ UNCHANGED <<attempts, results, blockers, summary, run>>
  BY DEF Exit
<1>2. /\ Faithful(verdict) /\ summary = verdict /\ run \in 1 .. MaxRuns /\ plan \in Plans
  BY <1>1 DEF IInv, Reported, Progress, TypeOK
<1>3. /\ plan' = plan /\ refs' = {} /\ tested' = {} /\ holes' = {}
      /\ lastGood' \in plan'.good .. firstBad' - 1 /\ firstBad' \in plan'.good + 1 .. plan'.bad
  BY <1>1, <1>2, Forgotten
<1>4. /\ status'.phase \in {"completed", "failed"} /\ status'.run = run
      /\ status'.status = verdict.status
  BY DEF Exit, WriteStatus, StatusFile
<1>5. /\ response' = [exit |-> response'.exit, result |-> summary, status |-> response'.status]
      /\ response'.exit = 0 => verdict.status \in Successful
  <2>1. summary # Torn
    BY <1>2 DEF Faithful
  <2>2. CASE verdict.status \in Successful
    BY <2>1, <2>2 DEF Exit, Respond
  <2>3. CASE verdict.status \notin Successful
    BY <2>1, <2>3 DEF Exit, Respond
  <2> QED BY <2>2, <2>3
<1>6. TypeOK'
  BY <1>1, <1>2, <1>3, <1>4 DEF IInv, TypeOK
<1>7. OneSummaryEach' /\ RefsOnDisk' /\ Progress' /\ BoundsAreDecided' /\ Concluded'
  BY <1>1, <1>3 DEF IInv, OneSummaryEach, RefsOnDisk, Progress, BoundsAreDecided, Concluded
<1>8. Reported' /\ Announcements'
  BY <1>1, <1>2, <1>4 DEF IInv, Reported, Announcements
<1>9. AnnouncedAfterSummary'
  BY <1>1, <1>2, <1>4 DEF AnnouncedAfterSummary, Faithful
<1>10. IndexKeepsToTheSetup' /\ BoundaryIsThisRuns'
  BY <1>1, <1>3 DEF IInv, IndexKeepsToTheSetup, BoundaryIsThisRuns, Finished
<1>11. ExitZeroIsExact'
  <2>1. response'.result = verdict
    BY <1>2, <1>5
  <2> QED BY <1>1, <1>2, <1>5, <2>1 DEF ExitZeroIsExact, Faithful
<1> QED BY <1>6, <1>7, <1>8, <1>9, <1>10, <1>11 DEF IInv

\* The process dies: what it measured may be lost, what was reported before is not.
LEMMA CrashStep == ASSUME IInv, Crash PROVE IInv'
<1>1. PICK cut \in MeasurementCut :
        /\ pc # "idle" /\ pc' = "idle" /\ current' = None /\ Forget(plan)
        /\ attempts' = cut.a /\ results' = cut.r
        /\ blockers' \in IF pc = "finalize" THEN {blockers, None} ELSE {blockers}
        /\ summary' \in IF pc = "summary" THEN {summary, Torn} ELSE {summary}
        /\ Respond(1, summary')
        /\ UNCHANGED <<status, run>>
  BY DEF Crash
<1>2. plan \in Plans /\ run \in 0 .. MaxRuns
  BY DEF IInv, TypeOK
<1>3. /\ plan' = plan /\ refs' = {} /\ tested' = {} /\ holes' = {}
      /\ lastGood' \in plan'.good .. firstBad' - 1 /\ firstBad' \in plan'.good + 1 .. plan'.bad
  BY <1>1, <1>2, Forgotten
<1>4. attempts' \in Seq(Attempts) /\ OneSummaryEach'
  <2>1. CASE attempts' = attempts
    BY <2>1 DEF IInv, TypeOK, OneSummaryEach
  <2>2. CASE attempts' = WithoutCurrent
    <3>1. TypeOK /\ OneSummaryEach
      BY DEF IInv
    <3>2. /\ WithoutCurrent \in Seq(Attempts)
          /\ \A j, k \in DOMAIN WithoutCurrent :
               WithoutCurrent[j].dir = WithoutCurrent[k].dir => j = k
      BY <3>1, Others
    <3> QED BY <2>2, <3>2 DEF OneSummaryEach
  <2>3. ASSUME NEW o \in {"measured", "failed", "tooling"}, attempts' = Rewritten(o), pc = "measure"
        PROVE  attempts' \in Seq(Attempts) /\ OneSummaryEach'
    BY <2>3, Written DEF WriteAttempt
  <2> QED BY <1>1, <2>1, <2>2, <2>3 DEF MeasurementCut
<1>5. results' \in [Commits -> [verdict : {"none", "GOOD", "BAD", "UNCLEAR", "SKIP"},
                                run : 0 .. MaxRuns]]
  <2>1. results' = results \/ results' = [results EXCEPT ![current.commit] = NotTested]
    BY <1>1 DEF MeasurementCut
  <2>2. NotTested \in [verdict : {"none", "GOOD", "BAD", "UNCLEAR", "SKIP"}, run : 0 .. MaxRuns]
    BY PlansAssumption DEF NotTested
  <2> QED BY <2>1, <2>2 DEF IInv, TypeOK
<1>6. TypeOK'
  BY <1>1, <1>2, <1>3, <1>4, <1>5 DEF IInv, TypeOK
<1>7. RefsOnDisk' /\ Progress' /\ BoundsAreDecided' /\ Concluded'
  BY <1>1, <1>3 DEF RefsOnDisk, Progress, BoundsAreDecided, Concluded
<1>8. summary' = summary \/ summary' = Torn
  BY <1>1
<1>9. Reported' /\ Announcements'
  BY <1>1, <1>8 DEF IInv, Reported, Announcements
<1>10. AnnouncedAfterSummary'
  BY <1>1 DEF IInv, Announcements, AnnouncedAfterSummary
<1>11. IndexKeepsToTheSetup' /\ BoundaryIsThisRuns'
  BY <1>1, <1>3, <1>8 DEF IInv, IndexKeepsToTheSetup, BoundaryIsThisRuns, Finished
<1>12. ExitZeroIsExact'
  <2>1. response'.exit \in {1, 2}
    <3>1. CASE summary' = Torn
      BY <1>1, <3>1 DEF Respond
    <3>2. CASE summary' # Torn
      BY <1>1, <3>2 DEF Respond
    <3> QED BY <3>1, <3>2
  <2> QED BY <2>1 DEF ExitZeroIsExact
<1> QED BY <1>4, <1>6, <1>7, <1>9, <1>10, <1>11, <1>12 DEF IInv

\* A run begins, or cannot: the summary of the run before it is then an earlier run's.
LEMMA FreshStep == ASSUME IInv, StartRun \/ ToolingBlocked PROVE IInv'
<1>1. PICK p \in Plans :
        /\ Fresh(p)
        /\ \/ /\ status' = [StatusFile("tooling_setup", "blocked") EXCEPT !.run = run']
              /\ Respond(2, summary) /\ UNCHANGED <<pc, current>>
           \/ /\ status' = [StatusFile("preflight", "running") EXCEPT !.run = run']
              /\ response' = None /\ Measure("good_ref", p.good)
  BY DEF StartRun, ToolingBlocked
<1>2. /\ pc = "idle" /\ run < MaxRuns /\ run' = run + 1 /\ Forget(p)
      /\ UNCHANGED <<attempts, results, blockers, summary>>
  BY <1>1 DEF Fresh
<1>3. run \in 0 .. MaxRuns /\ run' \in 1 .. MaxRuns /\ run < run'
  BY <1>2, PlansAssumption DEF IInv, TypeOK
<1>4. /\ plan' \in Plans /\ plan' = p /\ refs' = {} /\ tested' = {} /\ holes' = {}
      /\ lastGood' \in plan'.good .. firstBad' - 1 /\ firstBad' \in plan'.good + 1 .. plan'.bad
  BY <1>2, Forgotten
<1>5. status'.phase \in {"tooling_setup", "preflight"} /\ status'.run = run'
  BY <1>1 DEF StatusFile
<1>6. \/ /\ pc' = "idle" /\ current' = current
         /\ response' # None => response'.exit # 0
      \/ /\ pc' = "measure" /\ current' \in Dirs /\ current'.setup = plan'.setup
         /\ current'.label = "good_ref" /\ response' = None
  <2>1. CASE Respond(2, summary) /\ UNCHANGED <<pc, current>>
    <3>1. response'.exit = 2
      BY <2>1 DEF Respond
    <3> QED BY <1>2, <2>1, <3>1
  <2>2. CASE response' = None /\ Measure("good_ref", p.good)
    <3>1. /\ current' = [label |-> "good_ref", commit |-> p.good, setup |-> p.setup, retry |-> 0]
          /\ pc' = "measure"
      BY <1>4, <2>2 DEF Measure
    <3>2. p.good \in p.good .. p.bad
      BY PlansAssumption
    <3>3. p.good \in Commits /\ p.setup \in Setups
      BY <3>2 DEF Commits, Setups
    <3> QED BY <1>4, <2>2, <3>1, <3>3 DEF Dirs, Labels
  <2> QED BY <1>1, <2>1, <2>2
<1>7. summary' \notin {None, Torn} => summary'.run \in Int /\ summary'.run < run'
  BY <1>2, <1>3 DEF IInv, Reported
<1>8. TypeOK'
  BY <1>2, <1>3, <1>4, <1>5, <1>6 DEF IInv, TypeOK
<1>9. OneSummaryEach' /\ RefsOnDisk' /\ Progress' /\ BoundsAreDecided' /\ Concluded'
  BY <1>2, <1>3, <1>4, <1>6 DEF IInv, OneSummaryEach, RefsOnDisk, Progress, BoundsAreDecided,
                                Concluded
<1>10. Reported'
  BY <1>3, <1>6, <1>7 DEF Reported
<1>11. Announcements' /\ AnnouncedAfterSummary'
  BY <1>3, <1>5, <1>6 DEF Announcements, AnnouncedAfterSummary
<1>12. IndexKeepsToTheSetup' /\ BoundaryIsThisRuns'
  BY <1>3, <1>7 DEF IndexKeepsToTheSetup, BoundaryIsThisRuns, Finished
<1>13. ExitZeroIsExact'
  BY <1>6 DEF ExitZeroIsExact
<1> QED BY <1>8, <1>9, <1>10, <1>11, <1>12, <1>13 DEF IInv

\* The invariant holds of an empty directory.
LEMMA InitEstablishes == Init => IInv
<1> SUFFICES ASSUME Init PROVE IInv
  OBVIOUS
<1>1. plan.good \in Nat /\ plan.bad \in Nat /\ plan.good < plan.bad /\ MaxRuns \in Nat
  BY PlansAssumption DEF Init
<1>2. TypeOK
  <2>1. NotTested \in [verdict : {"none", "GOOD", "BAD", "UNCLEAR", "SKIP"}, run : 0 .. MaxRuns]
    BY <1>1 DEF NotTested
  <2>2. results \in [Commits -> [verdict : {"none", "GOOD", "BAD", "UNCLEAR", "SKIP"},
                                 run : 0 .. MaxRuns]]
    BY <2>1 DEF Init
  <2> QED BY <1>1, <2>2 DEF Init, TypeOK
<1> QED BY <1>1, <1>2 DEF Init, IInv, OneSummaryEach, RefsOnDisk, Progress, BoundsAreDecided,
             Concluded, Reported, Announcements, IndexKeepsToTheSetup, BoundaryIsThisRuns,
             Finished, AnnouncedAfterSummary, ExitZeroIsExact

LEMMA Invariance == Spec => []IInv
<1>1. IInv /\ [Next]_vars => IInv'
  <2> SUFFICES ASSUME IInv, [Next]_vars PROVE IInv'
    OBVIOUS
  <2>1. CASE StartRun \/ ToolingBlocked
    BY <2>1, FreshStep
  <2>2. CASE Crash
    BY <2>2, CrashStep
  <2>3. CASE Step
    BY <2>3, RetryStep, QualifyStep, ReferenceFailsStep, DecisionStep, CandidateStep,
       FinalizeStep, WriteSummaryStep, ExitStep DEF Step
  <2>4. CASE UNCHANGED vars
    BY <2>4 DEF vars, disk, process, search, IInv, TypeOK, OneSummaryEach, RefsOnDisk, Progress,
                BoundsAreDecided, Concluded, FailedLast, Reported, Faithful, Announcements,
                IndexKeepsToTheSetup, BoundaryIsThisRuns, Finished, AnnouncedAfterSummary,
                ExitZeroIsExact, between
  <2> QED BY <2>1, <2>2, <2>3, <2>4 DEF Next
<1> QED BY InitEstablishes, <1>1, PTL DEF Spec

-----------------------------------------------------------------------------
(* The results.                                                            *)

\* Every variable of the directory and of the run keeps its type.
THEOREM TypeCorrect == Spec => []TypeOK
<1>1. IInv => TypeOK
  BY DEF IInv
<1> QED BY Invariance, <1>1, PTL

\* The index of a finished run lists attempts of its own task and backend only, whatever
\* earlier runs left in the directory.
THEOREM IndexIsOfOneSetup == Spec => []IndexKeepsToTheSetup
<1>1. IInv => IndexKeepsToTheSetup
  BY DEF IInv
<1> QED BY Invariance, <1>1, PTL

\* A run that ended because a measurement failed names that measurement as its blocker.
THEOREM TheFailureIsBlamed == Spec => []FailureIsTheBlocker
<1>1. IInv => FailureIsTheBlocker
  BY DEF IInv, Reported, Faithful, FailureIsTheBlocker, Failures, References
<1> QED BY Invariance, <1>1, PTL

\* The decisions a report quotes for the boundary it found were made in its own run.
THEOREM DecisionsAreCurrent == Spec => []BoundaryIsThisRuns
<1>1. IInv => BoundaryIsThisRuns
  BY DEF IInv
<1> QED BY Invariance, <1>1, PTL

\* No end is announced before the summary that says the same is on disk.
THEOREM SummaryComesFirst == Spec => []AnnouncedAfterSummary
<1>1. IInv => AnnouncedAfterSummary
  BY DEF IInv
<1> QED BY Invariance, <1>1, PTL

\* For any plans and any deaths: a process of bisect-range that exits with 0 narrowed its range
\* to one step in that very run.
THEOREM ZeroMeansExact == Spec => []ExitZeroIsExact
<1>1. IInv => ExitZeroIsExact
  BY DEF IInv
<1> QED BY Invariance, <1>1, PTL

=============================================================================
