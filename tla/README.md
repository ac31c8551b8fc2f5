# Verification of isaaclab-bisection

TLA+ models of `isaaclab-bisection`, the tool that finds the first IsaacLab commit that
regressed a benchmark metric. TLC checks the models on small instances; TLAPS proves
every safety property that the passing runs check for every value of the constants. `PROJECT.json` maps each
definition to the lines it was translated from. Paths below are relative to
`src/src/isaaclab_bisection/` unless they say otherwise; the core is
`bisection/engine.py` and the candidate runner `runner.py`.

Contents: 1 the system (inventory); 2 the modules; 3 the runs; 4 bounds; 5 fairness; 6 proofs;
7 where the documentation and the code differ; 8 other observations; 9 not modelled;
10 plan.

## 1. The system

One process, the *engine*, works on one output directory. It starts one *runner* command
at a time per measurement, waits for it, reads the files it left and decides what to do
next. There are no threads. What makes the program hard is that steps take hours, that
they fail in many ways, that a command may be cut off while its children live on, and
that the directory outlives the process: whatever a run leaves is found by the next one.

| Component | State it keeps | Operations | What is hard |
|---|---|---|---|
| Binary search (`engine._bisect_search`, `_nearest_evaluable_index`) | window, bounds, tested and skipped indices | evaluate a midpoint, walk around a hole, stop | holes that become midpoints again, the budget, the claim of the final status |
| Candidate enumeration (`bisection/git_utils.py`) | the list of candidates | rev-list over the ancestry path | merges: the list is not monotonic |
| Measurement with recovery (`engine._measure_with_recovery`, `bisection/recovery.py`, `recovery_llm.py`) | attempt number, knobs, events | run, decide, retry with knobs, accept as a skip | two ceilings on retries, accumulated knobs, arbitrary replies of a model |
| Commit measurement (`measurement.py`, `engine._measure_reference_commit`, `run_local_candidate`) | warmup ledger, caches shared by the commits of a stack, samples | warm up, sample until settled | the process dies beside the ledger; a retry empties shared caches |
| Environment reconstruction (`runner._prepare_source_clone`, `bisection/env_setup.py`) | source clone, git locks, venv and its `built.ok` | clone, checkout, reset, create, install, seal, discard | a kill at any point; deletions that are not atomic |
| Candidate runner (`runner.main`) | processes, containers, files of an artifact directory | verify, clear, prepare, benchmark, write the sidecar and the result | orphans of a killed runner beside the next one |
| Command execution (`engine._run_command`, `runner._run_with_live_output`) | a pipe, a line buffer, two log files | select, read a line, look at the limit, kill, drain | `select` does not see the buffer; children that outlive a kill |
| Probe loop and image repair (`engine._run_probe_loop`, `bisection/probe.py`, `base_image_repair.py`) | the active image marker, built images | ask a model, run its debug command, build an image | a repair made once holds for the whole run; builds fail |
| Range probe (`engine._run_range_probe`) | chosen commits, records, environments, report | measure endpoints and a bounded choice, release environments | partial failure; coverage claims |
| Local bisection run (`engine.run_local_bisection`, `bisection/artifacts.py`) | attempt summaries, results, blockers, status, summary | references, signal, search, finalize, exit | reuse of a directory; death between two files |
| Command line and Skill adapter (`cli.py`, `skill_api.py`) | none of their own | exit code; answer from `summary.json` | an answer read from a file of an earlier run |
| Paired-reference classification (`bisection/paired_reference.py`) | none (pure) | summarise, check the signal, compare | two gates with different cutoffs, noise that moves them, zero medians |
| Tooling contract (`bisection/tooling.py`, `tooling_capability.py`, `contracts.py`, `oracle.py`) | a plan's pin, a snapshot, a manifest | resolve, copy, verify, verify again in each runner | the worktree is edited meanwhile; plans are used again elsewhere; a boundary the search must not step around |
| Plans, policies, preflight, identity, progress, model client | immutable records, or none | parse, convert, print, one HTTP call | nothing stateful |

What makes each correct: the search names the true commit or an interval around it, and
repeats nothing; a measurement stays within its retries and tells what was done; a number
rests on enough warmed-up samples; an environment is reused only whole; a command's answer
is its own, and a commit's clone has one user; what a run measures with is what its plan
pins; a benchmark runs in an image that exists; a sweep covers what it says; a report speaks of this run, of this setup, and is announced only
once it is written; an answer called completed is exact; a reference or candidate is
classified on the right side of its thresholds, and the bounds of a search were measured apart.
Section 3 has the properties by name.

How they interact. `run_local_bisection` qualifies the good and the bad reference, checks
their signal and calls `_bisect_search`, whose `evaluate` callback measures a candidate.
Every measurement is a warmup and samples; every sample is a `_measure_with_recovery`;
every attempt of that is first probed and then runs a runner command; in
`docker-reconstruct` mode the runner runs a container which runs a runner in
`local-reconstruct` mode, which prepares the clone and the environment and benchmarks.
Answers travel back through files (`bisect_env.json`, `perf_smoke_test_result.json`), and
to the user through `summary.json`, `status.json` and the exit code.

## 2. The modules

One module per component. Where a component calls another, the caller's module sees of the
callee what its answer tells the caller: a verdict, a note, a number or none.

| Module | Models | State in the model and in the code |
|---|---|---|
| `BisectSearch` | the search | `low`, `high`, `lastGood`, `bestBad`, `mid`, `tested`, `skipped` are the locals of `_bisect_search`; `probe` is what `_nearest_evaluable_index` returned; one action per branch after `evaluate`, and one per way to stop. `firstBad` is the ground truth, which the program does not know |
| `IntervalNarrowing` | the abstract specification of the search: two bounds that only move to commits strictly between them, and a claim made at the end | refined by `BisectSearch` (`RefinesNarrowing`) |
| `MergeHistory` | the ancestry path, with merges, behind a list of candidates | extends `BisectSearch` for `PairedSearch`; `parents` is the history the list was flattened from, `culprit` the ground truth |
| `PairedReference` | `paired_reference.py`, exactly: medians, spreads, thresholds, both gates | pure operators; percentages are fractions, compared by multiplying out |
| `PairedSearch` | a whole `run_local_bisection`: references, signal, then every candidate of the search sampled and compared | extends `MergeHistory` and `PairedReference`; `values` is `metric_values`, `good`, `bad` the summaries; each verdict is a step of `BisectSearch`, which it is proved to implement |
| `MeasurementRecovery` | one `_measure_with_recovery` call with each policy | `attemptIdx`, `knobs`, `events` are its locals; `MeasurementNote` is `_measurement_note`; `Decisions` is `policy.decide` |
| `CommitMeasurement` | `run_warmups` with `warmup_state.json`, and the three sampling loops | `ledger` is the file, `cache` the kernels in the cache directories of a stack, `samples` the samples of the call |
| `EnvReconstruct` | source clone and environment of one commit over several attempts | `tree`, `lock` are the clone, `env` the venv directory; deletion is file by file |
| `AttemptProcesses` | the engine's commands and every process they start, in one directory | `procs` are the live processes, each with what is left of its program; `env`, `result`, `raw` are the files of each artifact directory |
| `CommandPipe` | the loop of `_run_command` around one command's output | `pipe` is the kernel's, `buffer` that of `process.stdout`, `log` both files |
| `ToolingSnapshot` | `resolve_tooling_plan`, `materialize_tooling_snapshot`, their order in `cli.main`, and each runner's check | a tree is a function from files to contents or symbolic links, and what hashing sees of it (`Hashed`) is its own hash; `snapshot`, `manifest`, `plans` are the files; hashing and copying go file by file, and copying follows links |
| `ProbeLoop` | `_run_probe_loop` and image repair | `marker` is `repairs/active_docker_image.json`, `image` that of the active plan, `attempt` its counter |
| `RangeProbe` | `_run_range_probe` and `_balanced_probe_commits` | extends `ProbeLoop`: each benchmark command waits for the loop to be `ready`; `envs` is `env-cache/envs`, `leftover` the commits whose container outlived its command and still works there (how it comes to that is in `AttemptProcesses`) |
| `LocalBisection` | several `run_local_bisection` processes on one directory, `finalize_run_artifacts`, exit code and Skill answer | the five files are variables; `refs`, `lastGood`, `firstBad`, `tested`, `holes`, `verdict` are the locals a death forgets |
| `SearchProofs` (of `BisectSearch`, `MergeHistory`, `PairedReference`, `PairedSearch`), `EnvReconstructProofs` (also of `CommandPipe`), `MeasurementRecoveryProofs`, `CommitMeasurementProofs`, `AttemptProcessesProofs`, `LocalBisectionProofs`, `RangeProbeProofs`, `ToolingSnapshotProofs` | theorems | see 6 |

`MC<Module>` gives the constants of a module their checked values.

Abstractions shared by all of them: a commit is an index or a model value; a number that a
benchmark measures is replaced by what the code decides about it, except in `PairedReference`,
which computes that decision; a note is the category it
carries; the log is the set of signature families it matches; git, docker, pip, the
benchmark and the models are external and fail, or answer, as they like. History variables
(`firstBad`, `culprit`, `warmups`, `cleared`, `torn`, `fault`, `built`, `drifted`, `written`) exist only so that properties
can speak of the past, and each is introduced as such at its declaration.

Operators with names such as `MidpointAtLow` or `CapForgetsFloor`, each right above the
definition it resembles, are wrong variants of that definition. They belong to no
specification. `PROJECT.json` pairs each with the property that exposes it, so that every
property is known to be able to fail.

## 3. The runs

Nine runs pass. State counts are those of the given bounds.

| Run | Question | Properties | Distinct states |
|---|---|---|---|
| `search` | Is the search right for every list of up to 9 commits, every sequence of answers and every budget? | `ReportLocatesFirstBad` (truthful answers lead to the true commit, or to an interval that contains it), `GivingUpIsExhaustive`, `NeverMeasuredTwice`, `OverBudgetOnlyPastHoles`, `WithinExpectedTests`, `Termination`, `RefinesNarrowing` | 20,707 |
| `recovery` | Are only fixable failures retried, and is what is recorded true, whatever fails and whatever a model replies? | `UnfixableNotRetried`, `EventsTellTheRuns`, `SkipsAreCategorised`, `ClearingAccumulates`, `ToolingBoundaryKept`, `Termination` | 238,388 |
| `measurement` | Does a number rest on enough warmed-up samples, over calls on commits that share caches and a death of the process? | `NumbersRestOnEnoughSamples`, `SamplesFollowAWarmup`, `WarmupOncePerCommit`, `ColdOnlyWhenCleared` | 482,432 |
| `environment` | Is an environment reused only whole, and does a kill cost only its own attempt? | `SealedMeansWhole`, `KillsCostOnlyTheirAttempt` | 9,986 |
| `attempt_processes` | What can the leftovers of a killed command do to the commands after it? | `MetricIsItsOwn`, `CloneHasOneUser`, `AnswersLeaveNothing`, `CommandsEnd` | 1,104,891 |
| `range_probe` | Does a sweep cover what it reports, in images that exist, and end? | `BenchmarkedImagesExist`, `SweepIsComplete`, `GapsStayBalanced`, `SweepEnds` | 1,051,908 |
| `local_bisection` | Does a report keep to its setup and its run when directories are reused and processes die? | `IndexKeepsToTheSetup`, `FailureIsTheBlocker`, `BoundaryIsThisRuns`, `AnnouncedAfterSummary`, `ExitZeroIsExact` | 801,491 |
| `paired_search` | Do the verdicts, and the commit that is named, follow from what was measured, for every policy at its edges? | `BoundsAreMeasuredApart`, `VerdictsFollowMeasurements`, `BadIsBeyondTheNoise`, `ReferencesAreAlive`, `NamesTheRegression` | 383,762 |
| `tooling` | Is what measures what the plan pins, whatever is edited, killed, relaunched or changed? | `SnapshotIsPinned`, `MeasuredWithThePin`, `RelaunchIsPortable` | 5,158,246 |

Each property is stated in words above its definition. What the runs show in short:

* The search never repeats a measurement, surrenders only when everything strictly between
  its bounds was a hole, and exceeds `--max_tests` only while it walks around holes. Its
  status `completed_with_holes` is never produced.
* An environment that carries `built.ok` is whole unless a *forced* removal was cut off:
  `shutil.rmtree` deletes in no particular order, so `built.ok` and the interpreter may
  outlive the packages. The exception is the variable `torn`; the import check that
  follows may not notice.
* With `docker-reconstruct` the clone of a commit has one user at a time and a metric is
  always that of its own attempt. With `docker-source` and the local modes a leftover of an
  earlier run may write its `benchmark_runtime_*.json` into a reused directory after it was
  cleared, and the new attempt may report that number; `MetricIsItsOwn` says exactly when.
* A zero exit of `bisect-range` means an exact answer of this very run. (`probe-range` exits with
  0 as well, with `probe_completed` and without a culprit; so do a dry run and
  `benchmark-commit`.)
* A sweep measures both endpoints and as many commits between them as its budget allows, and
  `coverage_complete` tells whether these were all. An environment it reports as released is
  gone, but for one exception: a container that outlived a command of the commit may make it
  again, and nothing in the report tells.
* Where single values of commits with and without the regression fall on the two sides of the
  cutoffs, a completed search names a commit with the regression whose predecessor in the list
  is without it. Only without merges must that be the commit that introduced it.
* The window of the search is always bounded by commits measured apart, by the threshold or
  the gray zone, although references and candidates pass different gates.
* A mix of versions read, hashed or copied from a worktree under edit is never measured: the
  copy itself is hashed last. A snapshot that something else changes is used only by the
  attempt that had checked it before.
* A plan pinned to a commit runs on any clone that has the commit, unless the commit's tooling
  holds a symbolic link; no plan whose pin holds a link to a file, of a commit or of the
  worktree, is ever measured (see 8).

Three runs are expected to end in a violation; see 7.

## 4. Bounds

| Bound | Value | Why it is enough |
|---|---|---|
| list length (`Lengths`) | 1..9 | the inner walk crosses the window's edge on both sides from length 4 on, and a window that shrinks around holes needs 6; the theorems cover every length |
| `--max_tests` (`Budgets`) | 0, 1, 2, 3, 50 | spent at once, during the search, and never |
| retries (`RetryBudgets`; `MaxRecoveryRetries`) | 0, 1, 3; 2 instead of 5 | the policy's budget below and above the engine's ceiling; nothing depends on the size of the ceiling (proved) |
| run records (`MCRuns`) | 12 | one for each note and for each signature that changes a decision about it |
| commits, stacks, contracts in `measurement` | 2 each, 3 calls, 1 death | two commits that share a stack or not, a changed contract, a death between warmup and ledger |
| attempts in `environment` | 4 | kill, re-clone, rebuild, reuse; proved for any number |
| commands and restarts in `attempt_processes` | 3 and 1, over 2 commits | two leftovers beside a third command; one reuse of a directory; proved for any number |
| sweep | 2 interior commits, `--max_tests` 0 or 1, 2 commands per commit, 2 layers, 1 death, 1 commit at a time with a leftover container; `GapsStayBalanced` up to 16 commits | every order of failures and repairs at three consecutive commits, coverage complete (0 or 1 interior commits) and not; a leftover of an earlier commit or of the current one. Proved for any range, budget and number of deaths and leftovers |
| runs in `local_bisection` | 2, ranges of 2 shifted by one, two tasks | what is a candidate in one run is an endpoint in the other; proved for any ranges, tasks and number of runs |
| `paired_search`: candidates, `--max_tests`, parents | 1..4; 1 and 50; 2 | lists of 4 have merges whose branches interleave; the lengths and budgets of the search itself are covered by `search` and the theorems |
| `paired_search`: settings | 7 | chosen so that each of these decides something: default cutoffs, an upward metric, noise above the gray zone, zero medians, coinciding cutoffs, a threshold of noise alone; every policy is covered by the theorems |
| `tooling`: files, plain contents, links, runs, edits, changes | 2; 2; one to a file, one to a directory or to nothing; 2; 2; 1 | a mixed bundle needs two files; two edits change a file and change it back between two hashes; the second run meets the first one's remains and plans. The worktree starts as the checkout of a commit with tooling, if there is one (`MCInit`). Proved for any number and any worktree |
| `live_output`: pieces, capacity of the pipe | 4, 3 | two lines in one burst and an unfinished one |

`attempt_processes` lets the first command be at a fixed commit, which is a symmetry:
commits are not told apart; `tooling` declares
files and plain contents symmetric, which nothing distinguishes. `attempt_processes` considers only plans with a limit, because without one the
engine's kill is disabled and the behaviours are a subset. `CHECK_DEADLOCK FALSE` stands in
every configuration because every component stops when its work, or its bound, is done.

## 5. Fairness

Each fair specification has weak fairness of the steps of one sequential program, never of
a particular branch, so no property relies on a benign outcome happening.

* `search`, `recovery`, `range_probe`: the process keeps running, and every external command ends. The code's ground for the latter
  is `_run_command`'s limit (`engine.py:353-370`), 1800 s for builds and debug commands. It
  is an assumption where a plan has no `--candidate_timeout_s`, and where the loop blocks in
  `readline()` on an unfinished line or in `stdout.read()` while a grandchild holds the
  pipe. Only the free shell commands of the probe write such output.
* `live_output`: the loop of the engine, and the clock. The command need not go on: that it may
  hang is the point.
* `attempt_processes`: only the engine's own loop is fair. Runners, containers, daemons and
  installers may hang forever, and `CommandsEnd` holds all the same, given a limit.

The other runs check safety only and have no fairness. Starting new work, deaths and restarts
are never fair.

## 6. Proofs

Everything here holds for every value of the constants that satisfies the `ASSUME`s of the
modules, which state the ranges the command line admits. TLC checked each property first.

The safety properties of all passing runs are theorems; `PROJECT.json` pairs each property with
its theorem. What follows is the argument of each module.

**`SearchProofs`, the search** (`TypeCorrectness`, `Localisation`, `ExhaustiveSurrender`,
`NoRepeatedMeasurement`, `BudgetOverrunIsHoleWalk`, `CompletedWithHolesIsDead`, `Refinement`,
`ExpectedTestsSuffice`). None of the properties is inductive. The
invariant adds what the code never says: the window is the open interval between the bounds
(`low = lastGood + 1`, `high = bestBad - 1`); every tested index inside the window is a hole;
the index handed to `evaluate` is untested and inside the window; and the answers at the
bounds are what made them bounds. `_nearest_evaluable_index` is characterised by one lemma:
what it returns is an untested index of the window, and it returns `None` only if there is
none. For `ExpectedTestsSuffice`, `HalvingInv` says that as long as there are no holes the
measurements taken and the bits of the window's length together stay within the bits of
`n - 1`; the announced number, the bits of `n`, is one too many when `n` is a power of two.

**`SearchProofs`, the whole bisection** (`MedianIsBetween`, `BisectionImplementsSearch`,
`BoundsApart`, `VerdictsOrdered`, `BadBeyondNoise`, `AliveReferences`, `RegressionIsNamed`).
The arithmetic is in lemmas about the
operators: a median lies between the extremes, a summary is well formed, a BAD regression
reaches the bad cutoff and a GOOD one stays within the good cutoff, an infinite spread passes no
gate. The invariant says that the references are reproduced while the search runs and that the
stored value of each tested commit is the one its verdict was made of. Since every step of
`PairedSearch` is a step of `BisectSearch` or leaves its variables alone
(`BisectionImplementsSearch`), whatever is proved of the search's own variables under `Spec`
holds of a whole bisection. `RegressionIsNamed` adds what ties the measurements to the history:
the commits with the regression are the least fixpoint above the culprit (`AfflictedIsFixpoint`,
`RegressedEquation`), the samples at hand are of the commit under evaluation (`SampleInv`), and
where single values separate the median of several has the verdict of one of them
(`MedianKeepsVerdict`, through `MedianIsOfTwo`), so that every answer is the truth (`TruthInv`).

**`MeasurementRecoveryProofs`** (6 results: `RetriesBounded`, `NoFutileRetry`,
`EventsAreHistory`, `SkipsCategorised`, `ClearingIsSticky`, `ToolingBoundaryReported`). The
lemma `Decides` says what any policy's decision may be: an acceptance with a category, or a
retry that has budget left and is not of an unfixable run. The invariant ties `attemptIdx`
to the lengths of the histories and says that every run but the last was fixable, and that
the knobs in force contain everything ever cleared. Its assumption
`CategoriesAssumption` only keeps the two results `"none"` and `"metric"` of the model from
being read as categories.

**`CommitMeasurementProofs`** (`EnoughSamples`, `WarmedUpFirst`, `WarmedUpOnce`,
`ColdIsCleared`). The invariant ties the ledger to the history of warmups in both directions:
an entry stands for a warmup, and a warmup without an entry that is not about to be written is
owed to a death. It adds that a commit warmed up has its kernels in the caches of its stack, or
that stack was cleared.

**`ToolingSnapshotProofs`** (`PinnedSnapshot`, `MeasuredWithPin`, `PortableRelaunch`). The
invariant says that a plan's pin on a commit is that commit's content, also in every plan ever
written; that a copy under way agrees with the commit it is made from, its list of files having
the rest; and that from the last check on the snapshot is the pin until something changes it.
`CopyIsPlain` adds that a copy never holds a link until something else puts one there, so that a pin
with a link is not its hash; `PortableRelaunch` needs that, and that a finished copy of a tree
without links is the tree itself.

**`EnvReconstructProofs`** (`ReusedIsWhole`, `KillsAreLocal`; of the pipe `NothingIsLost`,
`CutOffAtALine`). An environment is rebuilt only where none could be reused, from nothing, and
carries `built.ok` only once its packages are complete; a clone made in this attempt is neither
damaged nor locked unless something external failed. Both properties except a forced removal
that was cut off, which leaves `built.ok` over half an environment.
Of the pipe: what was written is what was logged,
followed by the buffer and the pipe; a rest without a line's end is logged only when the output
is over. No run lists the pipe's two; TLC agrees with them on the bounds of `live_output`, with a
limit and without.

**`LocalBisectionProofs`** (`TypeCorrect`, `IndexIsOfOneSetup`, `TheFailureIsBlamed`,
`DecisionsAreCurrent`, `SummaryComesFirst`, `ZeroMeansExact`). The invariant says for each
place of the program what it knows there: the references of the run have a summary on disk, of
this run's setup; a bound the search moved has the result of this run; the measurement that
ended the run was written last and failed; and a run that goes on has announced nothing. Of
what earlier runs left it says only the types and that each directory has one summary, so
nothing depends on how often, or for what, the work directory was used before.

**`AttemptProcessesProofs`** (`TypeCorrectness`, `CloneIsExclusive`, `NothingIsLeft`,
`MetricsAreOwn`). With
`docker-reconstruct` no process outside a container has a step left that touches the clone,
orphans included, and two containers of the same commit are the same container, because one
is only created when the name is free. The invariant also says that a container never
removes, launches or creates one, without which a step of a container could be a step of its
host. For `NothingIsLeft` and `MetricsAreOwn` the invariant says which
steps each kind of process can have left (`Shape`), that beside the runner of the command under
way only the client or the container it waits for works for that command (`Supervised`), that
what a directory holds is of commands that were given this directory (`Provenance`), and that with
`docker-reconstruct` a directory its container has cleared holds nothing of others (`OwnFiles`).

**`RangeProbeProofs`** (`BenchmarksRunInBuiltImages`, `FinishedSweepIsComplete`,
`ChoiceIsBalanced`). The marker always names an image
that can be run, and so does the plan outside a build; during a build the plan's image is a
runnable one with one layer on top, so that taking the layer off after a failed build gives
a runnable one again. For the choice of commits, `ChoiceInv` is the invariant of the loop of
`_balanced_probe_commits`: the midpoints chosen are distinct, the intervals in the queue are
disjoint, and together they are the range; each turn uses up one interval, so `2 * count + 1`
turns are enough (`BalancedChoice`). `HalvedInv` says that the queue is the rest of one
round of halving followed by the start of the next, which is why serving it first in, first out
keeps the commits spread. From there, that a finished report is complete is an invariant of the
records, which follow the plan in order and start again after a death. A released environment
stays away because only the commit under way and those with a leftover container get one, and the
records are of other commits.

*Recursion.* The prover has no induction over data: a function defined by recursion is only known
to be a solution of its equation if it has one. `RecursionHasSolution` (in `SearchProofs` for
`bitLength`, in `RangeProbeProofs` for the loop's turns) shows that it has, and facts about all
of its values are proved by looking at a least counterexample (`SmallestOfIsLeast`,
`LeastNatural`).

Only model-checked: every liveness property (`Termination` of the search and of recovery,
`SweepEnds`, `CommandsEnd`), which the prover cannot do. The three violations of 7 are TLC's.

## 7. Where the documentation and the code differ

| Run | The text | The code |
|---|---|---|
| `tooling_boundary` | "the search does not step around it as a hole" (`skills/developer/perf-bisection/reference.md:95-96`) | a model's accept reply replaces the tooling note by its own category, which the search does step around |
| `stale_response` | "Accept a culprit only when `status` is `completed`" (`skills/developer/perf-bisect-range/SKILL.md:34-35`) | after a killed or blocked run in a reused directory the adapter answers with the previous run's `completed` and culprit |
| `live_output` | output is streamed into live artifacts that can be tailed "to diagnose container/install/task friction before the process exits" (`bisection/engine.py:295-300`) | one line is read per wakeup of `select`, which does not see Python's buffer: of lines written at once all but the first stay there while the command is silent, so the last lines of a command that hangs are missing |

## 8. Other observations

Behaviour that the models have, or that was met in modelling, beside the three runs of 7.

Search and measurement:

* A merge can lead to the wrong commit although every measurement is truthful, because
  rev-list's order is searched as if it were linear; `README.md:10` promises the first commit
  that regressed. `NamesTheRegression` says what is left of the promise.
* A timeout extension is not carried over to the next retry (`recovery.py:199`), although the
  docstring calls the escalation monotonic (`recovery.py:196-197`).
* A retry that clears the caches compiles its kernels in the measured sample itself, and no
  warmup follows, the ledger having its entry. `models.py:183-186` says that compilation lands
  on the warmup. `ColdOnlyWhenCleared` bounds the effect.
* With `--min_regression_pct 0` and quiet references a bad reference equal to the good one is
  reproduced, and with `--gray_zone_pct 0` as well a candidate equal to it is BAD. The
  properties of `PairedSearch` that exclude a threshold of zero say so.
* A regression between threshold and threshold plus gray zone is reproduced, yet a candidate
  with the same value is UNCLEAR and ends the search.
* A candidate whose throughput is zero is BAD for the comparison, although `oracle.py` calls
  a run without progress dead.
* `engine._measure_reference_commit` has no caller but a test; references are measured by
  `measurement.measure_commit`, which does the same.

Tooling and commands:

* A run that is blocked by its tooling has already removed the snapshot of the run before,
  whose `tooling_manifest.json` stays (`tooling.py:242-253`). `tooling_blocker.json` is never
  removed.
* A missing or empty tooling directory raises a plain `RuntimeError` (`tooling.py:65`), so that
  neither a blocker nor a status is written.
* Hashing takes a symbolic link to a file by its target's name (`tooling.py:53-54`), copying
  follows it (`tooling.py:254-262`, `copytree` without `symlinks=True`). Tooling that holds such a
  link is therefore always blocked with `tooling_hash_mismatch`, pinned to a commit or not, and
  the message blames a change. A link to a directory is copied but was not hashed, with the same
  end unless the directory is empty; a link to nothing makes the copy fail with an exception that
  nothing catches.
* Between a runner's check of the snapshot and its use by the driver and the result builder lie
  hours; `MeasuredWithThePin` has to except a change in between.
* A child that ends between `poll` and the next look at the limit is reported as timed out, and
  what it wrote last is not read (`engine.py:354-357`); `readline()` and `read()` may block past
  the limit.

Directories and processes:

* The shortcut for an image that is already active (`engine.py:703-704`) is not taken within
  one process: each further repair is layered over the active one and has another tag.
* A repair made at one commit is used at all later ones (`engine.py:673`), although each
  commit of a sweep is called independent (`README.md:93-95`).
* The extension of a missing limit is a limit: a run without `--candidate_timeout_s` can be
  cut off only in its extended retry (`engine.py:563`).
* Attempts of earlier runs at the same candidates and task are indexed by later reports; a
  failure that a retry recovered may become the `terminal_blocker` of a completed run; the
  first `status.json` of a run quotes the blocker of the run before.
* Leftover containers of other commits are never removed and share the GPU with later
  measurements. `_cleanup_probe_environment` removes no container either (`engine.py:1367-1398`):
  one that outlived a timed-out command (`engine.py:354-357`, `runner.py:1190-1214`) can make
  `envs/<sha>` again after the sweep reported it as released.
* `runner.py:486` justifies removing git locks with the runner being the only git user of
  the clone. That is so with `docker-reconstruct` (proved: `CloneIsExclusive`), not with a
  git that outlived a killed `docker-source` or local runner.

## 9. Not modelled

* Pure computations and formats: argument parsing, plan records, the text of reports,
  `classify_blocker`'s patterns, resolution of a commit's dependency pins, command lines of git, pip and docker.
* The synthetic runner mode, a rehearsal that starts nothing.
* Host facts read once (preflight, GPU identity, image era), console progress.
* Measurements that are NaN, and rounding of floating-point numbers.
* A command that closes its output and goes on, and characters that are cut in two by a read.
* In `ToolingSnapshot`, what a link leads to: a copy of one holds any plain content, and whether
  a link leads to a file does not depend on where the tree lies.
* In `LocalBisection`, the category of a blocker: every attempt without a metric counts as one.
  `classify_blocker` (`artifacts.py:449-459`) returns none for a failure with neither a note nor a
  known pattern in its log; the engine gives every failure a note.
* In `ToolingSnapshot` a run is over before the next begins; a leftover runner of an earlier
  run, which `AttemptProcesses` has, uses its snapshot unseen. The capability probe
  (`tooling_capability.py`) and the result gate (`oracle.py`) are pure computations.
* In `AttemptProcesses` the docker daemon serves its clients in the order they were started,
  and a runner whose engine is gone ends with its next line of output. What two users of one
  clone do to each other is not modelled, only whether there can be two.

## 10. Plan

Written in this order: the search and its abstract specification (the core: a wrong claim
here wastes everything else), its proofs, recovery, measurement, environment, the range
probe, the whole run, the processes, the comparison with its composition of search and
references, the tooling snapshot, the pipe. What is left, most important first:

1. Composition: `PairedSearch`'s samples as `CommitMeasurement` over `MeasurementRecovery`, and
   `LocalBisection`'s search as `PairedSearch`, each shown to implement the abstract step its
   caller uses; with `ProbeLoop`, the set of images behind one comparison.
2. `BlockerCategories`, the precedence of `classify_blocker`, and the pins that
   `env_setup` reads from a commit.
3. Theorems beyond the runs' properties: the compositions of 1 as refinements, and for the
   environment and the processes which leftovers are harmless and why.
