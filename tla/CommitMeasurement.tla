-------------------------- MODULE CommitMeasurement --------------------------
(***************************************************************************)
(* Measuring commits in one work directory: run_warmups with its ledger,   *)
(* the sampling loops of measure_commit, _measure_reference_commit and     *)
(* run_local_candidate, and the JIT/Kit caches the samples share.          *)
(*                                                                         *)
(* A call measures one commit.  Each sample is one call of                 *)
(* _measure_with_recovery (module MeasurementRecovery), of which only two  *)
(* things matter here: whether it yields a metric, and whether one of its  *)
(* retries cleared the caches.  The numbers are arbitrary: whether the     *)
(* samples so far are settled -- a reference's spread is small enough, a   *)
(* candidate's verdict is not UNCLEAR -- is an input of the step.          *)
(*                                                                         *)
(* The process may die at any point and be run again on the directory.     *)
(***************************************************************************)
EXTENDS Integers, Sequences, FiniteSets

CONSTANTS
  Commits,              \* commits that are measured
  Stacks,               \* stack hashes
  Contracts,            \* tooling and task hashes a plan may have
  Warmups,              \* values --warmup_runs may have: 0 or 1
  Floors,               \* values reference_runs and candidate_runs may have
  Ceilings,             \* values max_reference_runs and max_candidate_runs may have
  MaxCalls,             \* bound: calls considered
  MaxCrashes            \* bound: deaths of the process considered

ASSUME BoundsAssumption ==
  /\ Floors \subseteq Nat \ {0}
  /\ Ceilings \subseteq Nat
  /\ Warmups \subseteq {0, 1}
  /\ MaxCalls \in Nat
  /\ MaxCrashes \in Nat

VARIABLES
  plan,                 \* the plan: warmup runs, run floor, run ceiling
  stackOf,              \* the stack each commit resolves to
  contract,             \* the contract of this process's plan
  ledger,               \* warmup_state.json: <<commit, contract>> pairs
  cache,                \* per stack: the commits whose kernels its cache dirs hold
  pc,                   \* where the call is
  call,                 \* the commit and the role of the call
  samples,              \* the samples of the call: was each cold, did the last settle it
  report,               \* what the last call returned
  warmups,              \* history: metric-yielding warmup runs per <<commit, contract>>
  cleared,              \* history: stacks whose caches a retry ever cleared
  calls, crashes        \* bounded counters

disk == <<ledger, cache>>
history == <<warmups, cleared>>
counters == <<calls, crashes>>
vars == <<plan, stackOf, contract, disk, pc, call, samples, report, history, counters>>

Roles == {"reference", "candidate"}
Keys == Commits \X Contracts
NoReport == [role |-> "none", verdict |-> "none", samples |-> << >>]

LedgerKeyForgetsCommit == {k \in Keys : k[2] = contract}
LedgerKey == {<<call.commit, contract>>}
stack == stackOf[call.commit]

\* max(min_runs, max_runs)
CapForgetsFloor == plan.ceiling
Cap == IF plan.ceiling > plan.floor THEN plan.ceiling ELSE plan.floor

-----------------------------------------------------------------------------
Init ==
  /\ plan \in [warmup : Warmups, floor : Floors, ceiling : Ceilings]
  /\ stackOf \in [Commits -> Stacks]
  /\ contract \in Contracts
  /\ ledger = {}
  /\ cache = [s \in Stacks |-> {}]
  /\ pc = "idle"
  /\ call = [commit |-> CHOOSE c \in Commits : TRUE, role |-> "none"]
  /\ samples = << >>
  /\ report = NoReport
  /\ warmups = [k \in Keys |-> 0]
  /\ cleared = {}
  /\ calls = 0
  /\ crashes = 0

StartCall == \E c \in Commits, role \in Roles :
  /\ pc = "idle"
  /\ calls < MaxCalls
  /\ call' = [commit |-> c, role |-> role]
  /\ pc' = "warmup"
  /\ samples' = << >>
  /\ report' = NoReport
  /\ calls' = calls + 1
  /\ UNCHANGED <<plan, stackOf, contract, disk, history, crashes>>

\* One run of the benchmark; clears says whether a retry of it cleared the caches.
Benchmark(clears, metric) ==
  LET kept == IF clears THEN {} ELSE cache[stack]
  IN /\ cache' = [cache EXCEPT ![stack] = IF metric THEN kept \cup {call.commit} ELSE kept]
     /\ cleared' = IF clears THEN cleared \cup {stack} ELSE cleared

ReturnAs(verdict, taken) ==
  /\ report' = [role |-> call.role, verdict |-> verdict, samples |-> taken]
  /\ pc' = "idle"

\* No warmup is wanted, or the ledger has one for this commit under this contract.
SkipWarmup ==
  /\ pc = "warmup"
  /\ plan.warmup = 0 \/ LedgerKey \cap ledger # {}
  /\ pc' = "sample"
  /\ UNCHANGED <<plan, stackOf, contract, disk, call, samples, report, history, counters>>

WarmupNeeded == pc = "warmup" /\ plan.warmup > 0 /\ LedgerKey \cap ledger = {}

RunWarmup == \E clears \in BOOLEAN :
  /\ WarmupNeeded
  /\ Benchmark(clears, TRUE)
  /\ warmups' = [k \in Keys |-> IF k = <<call.commit, contract>> THEN warmups[k] + 1
                                ELSE warmups[k]]
  /\ pc' = "ledger"
  /\ UNCHANGED <<plan, stackOf, contract, ledger, call, samples, report, counters>>

WriteLedgerAlone ==
  /\ pc = "ledger"
  /\ ledger' = LedgerKey
  /\ pc' = "sample"
  /\ UNCHANGED <<plan, stackOf, contract, cache, call, samples, report, history, counters>>
WriteLedger ==
  /\ pc = "ledger"
  /\ ledger' = ledger \cup LedgerKey
  /\ pc' = "sample"
  /\ UNCHANGED <<plan, stackOf, contract, cache, call, samples, report, history, counters>>

NoMetricVerdict == IF call.role = "candidate" THEN "SKIP" ELSE "no_metric"

WarmupFailureIgnored == \E clears \in BOOLEAN :
  /\ WarmupNeeded
  /\ Benchmark(clears, FALSE)
  /\ pc' = "sample"
  /\ UNCHANGED <<plan, stackOf, contract, ledger, call, samples, report, warmups, counters>>
WarmupFailed == \E clears \in BOOLEAN :
  /\ WarmupNeeded
  /\ Benchmark(clears, FALSE)
  /\ ReturnAs(NoMetricVerdict, samples)
  /\ UNCHANGED <<plan, stackOf, contract, ledger, call, samples, warmups, counters>>

\* The samples are summarised, and for a candidate compared, once the floor is reached.
SettledVerdict == IF call.role = "candidate" THEN "GOOD_OR_BAD" ELSE "summary"
UnsettledVerdict == IF call.role = "candidate" THEN "UNCLEAR" ELSE "summary"

TakeSample == \E clears, settled \in BOOLEAN :
  LET taken == Append(samples, [cold |-> clears \/ call.commit \notin cache[stack],
                                settled |-> settled])
  IN /\ pc = "sample"
     /\ Benchmark(clears, TRUE)
     /\ settled => Len(taken) >= plan.floor
     /\ samples' = taken
     /\ IF settled THEN ReturnAs(SettledVerdict, taken)
        ELSE IF Len(taken) >= Cap THEN ReturnAs(UnsettledVerdict, taken)
        ELSE UNCHANGED <<report, pc>>
     /\ UNCHANGED <<plan, stackOf, contract, ledger, call, warmups, counters>>

\* One sample without a metric ends the call; the samples before it are not used.
MissSample == \E clears \in BOOLEAN :
  /\ pc = "sample"
  /\ Benchmark(clears, FALSE)
  /\ ReturnAs(NoMetricVerdict, samples)
  /\ UNCHANGED <<plan, stackOf, contract, ledger, call, samples, warmups, counters>>

\* The process ends, or dies anywhere; the next one works on the same directory, maybe
\* with another contract.  A ledger cut off while it was written reads as an empty one.
Crash == \E clears \in BOOLEAN, next \in Contracts :
  /\ crashes < MaxCrashes
  /\ crashes' = crashes + 1
  /\ pc = "idle" => ~clears
  /\ Benchmark(clears, FALSE)
  /\ contract' = next
  /\ pc' = "idle"
  /\ samples' = << >>
  /\ ledger' \in IF pc = "ledger" THEN {ledger, {}} ELSE {ledger}
  /\ UNCHANGED <<plan, stackOf, call, report, warmups, calls>>

Measure ==
  \/ SkipWarmup
  \/ RunWarmup
  \/ WriteLedger
  \/ WarmupFailed
  \/ TakeSample
  \/ MissSample

Next == StartCall \/ Measure \/ Crash

Spec == Init /\ [][Next]_vars

-----------------------------------------------------------------------------
(* Correctness.                                                            *)

Samples == [cold : BOOLEAN, settled : BOOLEAN]
Verdicts == {"none", "SKIP", "no_metric", "summary", "GOOD_OR_BAD", "UNCLEAR"}

TypeOK ==
  /\ plan \in [warmup : Warmups, floor : Floors, ceiling : Ceilings]
  /\ stackOf \in [Commits -> Stacks]
  /\ contract \in Contracts
  /\ ledger \subseteq Keys
  /\ cache \in [Stacks -> SUBSET Commits]
  /\ pc \in {"idle", "warmup", "ledger", "sample"}
  /\ call \in [commit : Commits, role : Roles \cup {"none"}]
  /\ samples \in Seq(Samples)
  /\ report.verdict \in Verdicts
  /\ warmups \in [Keys -> Nat]
  /\ cleared \subseteq Stacks
  /\ calls \in 0 .. MaxCalls
  /\ crashes \in 0 .. MaxCrashes

\* A number is reported only over enough samples, and UNCLEAR, or a summary that never
\* settled, only after every allowed sample was taken (MeasurementPolicy).
NumbersRestOnEnoughSamples ==
  report.verdict \in {"summary", "GOOD_OR_BAD", "UNCLEAR"} =>
    LET taken == report.samples
    IN /\ Len(taken) \in plan.floor .. Cap
       /\ ~taken[Len(taken)].settled => Len(taken) = Cap

\* With warmups on, no sample counts before a warmup of its commit under this very
\* contract has succeeded and is in the ledger, across deaths of the process.
SamplesFollowAWarmup ==
  pc = "sample" /\ plan.warmup = 1 => warmups[<<call.commit, contract>>] > 0

\* A commit is warmed up once per contract; only a death between the warmup and its
\* ledger entry, or while the ledger is written, makes it run again.
WarmupOncePerCommit ==
  \A k \in Keys : warmups[k] <= 1 + crashes

\* A measured sample finds its commit's kernels in the caches unless some retry cleared
\* the caches of that stack.
ColdOnlyWhenCleared ==
  plan.warmup = 1 =>
    \A k \in 1 .. Len(samples) : samples[k].cold => stack \in cleared

=============================================================================
