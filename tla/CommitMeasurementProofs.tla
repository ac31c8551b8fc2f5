------------------------ MODULE CommitMeasurementProofs ------------------------
(***************************************************************************)
(* For every set of commits, stacks and contracts, every floor and ceiling *)
(* and any number of calls and deaths of the process: a number rests on    *)
(* enough samples, which follow a warmup and are warm unless a retry       *)
(* cleared the caches, and a warmup is repeated only after a death.        *)
(***************************************************************************)
EXTENDS CommitMeasurement, TLAPS

\* TypeOK without the commit of the first call, which there may be none to make.
Typed ==
  /\ plan \in [warmup : Warmups, floor : Floors, ceiling : Ceilings]
  /\ stackOf \in [Commits -> Stacks]
  /\ contract \in Contracts
  /\ ledger \subseteq Keys
  /\ cache \in [Stacks -> SUBSET Commits]
  /\ pc \in {"idle", "warmup", "ledger", "sample"}
  /\ pc # "idle" => call.commit \in Commits
  /\ samples \in Seq(Samples)
  /\ warmups \in [Keys -> Nat]
  /\ cleared \subseteq Stacks
  /\ crashes \in Nat

\* A call that goes on has taken fewer samples than it may.
RoomForASample ==
  /\ pc \in {"warmup", "ledger"} => samples = << >>
  /\ pc = "sample" => Len(samples) < Cap

ThisKey == <<call.commit, contract>>

\* The ledger has only what was warmed up, and with warmups on a sampling call's entry is there.
LedgerIsEarned ==
  /\ \A k \in ledger : warmups[k] > 0
  /\ pc = "ledger" => warmups[ThisKey] > 0
  /\ pc = "sample" /\ plan.warmup = 1 => ThisKey \in ledger

\* A warmup whose entry is missing, and is not about to be written, is owed to a death.
EntryLostByDeath ==
  \A k \in Keys :
    /\ warmups[k] <= 1 + crashes
    /\ k \notin ledger /\ ~(pc = "ledger" /\ k = ThisKey) => warmups[k] <= crashes

\* Commit c finds its kernels, or the caches of its stack were cleared at some time.
Warm(c) == c \in cache[stackOf[c]] \/ stackOf[c] \in cleared
KernelsStay == \A k \in Keys : warmups[k] > 0 => Warm(k[1])

IInv ==
  /\ Typed /\ RoomForASample /\ LedgerIsEarned /\ EntryLostByDeath /\ KernelsStay
  /\ NumbersRestOnEnoughSamples /\ ColdOnlyWhenCleared

\* The least number of samples is positive and within what is allowed.
LEMMA CapFacts == ASSUME Typed
                  PROVE  /\ plan.floor \in Nat \ {0} /\ Cap \in Nat /\ plan.floor <= Cap
                         /\ plan.warmup \in {0, 1}
<1>1. plan.floor \in Floors /\ plan.ceiling \in Ceilings /\ plan.warmup \in Warmups
  BY DEF Typed
<1>2. plan.floor \in Nat \ {0} /\ plan.ceiling \in Nat
  BY <1>1, BoundsAssumption
<1>3. plan.warmup \in {0, 1}
  BY <1>1, BoundsAssumption
<1>4. Cap \in Nat /\ plan.floor <= Cap
  BY <1>2, SMT DEF Cap
<1> QED BY <1>2, <1>3, <1>4

\* A run of the benchmark leaves every commit as warm as it was, or its stack cleared, and the
\* commit that yielded a metric warm.
LEMMA BenchmarkKeepsWarm ==
  ASSUME Typed, call.commit \in Commits, NEW clears \in BOOLEAN, NEW metric \in BOOLEAN,
         Benchmark(clears, metric), UNCHANGED <<stackOf, call>>
  PROVE  /\ cache' \in [Stacks -> SUBSET Commits] /\ cleared' \subseteq Stacks
         /\ cleared \subseteq cleared' /\ (clears => stack \in cleared')
         /\ \A c \in Commits : Warm(c) => Warm(c)'
         /\ metric => Warm(call.commit)'
<1>1. stack \in Stacks /\ stackOf \in [Commits -> Stacks] /\ cache \in [Stacks -> SUBSET Commits]
      /\ cleared \subseteq Stacks
  BY DEF Typed, stack
<1>2. cleared' \subseteq Stacks /\ cleared \subseteq cleared' /\ (clears => stack \in cleared')
  BY <1>1 DEF Benchmark
<1>3. cache' \in [Stacks -> SUBSET Commits]
  BY <1>1 DEF Benchmark
<1>4. ASSUME NEW c \in Commits, Warm(c) PROVE Warm(c)'
  <2>1. CASE stackOf[c] = stack /\ clears
    BY <1>2, <2>1 DEF Warm
  <2>2. CASE stackOf[c] = stack /\ ~clears
    <3>1. cache[stack] \subseteq cache'[stack]
      BY <1>1, <2>2 DEF Benchmark
    <3> QED BY <1>2, <1>4, <2>2, <3>1 DEF Warm
  <2>3. CASE stackOf[c] # stack
    <3>1. cache'[stackOf[c]] = cache[stackOf[c]]
      BY <1>1, <2>3 DEF Benchmark
    <3> QED BY <1>2, <1>4, <3>1 DEF Warm
  <2> QED BY <2>1, <2>2, <2>3
<1>5. ASSUME metric PROVE call.commit \in cache'[stack]
  BY <1>1, <1>5 DEF Benchmark
<1>6. metric => call.commit \in cache'[stackOf[call.commit]]
  BY <1>5 DEF stack
<1> QED BY <1>2, <1>3, <1>4, <1>6 DEF Warm

\* The first state has the invariant.
LEMMA Initially == Init => IInv
<1> SUFFICES ASSUME Init PROVE IInv
  OBVIOUS
<1>1. Typed
  BY DEF Init, Typed, Keys
<1>2. RoomForASample /\ LedgerIsEarned /\ EntryLostByDeath /\ KernelsStay
  BY DEF Init, RoomForASample, LedgerIsEarned, EntryLostByDeath, KernelsStay
<1>3. NumbersRestOnEnoughSamples /\ ColdOnlyWhenCleared
  BY DEF Init, NumbersRestOnEnoughSamples, ColdOnlyWhenCleared, NoReport
<1> QED BY <1>1, <1>2, <1>3 DEF IInv

-----------------------------------------------------------------------------
(* One step.  Every action but StartCall and Crash keeps the call.         *)

Kept == UNCHANGED <<plan, stackOf, contract, call>>

\* Types are kept.
LEMMA TypedStep == Typed /\ [Next]_vars => Typed'
<1> SUFFICES ASSUME Typed, [Next]_vars PROVE Typed'
  OBVIOUS
<1>1. CASE StartCall
  BY <1>1 DEF StartCall, Typed, disk, history
<1>2. CASE SkipWarmup
  BY <1>2 DEF SkipWarmup, Typed, disk, history, counters
<1>3. ASSUME call.commit \in Commits, NEW clears \in BOOLEAN, NEW metric \in BOOLEAN, Benchmark(clears, metric),
             UNCHANGED <<stackOf, call>>
      PROVE  cache' \in [Stacks -> SUBSET Commits] /\ cleared' \subseteq Stacks
  BY <1>3, BenchmarkKeepsWarm
<1>4. CASE RunWarmup
  <2>1. PICK clears \in BOOLEAN : Benchmark(clears, TRUE)
    BY <1>4 DEF RunWarmup
  <2>2. call.commit \in Commits
    BY <1>4 DEF RunWarmup, WarmupNeeded, Typed
  <2>3. cache' \in [Stacks -> SUBSET Commits] /\ cleared' \subseteq Stacks
    BY <1>3, <1>4, <2>1, <2>2 DEF RunWarmup
  <2>4. warmups' \in [Keys -> Nat]
    BY <1>4 DEF RunWarmup, Typed
  <2>5. pc' = "ledger" /\ UNCHANGED <<plan, stackOf, contract, ledger, call, samples, crashes>>
    BY <1>4 DEF RunWarmup, counters
  <2> QED BY <2>2, <2>3, <2>4, <2>5 DEF Typed
<1>5. CASE WriteLedger
  BY <1>5 DEF WriteLedger, LedgerKey, Keys, Typed, history, counters
<1>6. CASE WarmupFailed
  <2>1. PICK clears \in BOOLEAN : Benchmark(clears, FALSE)
    BY <1>6 DEF WarmupFailed
  <2>2. call.commit \in Commits
    BY <1>6 DEF WarmupFailed, WarmupNeeded, Typed
  <2>3. cache' \in [Stacks -> SUBSET Commits] /\ cleared' \subseteq Stacks
    BY <1>3, <1>6, <2>1, <2>2 DEF WarmupFailed
  <2> QED BY <1>6, <2>3 DEF WarmupFailed, ReturnAs, Typed, counters
<1>7. CASE TakeSample
  <2>1. PICK clears \in BOOLEAN, settled \in BOOLEAN :
           /\ Benchmark(clears, TRUE)
           /\ samples' = Append(samples, [cold |-> clears \/ call.commit \notin cache[stack], settled |-> settled])
    BY <1>7 DEF TakeSample
  <2>2. call.commit \in Commits
    BY <1>7 DEF TakeSample, Typed
  <2>3. cache' \in [Stacks -> SUBSET Commits] /\ cleared' \subseteq Stacks
    BY <1>3, <1>7, <2>1, <2>2 DEF TakeSample
  <2>4. [cold |-> clears \/ call.commit \notin cache[stack], settled |-> settled] \in Samples
    BY DEF Samples
  <2>5. samples' \in Seq(Samples)
    BY <2>1, <2>4 DEF Typed
  <2>6. pc' \in {"idle", "sample"} /\ UNCHANGED <<plan, stackOf, contract, ledger, call, warmups, crashes>>
    BY <1>7 DEF TakeSample, ReturnAs, counters
  <2> QED BY <2>2, <2>3, <2>5, <2>6 DEF Typed
<1>8. CASE MissSample
  <2>1. PICK clears \in BOOLEAN : Benchmark(clears, FALSE)
    BY <1>8 DEF MissSample
  <2>2. call.commit \in Commits
    BY <1>8 DEF MissSample, Typed
  <2>3. cache' \in [Stacks -> SUBSET Commits] /\ cleared' \subseteq Stacks
    BY <1>3, <1>8, <2>1, <2>2 DEF MissSample
  <2> QED BY <1>8, <2>3 DEF MissSample, ReturnAs, Typed, counters
<1>9. CASE Crash
  <2>1. PICK clears \in BOOLEAN : Benchmark(clears, FALSE) /\ (pc = "idle" => ~clears)
    BY <1>9 DEF Crash
  <2>2. cache' \in [Stacks -> SUBSET Commits] /\ cleared' \subseteq Stacks
    <3>1. CASE pc = "idle"
      BY <2>1, <3>1 DEF Benchmark, Typed
    <3>2. CASE pc # "idle"
      BY <1>3, <1>9, <2>1, <3>2 DEF Crash, Typed
    <3> QED BY <3>1, <3>2
  <2>3. ledger' \subseteq Keys /\ crashes' \in Nat /\ samples' \in Seq(Samples) /\ contract' \in Contracts
    BY <1>9 DEF Crash, Typed
  <2> QED BY <1>9, <2>2, <2>3 DEF Crash, Typed
<1>10. CASE UNCHANGED vars
  BY <1>10 DEF vars, disk, history, counters, Typed
<1> QED BY <1>1, <1>2, <1>4, <1>5, <1>6, <1>7, <1>8, <1>9, <1>10 DEF Next, Measure

\* A call that goes on has room for another sample, and one that returned a number had enough.
LEMMA EnoughSamplesStep ==
  IInv /\ [Next]_vars => RoomForASample' /\ NumbersRestOnEnoughSamples'
<1> SUFFICES ASSUME IInv, [Next]_vars PROVE RoomForASample' /\ NumbersRestOnEnoughSamples'
  OBVIOUS
<1> USE DEF IInv
<1>0. plan.floor \in Nat \ {0} /\ Cap \in Nat /\ plan.floor <= Cap
  BY CapFacts
<1>1. CASE StartCall
  BY <1>1 DEF StartCall, RoomForASample, NumbersRestOnEnoughSamples, NoReport, Cap
<1>2. CASE SkipWarmup
  <2>1. Len(samples) < Cap /\ UNCHANGED <<plan, samples, report>> /\ pc' = "sample"
    BY <1>0, <1>2 DEF SkipWarmup, RoomForASample
  <2> QED BY <2>1 DEF RoomForASample, NumbersRestOnEnoughSamples, Cap
<1>3. CASE RunWarmup
  <2>1. samples = << >> /\ UNCHANGED <<plan, samples, report>> /\ pc' = "ledger"
    BY <1>3 DEF RunWarmup, WarmupNeeded, RoomForASample
  <2> QED BY <2>1 DEF RoomForASample, NumbersRestOnEnoughSamples, Cap
<1>4. CASE WriteLedger
  <2>1. Len(samples) < Cap /\ UNCHANGED <<plan, samples, report>> /\ pc' = "sample"
    BY <1>0, <1>4 DEF WriteLedger, RoomForASample
  <2> QED BY <2>1 DEF RoomForASample, NumbersRestOnEnoughSamples, Cap
<1>5. CASE WarmupFailed \/ MissSample
  <2>1. ReturnAs(NoMetricVerdict, samples)
    BY <1>5 DEF WarmupFailed, MissSample
  <2>2. NoMetricVerdict \in {"SKIP", "no_metric"}
    BY DEF NoMetricVerdict
  <2>3. report'.verdict \in {"SKIP", "no_metric"} /\ pc' = "idle"
    BY <2>1, <2>2 DEF ReturnAs
  <2> QED BY <2>3 DEF RoomForASample, NumbersRestOnEnoughSamples
<1>6. CASE TakeSample
  <2>1. PICK clears \in BOOLEAN, settled \in BOOLEAN :
          LET taken == Append(samples, [cold |-> clears \/ call.commit \notin cache[stack], settled |-> settled])
          IN /\ pc = "sample"
             /\ settled => Len(taken) >= plan.floor
             /\ samples' = taken
             /\ IF settled THEN ReturnAs(SettledVerdict, taken)
                ELSE IF Len(taken) >= Cap THEN ReturnAs(UnsettledVerdict, taken)
                ELSE UNCHANGED <<report, pc>>
             /\ UNCHANGED plan
    BY <1>6 DEF TakeSample
  <2>2. samples \in Seq(Samples) /\ Len(samples) < Cap /\ Len(samples) \in Nat
    BY <2>1 DEF Typed, RoomForASample
  <2>3. [cold |-> clears \/ call.commit \notin cache[stack], settled |-> settled] \in Samples
    BY DEF Samples
  <2>4. Len(samples') = Len(samples) + 1 /\ samples'[Len(samples')].settled = settled
    BY <2>1, <2>2, <2>3
  <2>5. Cap' = Cap
    BY <2>1 DEF Cap
  <2>6. CASE settled
    <3>1. report'.samples = samples' /\ pc' = "idle" /\ plan' = plan
      BY <2>1, <2>6 DEF ReturnAs
    <3>2. Len(samples') \in plan.floor .. Cap
      BY <1>0, <2>1, <2>2, <2>4, <2>6
    <3> QED BY <2>4, <2>5, <2>6, <3>1, <3>2 DEF RoomForASample, NumbersRestOnEnoughSamples
  <2>7. CASE ~settled /\ Len(samples') >= Cap
    <3>1. report'.samples = samples' /\ pc' = "idle" /\ plan' = plan
      BY <2>1, <2>7 DEF ReturnAs
    <3>2. Len(samples') = Cap
      BY <1>0, <2>2, <2>4, <2>7
    <3> QED BY <1>0, <2>5, <3>1, <3>2 DEF RoomForASample, NumbersRestOnEnoughSamples
  <2>8. CASE ~settled /\ ~(Len(samples') >= Cap)
    <3>1. UNCHANGED <<report, pc, plan>>
      BY <2>1, <2>8
    <3>2. Len(samples') < Cap
      BY <1>0, <2>2, <2>4, <2>8
    <3> QED BY <2>1, <2>5, <3>1, <3>2 DEF RoomForASample, NumbersRestOnEnoughSamples
  <2> QED BY <2>6, <2>7, <2>8
<1>7. CASE Crash
  <2>1. pc' = "idle" /\ UNCHANGED <<plan, report>>
    BY <1>7 DEF Crash
  <2> QED BY <2>1 DEF RoomForASample, NumbersRestOnEnoughSamples, Cap
<1>8. CASE UNCHANGED vars
  BY <1>8 DEF vars, RoomForASample, NumbersRestOnEnoughSamples, Cap
<1> QED BY <1>1, <1>2, <1>3, <1>4, <1>5, <1>6, <1>7, <1>8 DEF Next, Measure

\* What a step does to the ledger and to the warmups it stands for.
LEMMA LedgerStep == IInv /\ [Next]_vars => LedgerIsEarned' /\ EntryLostByDeath'
<1> SUFFICES ASSUME IInv, [Next]_vars PROVE LedgerIsEarned' /\ EntryLostByDeath'
  OBVIOUS
<1> USE DEF IInv
<1>0. plan.warmup \in {0, 1} /\ warmups \in [Keys -> Nat] /\ crashes \in Nat /\ ledger \subseteq Keys
  BY CapFacts DEF Typed
<1>1. CASE StartCall
  <2>1. pc = "idle" /\ pc' = "warmup" /\ UNCHANGED <<ledger, warmups, crashes>>
    BY <1>1 DEF StartCall, disk, history
  <2> QED BY <2>1 DEF LedgerIsEarned, EntryLostByDeath
<1>2. CASE SkipWarmup
  <2>1. pc = "warmup" /\ pc' = "sample" /\ (plan.warmup = 0 \/ ThisKey \in ledger)
        /\ UNCHANGED <<ledger, warmups, crashes, call, contract, plan>>
    BY <1>2 DEF SkipWarmup, disk, history, counters, LedgerKey, ThisKey
  <2> QED BY <2>1 DEF LedgerIsEarned, EntryLostByDeath, ThisKey
<1>3. CASE RunWarmup
  <2>1. pc = "warmup" /\ pc' = "ledger" /\ ThisKey \notin ledger /\ UNCHANGED <<ledger, crashes, call, contract, plan>>
        /\ warmups' = [k \in Keys |-> IF k = ThisKey THEN warmups[k] + 1 ELSE warmups[k]]
    BY <1>3 DEF RunWarmup, WarmupNeeded, counters, LedgerKey, ThisKey
  <2>2. ThisKey \in Keys /\ ThisKey' = ThisKey
    BY <2>1 DEF Typed, Keys, ThisKey
  <2>3. LedgerIsEarned'
    BY <1>0, <2>1, <2>2 DEF LedgerIsEarned
  <2>4. warmups[ThisKey] <= crashes
    BY <2>1, <2>2 DEF EntryLostByDeath
  <2>5. EntryLostByDeath'
    BY <1>0, <2>1, <2>2, <2>4 DEF EntryLostByDeath
  <2> QED BY <2>3, <2>5
<1>4. CASE WriteLedger
  <2>1. pc = "ledger" /\ pc' = "sample" /\ ledger' = ledger \cup {ThisKey}
        /\ UNCHANGED <<warmups, crashes, call, contract, plan>>
    BY <1>4 DEF WriteLedger, history, counters, LedgerKey, ThisKey
  <2> QED BY <2>1 DEF LedgerIsEarned, EntryLostByDeath, ThisKey
<1>5. CASE WarmupFailed \/ MissSample \/ TakeSample
  <2>1. pc # "ledger" /\ pc' # "ledger" /\ (pc' = "sample" => pc = "sample")
    BY <1>5 DEF WarmupFailed, WarmupNeeded, MissSample, TakeSample, ReturnAs
  <2>2. UNCHANGED <<ledger, warmups, crashes, call, contract, plan>>
    BY <1>5 DEF WarmupFailed, MissSample, TakeSample, counters
  <2> QED BY <2>1, <2>2 DEF LedgerIsEarned, EntryLostByDeath, ThisKey
<1>6. CASE Crash
  <2>1. pc' = "idle" /\ UNCHANGED warmups /\ crashes' = crashes + 1
        /\ (ledger' = ledger \/ (pc = "ledger" /\ ledger' = {}))
    BY <1>6 DEF Crash
  <2>2. \A k \in ledger' : warmups'[k] > 0
    BY <2>1 DEF LedgerIsEarned
  <2>3. \A k \in Keys : warmups'[k] <= crashes'
    BY <1>0, <2>1 DEF EntryLostByDeath
  <2>4. \A k \in Keys : warmups'[k] <= 1 + crashes'
    BY <1>0, <2>1, <2>3
  <2> QED BY <2>1, <2>2, <2>3, <2>4 DEF LedgerIsEarned, EntryLostByDeath
<1>7. CASE UNCHANGED vars
  BY <1>7 DEF vars, disk, history, counters, LedgerIsEarned, EntryLostByDeath, ThisKey
<1> QED BY <1>1, <1>2, <1>3, <1>4, <1>5, <1>6, <1>7 DEF Next, Measure

\* A metric is measured on kernels that a warmup left, or on a stack once cleared.
LEMMA WarmStep == IInv /\ [Next]_vars => KernelsStay' /\ ColdOnlyWhenCleared'
<1> SUFFICES ASSUME IInv, [Next]_vars PROVE KernelsStay' /\ ColdOnlyWhenCleared'
  OBVIOUS
<1> USE DEF IInv
<1>0. plan.warmup \in {0, 1} /\ warmups \in [Keys -> Nat] /\ samples \in Seq(Samples)
  BY CapFacts DEF Typed
<1>1. CASE StartCall
  <2>1. UNCHANGED <<stackOf, cache, warmups, cleared>> /\ samples' = << >>
    BY <1>1 DEF StartCall, disk, history
  <2> QED BY <2>1 DEF KernelsStay, ColdOnlyWhenCleared, Warm
<1>2. CASE SkipWarmup \/ WriteLedger
  <2>1. UNCHANGED <<plan, stackOf, cache, warmups, cleared, samples, call>>
    BY <1>2 DEF SkipWarmup, WriteLedger, disk, history
  <2> QED BY <2>1 DEF KernelsStay, ColdOnlyWhenCleared, Warm, stack
<1>3. ASSUME NEW clears \in BOOLEAN, NEW metric \in BOOLEAN, Benchmark(clears, metric),
             UNCHANGED <<stackOf, call>>, call.commit \in Commits
      PROVE  /\ cleared \subseteq cleared' /\ (clears => stack \in cleared')
             /\ \A c \in Commits : Warm(c) => Warm(c)'
             /\ metric => Warm(call.commit)'
  BY <1>3, BenchmarkKeepsWarm
<1>4. \A k \in Keys : k[1] \in Commits
  BY DEF Keys
<1>5. CASE RunWarmup
  <2>1. PICK clears \in BOOLEAN : Benchmark(clears, TRUE)
    BY <1>5 DEF RunWarmup
  <2>2. pc = "warmup" /\ UNCHANGED <<plan, stackOf, contract, call, samples>>
        /\ warmups' = [k \in Keys |-> IF k = <<call.commit, contract>> THEN warmups[k] + 1 ELSE warmups[k]]
    BY <1>5 DEF RunWarmup, WarmupNeeded
  <2>3. call.commit \in Commits /\ samples = << >>
    BY <2>2 DEF Typed, RoomForASample
  <2>4. Warm(call.commit)' /\ \A c \in Commits : Warm(c) => Warm(c)'
    BY <1>3, <2>1, <2>2, <2>3
  <2>5. call.commit' = call.commit
    BY <2>2
  <2>6. ASSUME NEW k \in Keys, warmups'[k] > 0 PROVE Warm(k[1])'
    <3>1. CASE k = <<call.commit, contract>>
      BY <2>4, <2>5, <3>1
    <3>2. CASE k # <<call.commit, contract>>
      BY <1>4, <2>2, <2>4, <2>6, <3>2 DEF KernelsStay
    <3> QED BY <3>1, <3>2
  <2> QED BY <2>2, <2>3, <2>6 DEF KernelsStay, ColdOnlyWhenCleared
<1>6. CASE WarmupFailed \/ MissSample
  <2>1. PICK clears \in BOOLEAN : Benchmark(clears, FALSE)
    BY <1>6 DEF WarmupFailed, MissSample
  <2>2. pc # "idle" /\ UNCHANGED <<plan, stackOf, call, samples, warmups>>
    BY <1>6 DEF WarmupFailed, MissSample, WarmupNeeded
  <2>3. cleared \subseteq cleared' /\ \A c \in Commits : Warm(c) => Warm(c)'
    BY <1>3, <2>1, <2>2 DEF Typed
  <2>4. KernelsStay'
    BY <1>4, <2>2, <2>3 DEF KernelsStay
  <2>5. ColdOnlyWhenCleared'
    BY <2>2, <2>3 DEF ColdOnlyWhenCleared, stack
  <2> QED BY <2>4, <2>5
<1>7. CASE TakeSample
  <2>1. PICK clears \in BOOLEAN, settled \in BOOLEAN :
           /\ Benchmark(clears, TRUE)
           /\ samples' = Append(samples, [cold |-> clears \/ call.commit \notin cache[stack], settled |-> settled])
    BY <1>7 DEF TakeSample
  <2>2. pc = "sample" /\ UNCHANGED <<plan, stackOf, contract, call, warmups>>
    BY <1>7 DEF TakeSample
  <2>3. call.commit \in Commits
    BY <2>2 DEF Typed
  <2>4. cleared \subseteq cleared' /\ (clears => stack \in cleared') /\ \A c \in Commits : Warm(c) => Warm(c)'
    BY <1>3, <2>1, <2>2, <2>3
  <2>5. KernelsStay'
    BY <1>4, <2>2, <2>4 DEF KernelsStay
  <2>6. ASSUME plan.warmup = 1, call.commit \notin cache[stack] PROVE stack \in cleared
    <3>1. ThisKey \in Keys /\ warmups[ThisKey] > 0 /\ ThisKey[1] = call.commit
      BY <1>0, <2>2, <2>3, <2>6 DEF LedgerIsEarned, Typed, Keys, ThisKey
    <3> QED BY <2>6, <3>1 DEF KernelsStay, Warm, stack
  <2>7. ASSUME plan.warmup = 1, NEW i \in 1 .. Len(samples'), samples'[i].cold PROVE stack \in cleared'
    <3>1. CASE i \in 1 .. Len(samples)
      <4>1. samples'[i] = samples[i]
        BY <1>0, <2>1, <3>1
      <4> QED BY <2>4, <2>7, <3>1, <4>1 DEF ColdOnlyWhenCleared
    <3>2. CASE i = Len(samples) + 1
      <4>1. samples'[i] = [cold |-> clears \/ call.commit \notin cache[stack], settled |-> settled]
        BY <1>0, <2>1, <3>2
      <4> QED BY <2>4, <2>6, <2>7, <4>1
    <3>3. Len(samples') = Len(samples) + 1 /\ Len(samples) \in Nat
      BY <1>0, <2>1
    <3> QED BY <3>1, <3>2, <3>3
  <2>8. stack' = stack
    BY <2>2 DEF stack
  <2>9. ColdOnlyWhenCleared'
    BY <2>2, <2>7, <2>8 DEF ColdOnlyWhenCleared
  <2> QED BY <2>5, <2>9
<1>8. CASE Crash
  <2>1. PICK clears \in BOOLEAN : Benchmark(clears, FALSE) /\ (pc = "idle" => ~clears)
    BY <1>8 DEF Crash
  <2>2. UNCHANGED <<stackOf, call, warmups>> /\ samples' = << >>
    BY <1>8 DEF Crash
  <2>3. \A c \in Commits : Warm(c) => Warm(c)'
    <3>1. CASE pc = "idle"
      <4>1. UNCHANGED <<cache, cleared>>
        BY <2>1, <3>1 DEF Benchmark, Typed
      <4> QED BY <2>2, <4>1 DEF Warm
    <3>2. CASE pc # "idle"
      BY <1>3, <2>1, <2>2, <3>2 DEF Typed
    <3> QED BY <3>1, <3>2
  <2>4. KernelsStay'
    BY <1>4, <2>2, <2>3 DEF KernelsStay
  <2> QED BY <2>2, <2>4 DEF ColdOnlyWhenCleared
<1>9. CASE UNCHANGED vars
  BY <1>9 DEF vars, disk, history, KernelsStay, ColdOnlyWhenCleared, Warm, stack
<1> QED BY <1>1, <1>2, <1>5, <1>6, <1>7, <1>8, <1>9 DEF Next, Measure

-----------------------------------------------------------------------------
(* Every behaviour.                                                        *)

\* The invariant holds in every reachable state.
LEMMA Invariance == Spec => []IInv
<1>1. IInv /\ [Next]_vars => IInv'
  BY TypedStep, EnoughSamplesStep, LedgerStep, WarmStep DEF IInv
<1> QED BY <1>1, Initially, PTL DEF Spec

\* measure_commit and run_local_candidate: a number is over enough samples, and over every
\* allowed one when they never settled.
THEOREM EnoughSamples == Spec => []NumbersRestOnEnoughSamples
<1>1. IInv => NumbersRestOnEnoughSamples
  BY DEF IInv
<1> QED BY <1>1, Invariance, PTL

\* run_warmups: sampling a commit follows a successful warmup of it under this contract.
THEOREM WarmedUpFirst == Spec => []SamplesFollowAWarmup
<1>1. IInv => SamplesFollowAWarmup
  BY DEF IInv, LedgerIsEarned, SamplesFollowAWarmup, ThisKey
<1> QED BY <1>1, Invariance, PTL

\* run_warmups with its ledger: a warmup is repeated at most once per death of the process.
THEOREM WarmedUpOnce == Spec => []WarmupOncePerCommit
<1>1. IInv => WarmupOncePerCommit
  BY DEF IInv, EntryLostByDeath, WarmupOncePerCommit
<1> QED BY <1>1, Invariance, PTL

\* runner._clear_caches: a sample compiles its kernels only on a stack that a retry cleared.
THEOREM ColdIsCleared == Spec => []ColdOnlyWhenCleared
<1>1. IInv => ColdOnlyWhenCleared
  BY DEF IInv
<1> QED BY <1>1, Invariance, PTL

================================================================================
