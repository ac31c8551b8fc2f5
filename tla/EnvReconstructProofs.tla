------------------------- MODULE EnvReconstructProofs -------------------------
(***************************************************************************)
(* Rebuilding a commit, and the output of the commands that do it.         *)
(*                                                                         *)
(* For any number of attempts, forced or not, each killed anywhere: an     *)
(* environment that would be reused is whole, and a kill costs no later    *)
(* attempt its measurement.  For every capacity of the pipe and every      *)
(* output, with or without a limit: the files hold what was written, in    *)
(* order and once, as far as it was read, and a call that its limit cut    *)
(* off logged whole lines.                                                 *)
(***************************************************************************)
EXTENDS EnvReconstruct, CommandPipe, SequenceTheorems, TLAPS

Environments ==
  [python : BOOLEAN, packages : {"none", "partial", "complete"}, sealed : BOOLEAN]

Outcomes == {"none", "ready", "killed", "source_checkout_failed", "runtime_incompatible",
             "install_failed", "dependency_unavailable"}

\* Every variable of an attempt has its type.
EnvTypeOK ==
  /\ tree \in {"absent", "damaged", "dirty", "ready"}
  /\ lock \in {"none", "known", "other"}
  /\ env \in Environments
  /\ sound \in BOOLEAN /\ force \in BOOLEAN
  /\ recloned \in BOOLEAN /\ reused \in BOOLEAN
  /\ pc \in Steps \cup {"idle"}
  /\ outcome \in Outcomes
  /\ fault \in BOOLEAN /\ torn \in BOOLEAN
  /\ attempts \in 0 .. MaxAttempts

\* A clone that was reset in this attempt is neither broken nor locked, unless the removal
\* or the cloning itself failed.
FreshClone ==
  recloned /\ ~fault /\ pc \in {"source", "clone", "locks", "checkout"} =>
    tree # "damaged" /\ lock = "none"

\* An environment is rebuilt only where none could be reused, from nothing, and stays
\* unsealed until its packages are complete.
Rebuilding ==
  /\ pc = "remove" => ~Reusable
  /\ pc = "venv" => env = NoEnv
  /\ pc = "install" => ~env.sealed
  /\ pc \in {"remove", "venv", "install", "seal"} => ~reused
  /\ pc \in {"support", "verify", "seal"} /\ ~reused => env.packages = "complete"
  /\ pc \in {"support", "verify"} /\ reused => Reusable

EnvInv ==
  /\ EnvTypeOK
  /\ FreshClone
  /\ Rebuilding
  /\ SealedMeansWhole
  /\ KillsCostOnlyTheirAttempt

-----------------------------------------------------------------------------
(* An attempt.                                                             *)

\* The invariant holds before the first attempt.
LEMMA EnvInit == Init => EnvInv
<1> SUFFICES ASSUME Init PROVE EnvInv
  OBVIOUS
<1>1. attempts \in 0 .. MaxAttempts
  BY ForcesAssumption DEF Init
<1>2. EnvTypeOK
  BY <1>1 DEF Init, EnvTypeOK, NoEnv, Environments, Outcomes, Steps
<1> QED BY <1>2 DEF Init, EnvInv, FreshClone, Rebuilding, SealedMeansWhole,
                    KillsCostOnlyTheirAttempt, Reusable, NoEnv

\* Beginning an attempt, and dying in one.
LEMMA AttemptStep == ASSUME EnvInv, StartAttempt \/ Kill PROVE EnvInv'
<1> USE DEF EnvInv, EnvTypeOK, FreshClone, Rebuilding, SealedMeansWhole,
            KillsCostOnlyTheirAttempt, Reusable, NoEnv, Environments, Outcomes, Steps
<1>1. CASE StartAttempt
  <2>1. force' \in BOOLEAN
    BY <1>1, ForcesAssumption DEF StartAttempt
  <2>2. attempts' \in 0 .. MaxAttempts
    BY <1>1, ForcesAssumption DEF StartAttempt
  <2> QED BY <1>1, <2>1, <2>2 DEF StartAttempt
<1>2. CASE Kill
  <2>1. tree' \in {"absent", "damaged", "dirty", "ready"} /\ lock' \in {"none", "known", "other"}
    <3>1. CASE pc = "clone"
      BY <1>2, <3>1 DEF Kill
    <3>2. CASE pc = "checkout"
      BY <1>2, <3>2 DEF Kill
    <3>3. CASE pc = "reset"
      BY <1>2, <3>3 DEF Kill
    <3>4. CASE pc \notin {"clone", "checkout", "reset"}
      BY <1>2, <3>4 DEF Kill
    <3> QED BY <3>1, <3>2, <3>3, <3>4
  <2>2. /\ pc # "idle" /\ pc' = "idle" /\ outcome' = "killed"
        /\ torn' = (torn \/ (pc = "discard" /\ force /\ env # NoEnv))
        /\ UNCHANGED <<recloned, env, sound, force, reused, fault, attempts>>
    BY <1>2 DEF Kill
  <2> QED BY <2>1, <2>2
<1> QED BY <1>1, <1>2

\* Preparing the clone: it touches nothing of the environment.
LEMMA PrepareSourceStep == ASSUME EnvInv, PrepareSource PROVE EnvInv'
<1> USE DEF EnvInv, EnvTypeOK, FreshClone, Rebuilding, SealedMeansWhole,
            KillsCostOnlyTheirAttempt, Reusable, NoEnv, Outcomes, Steps, KeepEnv, source
<1>1. CASE EnterClone
  BY <1>1 DEF EnterClone
<1>2. CASE Clone
  BY <1>2 DEF Clone
<1>3. CASE ClearStaleGitLocks
  BY <1>3 DEF ClearStaleGitLocks
<1>4. CASE Checkout
  BY <1>4 DEF Checkout
<1>5. CASE GitFails
  BY <1>5 DEF GitFails
<1>6. CASE ResetSourceDir
  BY <1>6 DEF ResetSourceDir
<1> QED BY <1>1, <1>2, <1>3, <1>4, <1>5, <1>6 DEF PrepareSource

\* What is left of an environment that cannot be reused cannot be reused either.
LEMMA RemainsSmaller ==
  ASSUME NEW e \in Environments, NEW r \in Remains(e)
  PROVE  /\ r \in Environments
         /\ r.sealed /\ r.python => e.sealed /\ e.python
BY DEF Remains, Environments

\* Rebuilding or reusing the environment.
LEMMA EnsureEnvStep == ASSUME EnvInv, EnsureEnv PROVE EnvInv'
<1> USE DEF EnvInv, EnvTypeOK, FreshClone, Rebuilding, SealedMeansWhole,
            KillsCostOnlyTheirAttempt, Reusable, NoEnv, Outcomes, Steps, KeepSource, source
<1>1. CASE EraseSome
  <2>1. env' \in Environments /\ (env'.sealed /\ env'.python => env.sealed /\ env.python)
    BY <1>1, RemainsSmaller DEF EraseSome
  <2> QED BY <1>1, <2>1 DEF EraseSome
<1>2. CASE Discarded
  BY <1>2 DEF Discarded
<1>3. CASE CheckReuse
  BY <1>3 DEF CheckReuse, Environments
<1>4. CASE Removed
  BY <1>4 DEF Removed
<1>5. CASE CreateVenv
  <2>1. env = NoEnv /\ env' = [env EXCEPT !.python = TRUE]
    BY <1>5 DEF CreateVenv
  <2>2. env' = [python |-> TRUE, packages |-> "none", sealed |-> FALSE]
    BY <2>1
  <2>3. env' \in Environments /\ ~env'.sealed
    BY <2>2 DEF Environments
  <2> QED BY <1>5, <2>3 DEF CreateVenv
<1>6. CASE InstallBegins \/ InstallEnds
  BY <1>6 DEF InstallBegins, InstallEnds, Environments
<1>7. CASE InstallSupport
  BY <1>7 DEF InstallSupport
<1>8. CASE VerifyImports
  BY <1>8 DEF VerifyImports
<1>9. CASE VerifyFails
  BY <1>9 DEF VerifyFails
<1>10. CASE Seal
  BY <1>10 DEF Seal, Environments
<1>11. CASE InstallFails
  BY <1>11 DEF InstallFails
<1> QED BY <1>1, <1>2, <1>3, <1>4, <1>5, <1>6, <1>7, <1>8, <1>9, <1>10, <1>11 DEF EnsureEnv

\* The invariant holds in every state.
LEMMA EnvInvariance == Spec => []EnvInv
<1>1. EnvInv /\ [Next]_vars => EnvInv'
  <2> SUFFICES ASSUME EnvInv, [Next]_vars PROVE EnvInv'
    OBVIOUS
  <2>1. CASE UNCHANGED vars
    BY <2>1 DEF vars, source, EnvInv, EnvTypeOK, FreshClone, Rebuilding, SealedMeansWhole,
                KillsCostOnlyTheirAttempt, Reusable
  <2> QED BY <2>1, AttemptStep, PrepareSourceStep, EnsureEnvStep DEF Next, Step
<1> QED BY <1>1, EnvInit, PTL DEF Spec

\* An environment with its built.ok marker and an interpreter is whole, whatever was killed
\* and however often, unless its forced removal was interrupted (env_setup.ensure_env).
THEOREM ReusedIsWhole == Spec => []SealedMeansWhole
<1>1. EnvInv => SealedMeansWhole
  BY DEF EnvInv
<1> QED BY <1>1, EnvInvariance, PTL

\* On a sound commit an attempt in which nothing external fails ends ready, whatever the
\* attempts before it left behind (_prepare_source_clone, ensure_env).
THEOREM KillsAreLocal == Spec => []KillsCostOnlyTheirAttempt
<1>1. EnvInv => KillsCostOnlyTheirAttempt
  BY DEF EnvInv
<1> QED BY <1>1, EnvInvariance, PTL

-----------------------------------------------------------------------------
(* The output of a command: module CommandPipe.                            *)

\* A log that ends where a line ends.
AtALine(s) == s # <<>> => s[Len(s)] = "end"

PipeTypeOK ==
  /\ written \in Seq(Pieces) /\ pipe \in Seq(Pieces) /\ buffer \in Seq(Pieces) /\ log \in Seq(Pieces)
  /\ reader \in {"deciding", "selecting", "reading", "polling", "draining", "done"}

\* The output is in three places, one behind the other.
Kept == written = log \o (buffer \o pipe)

\* A call that ended by itself has read everything and heard from every writer.
AllRead == reader = "done" /\ ~timedOut => pipe = <<>> /\ buffer = <<>>

\* The rest of the output is taken for a line only when the child has ended; then the loop ends.
LinesAreWhole ==
  \/ AtALine(log)
  \/ child # "running" /\ reader \in {"polling", "draining", "done"} /\ ~timedOut

Cut == timedOut => reader = "done"

PipeInv == PipeTypeOK /\ Kept /\ AllRead /\ LinesAreWhole /\ Cut

\* What is left of a sequence behind a position and what stands before it make the sequence.
LEMMA SplitAt == ASSUME NEW S, NEW s \in Seq(S), NEW i \in 1..Len(s)
                 PROVE  /\ SubSeq(s, 1, i) \in Seq(S) /\ SubSeq(s, i + 1, Len(s)) \in Seq(S)
                        /\ s = SubSeq(s, 1, i) \o SubSeq(s, i + 1, Len(s))
                        /\ SubSeq(s, 1, i) # <<>>
                        /\ SubSeq(s, 1, i)[Len(SubSeq(s, 1, i))] = s[i]
<1> DEFINE a == SubSeq(s, 1, i)
           b == SubSeq(s, i + 1, Len(s))
<1>0. Len(s) \in Nat /\ i \in Nat /\ \A k \in 1..Len(s) : s[k] \in S
  BY LenProperties, ElementOfSeq
<1>1. /\ a \in Seq(S) /\ Len(a) = i
      /\ \A k \in 1..i : a[k] = s[k]
  BY <1>0, SubSeqProperties, i \in Int, 1 \in Int
<1>2. /\ b \in Seq(S) /\ Len(b) = Len(s) - i
      /\ \A k \in 1..(Len(s) - i) : b[k] = s[i + k]
  BY <1>0, SubSeqProperties, i + 1 \in Int, Len(s) \in Int
<1> HIDE DEF a, b
<1>c. /\ a \o b \in Seq(S) /\ Len(a \o b) = Len(a) + Len(b)
      /\ \A k \in 1..(Len(a) + Len(b)) : (a \o b)[k] = IF k <= Len(a) THEN a[k] ELSE b[k - Len(a)]
  BY <1>1, <1>2, ConcatProperties
<1>l. Len(a) = i /\ Len(a) + Len(b) = Len(s)
  BY <1>0, <1>1, <1>2
<1>3. /\ a \o b \in Seq(S) /\ Len(a \o b) = Len(s)
      /\ \A k \in 1..Len(s) : (a \o b)[k] = IF k <= i THEN a[k] ELSE b[k - i]
  BY <1>c, <1>l
<1>4. \A k \in 1..Len(s) : (a \o b)[k] = s[k]
  BY <1>0, <1>1, <1>2, <1>3
<1>5. s = a \o b
  BY <1>3, <1>4, SeqEqual
<1>6. a # <<>> /\ a[Len(a)] = s[i]
  BY <1>0, <1>1, EmptySeq
<1> QED BY <1>1, <1>2, <1>5, <1>6, Zenon DEF a, b

\* A log that a line was appended to ends where a line ends.
LEMMA EndsLikeItsTail == ASSUME NEW S, NEW s \in Seq(S), NEW t \in Seq(S), t # <<>>
                         PROVE  (s \o t)[Len(s \o t)] = t[Len(t)]
<1>1. Len(s) \in Nat /\ Len(t) \in Nat /\ Len(t) # 0
  BY LenProperties, EmptySeq
<1>2. Len(s \o t) = Len(s) + Len(t) /\ (s \o t)[Len(s) + Len(t)] = t[(Len(s) + Len(t)) - Len(s)]
  BY <1>1, ConcatProperties
<1> QED BY <1>1, <1>2

\* The three places hold what they held, in order, when a piece is written.
LEMMA WriteStep == ASSUME PipeInv, Write PROVE PipeInv'
<1>1. PICK p \in Pieces : written' = Append(written, p) /\ pipe' = Append(pipe, p)
  BY DEF Write
<1>2. /\ written \in Seq(Pieces) /\ pipe \in Seq(Pieces) /\ buffer \in Seq(Pieces) /\ log \in Seq(Pieces)
      /\ <<p>> \in Seq(Pieces) /\ buffer \o pipe \in Seq(Pieces)
  BY ConcatProperties DEF PipeInv, PipeTypeOK
<1>3. written' = written \o <<p>> /\ pipe' = pipe \o <<p>>
  BY <1>1, <1>2, AppendIsConcat
<1>4. (log \o (buffer \o pipe)) \o <<p>> = log \o ((buffer \o pipe) \o <<p>>)
  BY <1>2, ConcatAssociative
<1>5. (buffer \o pipe) \o <<p>> = buffer \o (pipe \o <<p>>)
  BY <1>2, ConcatAssociative
<1>6. written' = log \o (buffer \o pipe')
  BY <1>3, <1>4, <1>5 DEF PipeInv, Kept
<1>7. written' \in Seq(Pieces) /\ pipe' \in Seq(Pieces)
  BY <1>2, <1>3, ConcatProperties
<1> QED BY <1>6, <1>7 DEF PipeInv, PipeTypeOK, Kept, AllRead, LinesAreWhole, Cut, Write, processes, clock, AtALine

\* A line goes from the buffer to the log.
LEMMA TakeLineStep == ASSUME PipeInv, TakeLine PROVE PipeInv'
<1>1. PICK i \in LineEnds : /\ log' = log \o SubSeq(buffer, 1, i)
                            /\ buffer' = SubSeq(buffer, i + 1, Len(buffer))
  BY DEF TakeLine
<1>2. i \in 1..Len(buffer) /\ buffer[i] = "end"
  BY DEF LineEnds
<1> DEFINE a == SubSeq(buffer, 1, i)
           b == SubSeq(buffer, i + 1, Len(buffer))
<1>3. /\ log \in Seq(Pieces) /\ buffer \in Seq(Pieces) /\ pipe \in Seq(Pieces)
      /\ written = log \o (buffer \o pipe)
  BY DEF PipeInv, PipeTypeOK, Kept
<1>4. a \in Seq(Pieces) /\ b \in Seq(Pieces) /\ buffer = a \o b /\ a # <<>> /\ a[Len(a)] = "end"
  BY <1>2, <1>3, SplitAt
<1>5. log' = log \o a /\ buffer' = b
  BY <1>1
<1> HIDE DEF a, b
<1>6. log \o a \in Seq(Pieces)
  BY <1>3, <1>4, ConcatProperties
<1>7. log \o ((a \o b) \o pipe) = (log \o a) \o (b \o pipe)
  <2>1. a \in Seq(Pieces) /\ b \in Seq(Pieces) /\ log \in Seq(Pieces) /\ pipe \in Seq(Pieces)
    BY <1>3, <1>4
  <2> QED BY <2>1
<1>9. written = log' \o (buffer' \o pipe)
  BY <1>3, <1>4, <1>5, <1>7
<1>10. AtALine(log')
  BY <1>3, <1>4, <1>5, EndsLikeItsTail DEF AtALine
<1> QED BY <1>4, <1>5, <1>6, <1>9, <1>10 DEF PipeInv, PipeTypeOK, Kept, AllRead, LinesAreWhole, Cut, TakeLine, processes, clock

\* The pipe is emptied into the buffer.
LEMMA FillBufferStep == ASSUME PipeInv, FillBuffer PROVE PipeInv'
<1>1. buffer \in Seq(Pieces) /\ pipe \in Seq(Pieces)
  BY DEF PipeInv, PipeTypeOK
<1>2. buffer \o pipe \in Seq(Pieces)
  BY <1>1, ConcatProperties
<1>3. (buffer \o pipe) \o <<>> = buffer \o pipe
  BY <1>2, ConcatEmptySeq
<1> QED BY <1>2, <1>3 DEF PipeInv, PipeTypeOK, Kept, AllRead, LinesAreWhole, Cut, FillBuffer, processes, clock, AtALine

\* At the end of the output the buffer is emptied into the log.
LEMMA RestStep == ASSUME PipeInv, TakeRest \/ DrainEnds PROVE PipeInv'
<1>1. /\ pipe = <<>> /\ pipe' = <<>> /\ log' = log \o buffer /\ buffer' = <<>> /\ written' = written
      /\ timedOut' = timedOut /\ child' = child
  BY DEF TakeRest, DrainEnds, processes
<1>2. log \in Seq(Pieces) /\ buffer \in Seq(Pieces) /\ <<>> \in Seq(Pieces)
  BY DEF PipeInv, PipeTypeOK
<1>3. log \o buffer \in Seq(Pieces)
  BY <1>2, ConcatProperties
<1>4. log \o (buffer \o <<>>) = (log \o buffer) \o (<<>> \o <<>>)
  BY <1>2, <1>3, ConcatEmptySeq
<1>5. child # "running" /\ ~timedOut /\ reader' \in {"polling", "done"}
  BY DEF TakeRest, DrainEnds, HasWriter, PipeInv, Cut
<1> QED BY <1>1, <1>2, <1>3, <1>4, <1>5 DEF PipeInv, PipeTypeOK, Kept, AllRead, LinesAreWhole, Cut

\* The invariant holds from the start and through every step.
LEMMA PipeInvariance == PipeSpec => []PipeInv
<1>1. PipeInit => PipeInv
  <2>1. <<>> \in Seq(Pieces) /\ <<>> = <<>> \o (<<>> \o <<>>)
    BY EmptySeq, ConcatEmptySeq
  <2> QED BY <2>1 DEF PipeInit, PipeInv, PipeTypeOK, Kept, AllRead, LinesAreWhole, Cut, AtALine
<1>2. PipeInv /\ [PipeNext]_pipeVars => PipeInv'
  <2> SUFFICES ASSUME PipeInv, [PipeNext]_pipeVars PROVE PipeInv'
    OBVIOUS
  <2> USE DEF PipeInv, PipeTypeOK, Kept, AllRead, LinesAreWhole, Cut, AtALine, processes, clock
  <2>1. CASE ChildExits
    BY <2>1 DEF ChildExits
  <2>6. CASE HelperEnds
    BY <2>6 DEF HelperEnds
  <2>7. CASE TimePasses
    BY <2>7 DEF TimePasses
  <2>2. CASE CheckLimit
    BY <2>2 DEF CheckLimit
  <2>3. CASE Select
    BY <2>3 DEF Select
  <2>4. CASE Poll
    BY <2>4 DEF Poll
  <2>5. CASE UNCHANGED pipeVars
    BY <2>5 DEF pipeVars
  <2> QED BY <2>1, <2>2, <2>3, <2>4, <2>5, <2>6, <2>7, WriteStep, TakeLineStep, FillBufferStep, RestStep
          DEF PipeNext, RunCommand, Command
<1> QED BY <1>1, <1>2, PTL DEF PipeSpec

\* The files hold, in order and once, what the command wrote (_run_command, emit): all of it
\* unless the limit cut the call off, and then all but what was still in the buffer or the pipe.
THEOREM NothingIsLost == PipeSpec => []OutputIsKept
<1>1. PipeInv => OutputIsKept
  <2> SUFFICES ASSUME PipeInv PROVE OutputIsKept
    OBVIOUS
  <2>1. log \in Seq(Pieces) /\ buffer \in Seq(Pieces) /\ pipe \in Seq(Pieces)
    BY DEF PipeInv, PipeTypeOK
  <2>2. (log \o buffer) \o pipe = log \o (buffer \o pipe)
    BY <2>1, ConcatAssociative
  <2>3. (log \o <<>>) \o <<>> = log
    BY <2>1, ConcatEmptySeq
  <2> QED BY <2>2, <2>3 DEF PipeInv, Kept, AllRead, OutputIsKept
<1> QED BY <1>1, PipeInvariance, PTL

\* A call that its limit cut off has whole lines in its files.
THEOREM CutOffAtALine == PipeSpec => []CutAtALine
<1>1. PipeInv => CutAtALine
  BY DEF PipeInv, LinesAreWhole, Cut, CutAtALine, AtALine
<1> QED BY <1>1, PipeInvariance, PTL

=============================================================================
