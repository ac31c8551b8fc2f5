----------------------- MODULE AttemptProcessesProofs -----------------------
(***************************************************************************)
(* Type correctness of AttemptProcesses, that with docker-reconstruct a    *)
(* commit's clone and environment have one user at a time, that a command  *)
(* that was answered leaves nothing running, and whose measurement the     *)
(* engine reads, for every set of commits and modes and any number of      *)
(* commands and restarts.                                                  *)
(*                                                                         *)
(* One user (IInv): outside a container no process has a step left that    *)
(* touches the clone, and a container is created only when no other of its *)
(* commit is there.  The measurement (JInv): the container clears the      *)
(* directory before it benchmarks, has it to itself until it ends, and the *)
(* runner that waits for it is told only of its own.                       *)
(***************************************************************************)
EXTENDS AttemptProcesses, SequenceTheorems, FiniteSetTheorems, TLAPS

Codes == {"ok", "failed", "tooling"}
Procs(k) == [att : 1 .. k, place : Places, todo : Seq(Steps), code : Codes]
Answers == [note : Notes, by : 0 .. MaxAttempts]
AttemptRecords == [commit : Commits, dir : Dirs, answer : Answers]

\* The types, with the bounds that keep the directories in range.
IType ==
  /\ TypeOK
  /\ cur <= MaxAttempts
  /\ \A c \in Commits : slots[c] <= cur

\* The steps that do not touch the clone, and those that do not touch other containers.
LightSteps == Steps \ {"prepare", "bench"}
InnerSteps == Steps \ {"remove", "launch", "create"}

Isolated ==
  mode = "docker-reconstruct" =>
    /\ \A p \in procs :
         p.todo \in Seq(IF p.place = "container" THEN InnerSteps ELSE LightSteps)
    /\ \A p, q \in procs :
         p.place = "container" /\ q.place = "container" /\ SameName(p, q) => p = q

IInv == IType /\ Isolated

-----------------------------------------------------------------------------
(* Programs.                                                               *)

\* The programs are sequences of steps; with docker-reconstruct the host's touches no clone
\* and the container's no container.
LEMMA ProgramsTyped ==
  ASSUME TypeOK
  PROVE  /\ HostProgram \in Seq(Steps) /\ ContainerProgram \in Seq(Steps)
         /\ mode = "docker-reconstruct" =>
              HostProgram \in Seq(LightSteps) /\ ContainerProgram \in Seq(InnerSteps)
<1>1. mode \in {"docker-reconstruct", "docker-source", "local"}
  BY ModesAssumption DEF TypeOK
<1>2. RunnerProgram \in Seq(Steps)
  BY DEF RunnerProgram, Steps, ChildSteps
<1>3. CASE mode = "docker-reconstruct"
  <2>1. HostProgram = <<"verify", "clear", "remove", "launch", "wait">>
    BY <1>3 DEF HostProgram
  <2>2. HostProgram \in Seq(Steps) /\ HostProgram \in Seq(LightSteps)
    BY <2>1 DEF Steps, ChildSteps, LightSteps
  <2>3. RunnerProgram \in Seq(InnerSteps)
    BY DEF RunnerProgram, Steps, ChildSteps, InnerSteps
  <2> QED
    BY <1>2, <1>3, <2>2, <2>3 DEF ContainerProgram
<1>4. CASE mode = "docker-source"
  <2>1. HostProgram =
          <<"verify", "clear", "prepare", "remove", "launch", "wait", "env", "result">>
    BY <1>4 DEF HostProgram
  <2>2. HostProgram \in Seq(Steps)
    BY <2>1 DEF Steps, ChildSteps
  <2>3. ContainerProgram \in Seq(Steps)
    BY <1>4 DEF ContainerProgram, Steps, ChildSteps
  <2> QED
    BY <1>4, <2>2, <2>3
<1>5. CASE mode = "local"
  BY <1>2, <1>5 DEF HostProgram, ContainerProgram
<1> QED
  BY <1>1, <1>3, <1>4, <1>5

\* A process that starts is of the right type.
LEMMA ProcessTyped ==
  ASSUME TypeOK, NEW k \in Nat, NEW att \in 1 .. k, NEW place \in {"host", "container"}
  PROVE  Process(att, place) \in Procs(k)
BY ProgramsTyped DEF Process, Procs, Places, Codes

\* What is left after a step, and the one step of an orphan.
LEMMA StepDone ==
  ASSUME NEW S, NEW s \in Seq(S), s # << >>
  PROVE  Tail(s) \in Seq(S) /\ Head(s) \in S /\ <<Head(s)>> \in Seq(S)
<1>1. Tail(s) \in Seq(S) /\ Head(s) \in S
  BY HeadTailProperties
<1> QED
  BY <1>1

-----------------------------------------------------------------------------
(* How the processes may change.                                           *)

\* Steps of the processes leave the engine's own records alone.
LEMMA TypesKept ==
  ASSUME IType, UNCHANGED <<mode, limited, attempts, slots, restarts>>,
         procs' \subseteq Procs(cur),
         env' \in [Dirs -> {"none", "ok", "skip"}],
         result' \in [Dirs -> [by : 0 .. MaxAttempts, metric : BOOLEAN]],
         raw' \in [Dirs -> SUBSET (1 .. MaxAttempts)]
  PROVE  IType'
BY DEF IType, TypeOK, cur, Procs, Codes

Light(p) ==
  mode = "docker-reconstruct" => p.place # "container" /\ p.todo \in Seq(LightSteps)

\* Processes go, and such come as have nothing to do with the clone.
LEMMA OnlyLightOnesCome ==
  ASSUME IType, Isolated, mode' = mode,
         \A k \in 1 .. cur : attempts'[k].commit = attempts[k].commit,
         \A p \in procs' : p \in procs \/ Light(p)
  PROVE  Isolated'
<1> SUFFICES ASSUME mode = "docker-reconstruct"
             PROVE  /\ \A p \in procs' :
                         p.todo \in Seq(IF p.place = "container" THEN InnerSteps
                                                                ELSE LightSteps)
                    /\ \A p, q \in procs' :
                         /\ p.place = "container" /\ q.place = "container"
                         /\ attempts'[p.att].commit = attempts'[q.att].commit
                         => p = q
  BY DEF Isolated, SameName
<1>1. \A p \in procs' : p.place = "container" => p \in procs
  BY DEF Light
<1>2. \A p \in procs : p.att \in 1 .. cur
  BY DEF IType, TypeOK
<1> QED
  BY <1>1, <1>2 DEF Isolated, SameName, Light

\* A container goes on.
LEMMA ContainerGoesOn ==
  ASSUME Isolated, UNCHANGED <<mode, attempts>>, NEW p \in procs, NEW q,
         p.place = "container", q.place = "container", q.att = p.att,
         mode = "docker-reconstruct" => q.todo \in Seq(InnerSteps),
         procs' = (procs \ {p}) \cup {q}
  PROVE  Isolated'
BY DEF Isolated, SameName

\* A process that takes its next step, or exits, keeps types and isolation.
LEMMA BecomesKeeps ==
  ASSUME IInv, UNCHANGED <<mode, attempts>>, NEW p \in procs, p.todo # << >>,
         NEW rest \in {<< >>, Tail(p.todo)}, NEW code \in Codes,
         Becomes(p, rest, code)
  PROVE  procs' \subseteq Procs(cur) /\ Isolated'
<1> DEFINE q == [p EXCEPT !.todo = rest, !.code = code]
<1>1. p \in Procs(cur) /\ procs \subseteq Procs(cur)
  BY DEF IInv, IType, TypeOK, Procs, Codes
<1>2. \A S : p.todo \in Seq(S) => rest \in Seq(S)
  <2> SUFFICES ASSUME NEW S, p.todo \in Seq(S) PROVE rest \in Seq(S)
    OBVIOUS
  <2>1. CASE rest = << >>
    BY <2>1, EmptySeq
  <2>2. CASE rest = Tail(p.todo)
    BY <2>2, StepDone
  <2> QED
    BY <2>1, <2>2
<1>3. q \in Procs(cur) /\ q.place = p.place /\ q.att = p.att /\ q.todo = rest
  <2>1. rest \in Seq(Steps)
    BY <1>1, <1>2 DEF Procs
  <2> QED
    BY <1>1, <2>1 DEF Procs
<1>4. procs' \subseteq Procs(cur)
  BY <1>1, <1>3 DEF Becomes
<1>5. CASE p.place = "container"
  <2>1. procs' = (procs \ {p}) \cup {q}
    BY <1>5 DEF Becomes
  <2>2. mode = "docker-reconstruct" => q.todo \in Seq(InnerSteps)
    BY <1>2, <1>3, <1>5 DEF IInv, Isolated
  <2> HIDE DEF q
  <2>3. Isolated'
    BY <1>3, <1>5, <2>1, <2>2, ContainerGoesOn DEF IInv
  <2> QED
    BY <1>4, <2>3
<1>6. CASE p.place # "container"
  <2>1. mode = "docker-reconstruct" => rest \in Seq(LightSteps)
    BY <1>2, <1>6 DEF IInv, Isolated
  <2>2. Light(q)
    BY <1>3, <1>6, <2>1 DEF Light
  <2>3. \A r \in procs' : r \in procs \/ r = q
    BY DEF Becomes
  <2> HIDE DEF q
  <2>4. Isolated'
    BY <2>2, <2>3, OnlyLightOnesCome DEF IInv
  <2> QED
    BY <1>4, <2>4
<1> QED
  BY <1>5, <1>6

\* What survives a killed runner, and the runner that is told how its container ended.
LEMMA OrphanIsLight ==
  ASSUME IInv, NEW h \in Current, NEW o \in Orphan(h)
  PROVE  o \in Procs(cur) /\ Light(o)
<1>1. h \in procs /\ h.place = "host" /\ h \in Procs(cur)
  BY DEF Current, IInv, IType, TypeOK, Procs, Codes
<1>2. h.todo # << >> /\ o = [h EXCEPT !.place = "orphan", !.todo = <<Head(h.todo)>>]
  BY DEF Orphan
<1>3. <<Head(h.todo)>> \in Seq(Steps)
  BY <1>1, <1>2, StepDone DEF Procs
<1>4. mode = "docker-reconstruct" => <<Head(h.todo)>> \in Seq(LightSteps)
  <2>1. mode = "docker-reconstruct" => h.todo \in Seq(LightSteps)
    BY <1>1 DEF IInv, Isolated
  <2> QED
    BY <1>2, <2>1, StepDone
<1> QED
  BY <1>1, <1>2, <1>3, <1>4 DEF Procs, Places, Light

\* A runner that is told how its container ended goes on outside the clone.
LEMMA ToldIsLight ==
  ASSUME IInv, NEW a, NEW code \in Codes, NEW t \in Told(a, code)
  PROVE  t \in Procs(cur) /\ Light(t)
<1>1. PICK h \in Waiting(a) : t = [h EXCEPT !.todo = Tail(h.todo), !.code = code]
  BY DEF Told
<1>2. h \in procs /\ h.place = "host" /\ h \in Procs(cur) /\ h.todo # << >>
  BY DEF Waiting, At, Current, IInv, IType, TypeOK, Procs, Codes
<1>3. Tail(h.todo) \in Seq(Steps)
  BY <1>2, StepDone DEF Procs
<1>4. mode = "docker-reconstruct" => Tail(h.todo) \in Seq(LightSteps)
  <2>1. mode = "docker-reconstruct" => h.todo \in Seq(LightSteps)
    BY <1>2 DEF IInv, Isolated
  <2> QED
    BY <1>2, <2>1, StepDone
<1> QED
  BY <1>1, <1>2, <1>3, <1>4 DEF Procs, Light

-----------------------------------------------------------------------------
(* The actions of the engine.                                              *)

\* The invariant holds initially.
THEOREM InitEstablishes == Init => IInv
<1> SUFFICES ASSUME Init PROVE IInv
  OBVIOUS
<1>1. attempts \in Seq(AttemptRecords) /\ cur = 0
  BY EmptySeq DEF Init, cur
<1>2. TypeOK
  BY <1>1, BoundsAssumption DEF Init, TypeOK, AttemptRecords, Answers, NoResult
<1> QED
  BY <1>1, <1>2, BoundsAssumption DEF Init, IInv, IType, Isolated

\* A new command gets a directory in range, and its runner does not touch the clone.
LEMMA StartCommandPreserves ==
  ASSUME IInv, NEW c \in Commits, StartCommand(c)
  PROVE  IInv'
<1> DEFINE new == [commit |-> c, dir |-> <<c, slots[c] + 1>>, answer |-> Answer("none", 0)]
           runner == Process(cur + 1, "host")
<1>1. /\ attempts \in Seq(AttemptRecords) /\ cur \in Nat /\ cur < MaxAttempts
      /\ MaxAttempts \in Nat
      /\ slots[c] \in 0 .. cur /\ slots \in [Commits -> 0 .. MaxAttempts]
      /\ \A b \in Commits : slots[b] \in 0 .. cur
      /\ procs \subseteq Procs(cur)
  <2>1. cur \in Nat /\ cur < MaxAttempts /\ MaxAttempts \in Nat
    BY BoundsAssumption DEF IInv, IType, TypeOK, StartCommand, cur
  <2>2. attempts \in Seq(AttemptRecords) /\ procs \subseteq Procs(cur)
    BY DEF IInv, IType, TypeOK, AttemptRecords, Answers, Procs, Codes
  <2>3. slots \in [Commits -> 0 .. MaxAttempts] /\ \A b \in Commits : slots[b] <= cur
    BY DEF IInv, IType, TypeOK
  <2>4. \A b \in Commits : slots[b] \in 0 .. cur
    BY <2>1, <2>3
  <2> QED
    BY <2>1, <2>2, <2>3, <2>4
<1>2. new \in AttemptRecords
  BY <1>1 DEF AttemptRecords, Dirs, Answer, Answers, Notes
<1>3. /\ attempts' \in Seq(AttemptRecords) /\ cur' = cur + 1
      /\ \A k \in 1 .. cur : attempts'[k] = attempts[k]
  BY <1>1, <1>2, AppendProperties DEF StartCommand, cur
<1>4. procs' \subseteq Procs(cur')
  <2>1. runner \in Procs(cur + 1)
    BY <1>1, ProcessTyped DEF IInv, IType
  <2>2. Procs(cur) \subseteq Procs(cur + 1)
    BY <1>1 DEF Procs
  <2> QED
    BY <1>1, <1>3, <2>1, <2>2 DEF StartCommand
<1>5. slots' \in [Commits -> 0 .. MaxAttempts] /\ \A b \in Commits : slots'[b] <= cur'
  BY <1>1, <1>3 DEF StartCommand
<1>6. TypeOK'
  BY <1>3, <1>4, <1>5 DEF StartCommand, files, IInv, IType, TypeOK, AttemptRecords, Answers,
                          Procs, Codes
<1>7. Isolated'
  <2>1. Light(runner)
    BY ProgramsTyped DEF Light, Process, IInv, IType
  <2>2. /\ mode' = mode /\ \A k \in 1 .. cur : attempts'[k].commit = attempts[k].commit
        /\ \A p \in procs' : p \in procs \/ p = runner
    BY <1>3 DEF StartCommand
  <2> HIDE DEF runner
  <2> QED
    BY <2>1, <2>2, OnlyLightOnesCome DEF IInv
<1> QED
  BY <1>1, <1>3, <1>5, <1>6, <1>7 DEF IInv, IType

\* Answering a command changes neither the number of commands nor any commit.
LEMMA AnswerKeeps ==
  ASSUME TypeOK, cur >= 1, NEW a \in Answers, Answered(a)
  PROVE  /\ attempts' \in Seq(AttemptRecords) /\ cur' = cur
         /\ \A k \in 1 .. cur : attempts'[k].commit = attempts[k].commit
<1> DEFINE answered == [attempts[cur] EXCEPT !.answer = a]
<1>1. attempts \in Seq(AttemptRecords) /\ cur \in 1 .. Len(attempts)
  BY DEF TypeOK, AttemptRecords, Answers, cur
<1>2. attempts[cur] \in AttemptRecords
  BY <1>1, ElementOfSeq
<1>3. answered \in AttemptRecords /\ answered.commit = attempts[cur].commit
  BY <1>2 DEF AttemptRecords
<1>4. attempts' = [attempts EXCEPT ![cur] = answered]
  BY DEF Answered
<1> HIDE DEF answered
<1>5. attempts' \in Seq(AttemptRecords) /\ Len(attempts') = Len(attempts)
  BY <1>1, <1>3, <1>4, ExceptSeq
<1>6. \A k \in 1 .. Len(attempts) : attempts'[k].commit = attempts[k].commit
  BY <1>1, <1>3, <1>4
<1> QED
  BY <1>5, <1>6 DEF cur

\* The engine reads the answer of its command, or makes one up at the limit.
LEMMA CommandEnds ==
  ASSUME IInv, NEW h \in Current, NEW a \in Answers,
         Answered(a), NEW left \in SUBSET Orphan(h), procs' = (procs \ {h}) \cup left,
         UNCHANGED <<mode, limited, slots, files, restarts>>
  PROVE  IInv'
<1>1. cur >= 1 /\ cur \in Nat /\ procs \subseteq Procs(cur)
  BY DEF Current, IInv, IType, TypeOK, cur, Procs, Codes
<1>2. /\ attempts' \in Seq(AttemptRecords) /\ cur' = cur
      /\ \A k \in 1 .. cur : attempts'[k].commit = attempts[k].commit
  BY <1>1, AnswerKeeps DEF IInv, IType
<1>3. \A o \in left : o \in Procs(cur) /\ Light(o)
  BY OrphanIsLight
<1>4. TypeOK'
  BY <1>1, <1>2, <1>3 DEF IInv, IType, TypeOK, files, AttemptRecords, Answers, Procs, Codes
<1>5. Isolated'
  BY <1>2, <1>3, OnlyLightOnesCome DEF IInv
<1> QED
  BY <1>2, <1>4, <1>5 DEF IInv, IType

\* Every process works for a command, in that command's directory.
LEMMA DirTyped ==
  ASSUME TypeOK, NEW p \in procs
  PROVE  dirOf(p) \in Dirs /\ p.att \in 1 .. cur
<1>1. attempts \in Seq(AttemptRecords) /\ p.att \in 1 .. Len(attempts)
  BY DEF TypeOK, AttemptRecords, Answers, cur
<1>2. attempts[p.att] \in AttemptRecords
  BY <1>1, ElementOfSeq
<1> QED
  BY <1>1, <1>2 DEF dirOf, AttemptRecords, cur

\* The engine reading an answer, killing a runner, or being started again.
LEMMA EnginePreserves ==
  ASSUME IInv, ReadAnswer \/ KillAtLimit \/ RestartEngine
  PROVE  IInv'
<1>1. CASE ReadAnswer
  <2>1. PICK h \in Current : /\ Answered(NoteOf(dirOf(h), h.code)) /\ procs' = procs \ {h}
                             /\ UNCHANGED <<mode, limited, slots, files, restarts>>
    BY <1>1 DEF ReadAnswer
  <2>2. NoteOf(dirOf(h), h.code) \in Answers
    <3>1. dirOf(h) \in Dirs
      BY DirTyped DEF Current, IInv, IType
    <3>2. result[dirOf(h)].by \in 0 .. MaxAttempts
      BY <3>1 DEF IInv, IType, TypeOK
    <3> QED
      BY <3>2, BoundsAssumption DEF NoteOf, Answer, Answers, Notes
  <2>3. {} \in SUBSET Orphan(h) /\ procs' = (procs \ {h}) \cup {}
    BY <2>1
  <2> QED
    BY <2>1, <2>2, <2>3, CommandEnds
<1>2. CASE KillAtLimit
  <2>1. PICK h \in Current : /\ Answered(Answer("candidate_timeout", 0))
                             /\ procs' = (procs \ {h}) \cup Orphan(h)
                             /\ UNCHANGED <<mode, limited, slots, files, restarts>>
    BY <1>2 DEF KillAtLimit
  <2>2. Answer("candidate_timeout", 0) \in Answers
    BY BoundsAssumption DEF Answer, Answers, Notes
  <2> QED
    BY <2>1, <2>2, CommandEnds
<1>3. CASE RestartEngine
  <2>1. \A q \in procs' : q \in procs \/ \E h \in Current : q \in Orphan(h)
    BY <1>3 DEF RestartEngine
  <2>2. \A q \in procs' : q \in procs \/ (q \in Procs(cur) /\ Light(q))
    BY <2>1, OrphanIsLight
  <2>3. /\ UNCHANGED <<mode, limited, attempts, files>> /\ cur' = cur
        /\ slots' = [c \in Commits |-> 0]
        /\ restarts' = restarts + 1 /\ restarts < MaxRestarts
    BY <1>3 DEF RestartEngine, cur
  <2>4. procs' \subseteq Procs(cur)
    BY <2>2 DEF IInv, IType, TypeOK, Procs, Codes
  <2>5. cur \in Nat /\ restarts' \in 0 .. MaxRestarts
    BY <2>3, BoundsAssumption DEF IInv, IType, TypeOK, cur
  <2>6. slots' \in [Commits -> 0 .. MaxAttempts] /\ \A c \in Commits : slots'[c] <= cur
    BY <2>3, <2>5, BoundsAssumption
  <2>7. TypeOK'
    BY <2>3, <2>4, <2>5, <2>6 DEF IInv, IType, TypeOK, files, Procs, Codes
  <2>8. Isolated'
    BY <2>2, <2>3, OnlyLightOnesCome DEF IInv
  <2> QED
    BY <2>3, <2>6, <2>7, <2>8 DEF IInv, IType
<1> QED
  BY <1>1, <1>2, <1>3

-----------------------------------------------------------------------------
(* The steps of the processes.                                             *)

\* What is known of a process that takes a step.
LEMMA ActorFacts ==
  ASSUME IInv, NEW p \in procs, NEW step, Step(p, step)
  PROVE  /\ UNCHANGED <<mode, limited, attempts, slots, restarts>>
         /\ p.todo # << >> /\ Head(p.todo) = step
         /\ p \in Procs(cur) /\ p.code \in Codes
         /\ dirOf(p) \in Dirs /\ p.att \in 1 .. MaxAttempts
         /\ cur' = cur
<1>1. dirOf(p) \in Dirs /\ p.att \in 1 .. cur
  BY DirTyped DEF IInv, IType
<1>2. cur \in Nat /\ cur <= MaxAttempts /\ MaxAttempts \in Nat
  BY BoundsAssumption DEF IInv, IType, TypeOK, cur
<1> QED
  BY <1>1, <1>2 DEF Step, At, IInv, IType, TypeOK, Procs, Codes, cur

\* A step in which one process goes on, or exits, and writes into its directory.
LEMMA ProcessStep ==
  ASSUME IInv, NEW p \in procs, NEW step, Step(p, step),
         NEW rest \in {<< >>, Tail(p.todo)}, NEW code \in Codes, Becomes(p, rest, code),
         env' \in [Dirs -> {"none", "ok", "skip"}],
         result' \in [Dirs -> [by : 0 .. MaxAttempts, metric : BOOLEAN]],
         raw' \in [Dirs -> SUBSET (1 .. MaxAttempts)]
  PROVE  IInv'
<1>1. /\ UNCHANGED <<mode, limited, attempts, slots, restarts>> /\ p.todo # << >>
  BY ActorFacts
<1>2. procs' \subseteq Procs(cur) /\ Isolated'
  BY <1>1, BecomesKeeps
<1>3. IType'
  BY <1>1, <1>2, TypesKept DEF IInv
<1> QED
  BY <1>2, <1>3 DEF IInv

\* The types of the files.
LEMMA FilesTyped ==
  ASSUME IInv
  PROVE  /\ env \in [Dirs -> {"none", "ok", "skip"}]
         /\ result \in [Dirs -> [by : 0 .. MaxAttempts, metric : BOOLEAN]]
         /\ raw \in [Dirs -> SUBSET (1 .. MaxAttempts)]
BY DEF IInv, IType, TypeOK

\* One lemma per step of the processes follows.
LEMMA VerifyPreserves ==
  ASSUME IInv, NEW p \in procs, Verify(p)
  PROVE  IInv'
<1>1. Step(p, "verify") /\ UNCHANGED files /\ p.code \in Codes
  BY ActorFacts DEF Verify
<1>2. Becomes(p, Tail(p.todo), p.code) \/ Becomes(p, << >>, "failed")
  BY DEF Verify, Proceed, Exit
<1> QED
  BY <1>1, <1>2, FilesTyped, ProcessStep DEF files, Codes

\* Clearing the outputs of an earlier attempt.
LEMMA ClearPreserves ==
  ASSUME IInv, NEW p \in procs, Clear(p)
  PROVE  IInv'
<1>1. Step(p, "clear") /\ p.code \in Codes /\ dirOf(p) \in Dirs
  BY ActorFacts DEF Clear
<1>2. Becomes(p, Tail(p.todo), p.code)
  BY DEF Clear, Proceed
<1>3. env' \in [Dirs -> {"none", "ok", "skip"}]
  BY FilesTyped DEF Clear
<1>4. result' \in [Dirs -> [by : 0 .. MaxAttempts, metric : BOOLEAN]]
  <2>1. NoResult \in [by : 0 .. MaxAttempts, metric : BOOLEAN]
    BY BoundsAssumption DEF NoResult
  <2> QED
    BY <2>1, FilesTyped DEF Clear
<1>5. raw' \in [Dirs -> SUBSET (1 .. MaxAttempts)]
  BY FilesTyped DEF Clear
<1> QED
  BY <1>1, <1>2, <1>3, <1>4, <1>5, ProcessStep

\* Preparing the source and the environment, or recording a skip.
LEMMA PreparePreserves ==
  ASSUME IInv, NEW p \in procs, Prepare(p)
  PROVE  IInv'
<1>1. Step(p, "prepare") /\ p.code \in Codes /\ dirOf(p) \in Dirs
  BY ActorFacts DEF Prepare
<1>2. result' = result /\ raw' = raw /\ env' \in [Dirs -> {"none", "ok", "skip"}]
  BY FilesTyped DEF Prepare, WriteBisectEnv
<1>3. Becomes(p, Tail(p.todo), p.code) \/ Becomes(p, << >>, "ok")
  BY DEF Prepare, Proceed, Exit
<1> QED
  BY <1>1, <1>2, <1>3, FilesTyped, ProcessStep DEF Codes

\* The benchmark, and its record.
LEMMA BenchPreserves ==
  ASSUME IInv, NEW p \in procs, Bench(p)
  PROVE  IInv'
<1>1. Step(p, "bench") /\ dirOf(p) \in Dirs /\ p.att \in 1 .. MaxAttempts
  BY ActorFacts DEF Bench
<1>2. env' = env /\ result' = result /\ raw' \in [Dirs -> SUBSET (1 .. MaxAttempts)]
  BY <1>1, FilesTyped DEF Bench
<1>3. \E code \in {"ok", "failed", "tooling"} : Becomes(p, Tail(p.todo), code)
  BY DEF Bench
<1> QED
  BY <1>1, <1>2, <1>3, FilesTyped, ProcessStep DEF Codes

\* Writing the sidecar.
LEMMA RecordEnvPreserves ==
  ASSUME IInv, NEW p \in procs, RecordEnv(p)
  PROVE  IInv'
<1>1. Step(p, "env") /\ p.code \in Codes /\ dirOf(p) \in Dirs
  BY ActorFacts DEF RecordEnv
<1>2. result' = result /\ raw' = raw /\ env' \in [Dirs -> {"none", "ok", "skip"}]
  BY FilesTyped DEF RecordEnv, WriteBisectEnv
<1>3. Becomes(p, Tail(p.todo), p.code) \/ Becomes(p, << >>, "ok")
  BY DEF RecordEnv, Proceed, Exit
<1> QED
  BY <1>1, <1>2, <1>3, FilesTyped, ProcessStep DEF Codes

\* Building the result: its measurement is of a command so far.
LEMMA BuildResultPreserves ==
  ASSUME IInv, NEW p \in procs, BuildResult(p)
  PROVE  IInv'
<1>1. Step(p, "result") /\ dirOf(p) \in Dirs /\ p.att \in 1 .. MaxAttempts
  BY ActorFacts DEF BuildResult
<1>2. env' = env /\ raw' = raw
  BY DEF BuildResult
<1>3. result' \in [Dirs -> [by : 0 .. MaxAttempts, metric : BOOLEAN]]
  <2>1. \A a \in raw[dirOf(p)] : a \in 1 .. MaxAttempts
    BY <1>1, FilesTyped
  <2>2. \A a \in 1 .. MaxAttempts, m \in BOOLEAN :
          [by |-> a, metric |-> m] \in [by : 0 .. MaxAttempts, metric : BOOLEAN]
    OBVIOUS
  <2> QED
    BY <1>1, <2>1, <2>2, FilesTyped DEF BuildResult
<1>4. \E code \in {"ok", "failed"} : Becomes(p, << >>, code)
  BY DEF BuildResult, Exit
<1> QED
  BY <1>1, <1>2, <1>3, <1>4, FilesTyped, ProcessStep DEF Codes

\* A step in which processes go, and such come as have nothing to do with the clone.
LEMMA LightStep ==
  ASSUME IInv, UNCHANGED <<mode, limited, attempts, slots, restarts>>, UNCHANGED files,
         \A q \in procs' : q \in procs \/ (q \in Procs(cur) /\ Light(q))
  PROVE  IInv'
<1>1. procs' \subseteq Procs(cur)
  BY DEF IInv, IType, TypeOK, Procs, Codes
<1>2. IType'
  BY <1>1, FilesTyped, TypesKept DEF files, IInv
<1>3. Isolated'
  BY OnlyLightOnesCome DEF IInv
<1> QED
  BY <1>2, <1>3 DEF IInv

\* With docker-reconstruct none of these three steps is taken inside a container.
LEMMA OuterStepIsLight ==
  ASSUME IInv, NEW p \in procs, NEW step \in {"remove", "launch", "create"}, Step(p, step)
  PROVE  /\ mode = "docker-reconstruct" => p.place # "container"
         /\ [p EXCEPT !.todo = Tail(p.todo)] \in Procs(cur)
         /\ Light([p EXCEPT !.todo = Tail(p.todo)])
<1>1. /\ p \in Procs(cur) /\ p.todo # << >> /\ Head(p.todo) = step
  BY ActorFacts
<1>2. Tail(p.todo) \in Seq(Steps)
  BY <1>1, StepDone DEF Procs
<1>3. mode = "docker-reconstruct" => p.place # "container"
  <2> SUFFICES ASSUME mode = "docker-reconstruct", p.place = "container" PROVE FALSE
    OBVIOUS
  <2>1. p.todo \in Seq(InnerSteps)
    BY DEF IInv, Isolated
  <2>2. Head(p.todo) \in InnerSteps
    BY <1>1, <2>1, StepDone
  <2> QED
    BY <1>1, <2>2 DEF InnerSteps
<1>4. mode = "docker-reconstruct" => Tail(p.todo) \in Seq(LightSteps)
  <2> SUFFICES ASSUME mode = "docker-reconstruct" PROVE Tail(p.todo) \in Seq(LightSteps)
    OBVIOUS
  <2>1. p.todo \in Seq(LightSteps)
    BY <1>3 DEF IInv, Isolated
  <2> QED
    BY <1>1, <2>1, StepDone
<1> QED
  BY <1>1, <1>2, <1>3, <1>4 DEF Procs, Light

\* docker rm -f, and the runners that notice.
LEMMA RemoveContainerPreserves ==
  ASSUME IInv, NEW p \in procs, RemoveContainer(p)
  PROVE  IInv'
<1> DEFINE rest == [p EXCEPT !.todo = Tail(p.todo)]
<1>1. Step(p, "remove") /\ UNCHANGED files
  BY DEF RemoveContainer
<1>2. rest \in Procs(cur) /\ Light(rest)
  BY <1>1, OuterStepIsLight
<1>3. \A q \in procs' : q \in procs \/ q = rest \/ \E a \in Nat : q \in Told(a, "failed")
  <2>1. \A q \in procs : q.att \in Nat
    BY DEF IInv, IType, TypeOK
  <2> QED
    BY <2>1 DEF RemoveContainer
<1>4. \A a \in Nat : \A q \in Told(a, "failed") : q \in Procs(cur) /\ Light(q)
  BY ToldIsLight DEF Codes
<1> HIDE DEF rest
<1>5. \A q \in procs' : q \in procs \/ (q \in Procs(cur) /\ Light(q))
  BY <1>2, <1>3, <1>4
<1> QED
  BY <1>1, <1>5, LightStep, ActorFacts

\* Starting the docker client.
LEMMA LaunchPreserves ==
  ASSUME IInv, NEW p \in procs, Launch(p)
  PROVE  IInv'
<1> DEFINE rest == [p EXCEPT !.todo = Tail(p.todo)]
           client == [att |-> p.att, place |-> "client", todo |-> <<"create">>, code |-> "ok"]
<1>1. Step(p, "launch") /\ UNCHANGED files
  BY DEF Launch
<1>2. rest \in Procs(cur) /\ Light(rest)
  BY <1>1, OuterStepIsLight
<1>3. client \in Procs(cur) /\ Light(client)
  <2>1. p \in Procs(cur)
    BY <1>1, ActorFacts
  <2>2. <<"create">> \in Seq(Steps) /\ <<"create">> \in Seq(LightSteps)
    BY DEF Steps, LightSteps, ChildSteps
  <2> QED
    BY <2>1, <2>2 DEF Procs, Places, Codes, Light
<1>4. \A q \in procs' : q \in procs \/ q = rest \/ q = client
  BY DEF Launch
<1> HIDE DEF rest, client
<1>5. \A q \in procs' : q \in procs \/ (q \in Procs(cur) /\ Light(q))
  BY <1>2, <1>3, <1>4
<1> QED
  BY <1>1, <1>5, LightStep, ActorFacts

\* The only step that adds a container: its name must be free.
LEMMA CreateContainerPreserves ==
  ASSUME IInv, NEW p \in procs, CreateContainer(p)
  PROVE  IInv'
<1>1. Step(p, "create") /\ UNCHANGED files
  BY DEF CreateContainer
<1>2. /\ UNCHANGED <<mode, limited, attempts, slots, restarts>>
      /\ procs \subseteq Procs(cur) /\ p.att \in 1 .. cur /\ cur \in Nat
  BY <1>1, ActorFacts DEF IInv, IType, TypeOK, Procs, Codes, cur
<1>3. CASE /\ \A q \in procs : q.place = "container" => ~SameName(p, q)
           /\ procs' = (procs \ {p}) \cup {Process(p.att, "container")}
  <2> DEFINE new == Process(p.att, "container")
  <2>1. new.att = p.att /\ new.place = "container"
    BY DEF Process
  <2>2. new \in Procs(cur)
    BY <1>2, ProcessTyped DEF IInv, IType
  <2>3. mode = "docker-reconstruct" => new.todo \in Seq(InnerSteps)
    BY ProgramsTyped DEF Process, IInv, IType
  <2> HIDE DEF new
  <2>4. procs' \subseteq Procs(cur)
    BY <1>2, <1>3, <2>2 DEF new
  <2>5. Isolated'
    <3> SUFFICES ASSUME mode = "docker-reconstruct"
                 PROVE  /\ \A q \in procs' :
                             q.todo \in Seq(IF q.place = "container" THEN InnerSteps
                                                                    ELSE LightSteps)
                        /\ \A q, r \in procs' :
                             /\ q.place = "container" /\ r.place = "container"
                             /\ SameName(q, r)
                             => q = r
      BY <1>2 DEF Isolated, SameName
    <3>1. \A q \in procs' : q \in procs \/ q = new
      BY <1>3 DEF new
    <3>2. \A q \in procs : q.place = "container" => ~SameName(new, q) /\ ~SameName(q, new)
      BY <1>3, <2>1 DEF SameName
    <3> QED
      BY <2>1, <2>3, <3>1, <3>2 DEF IInv, Isolated
  <2>6. IType'
    BY <1>1, <1>2, <2>4, FilesTyped, TypesKept DEF files, IInv
  <2> QED
    BY <2>5, <2>6 DEF IInv
<1>4. CASE procs' = (procs \ ({p} \cup Waiting(p.att))) \cup Told(p.att, "failed")
  <2>1. \A q \in procs' : q \in procs \/ q \in Told(p.att, "failed")
    BY <1>4
  <2>2. \A q \in procs' : q \in procs \/ (q \in Procs(cur) /\ Light(q))
    BY <2>1, ToldIsLight DEF Codes
  <2> QED
    BY <1>1, <1>2, <2>2, LightStep
<1> QED
  BY <1>3, <1>4 DEF CreateContainer

\* A container ends.
LEMMA ContainerExitsPreserves ==
  ASSUME IInv, NEW p \in procs, ContainerExits(p)
  PROVE  IInv'
<1>1. UNCHANGED <<mode, limited, attempts, slots, restarts>> /\ UNCHANGED files
  BY DEF ContainerExits
<1>2. p.code \in Codes
  BY DEF IInv, IType, TypeOK, Codes
<1>3. \A q \in procs' : q \in procs \/ q \in Told(p.att, p.code)
  BY DEF ContainerExits, ExitReported
<1>4. \A q \in procs' : q \in procs \/ (q \in Procs(cur) /\ Light(q))
  BY <1>2, <1>3, ToldIsLight
<1> QED
  BY <1>1, <1>4, LightStep

-----------------------------------------------------------------------------
(* The theorems.                                                           *)

\* Every step preserves the invariant.
THEOREM StepPreserves == IInv /\ [Next]_vars => IInv'
<1> SUFFICES ASSUME IInv, [Next]_vars PROVE IInv'
  OBVIOUS
<1>1. ASSUME NEW c \in Commits, StartCommand(c) PROVE IInv'
  BY <1>1, StartCommandPreserves
<1>2. CASE ReadAnswer \/ KillAtLimit \/ RestartEngine
  BY <1>2, EnginePreserves
<1>3. ASSUME NEW p \in procs, Verify(p) \/ Clear(p) \/ Prepare(p) \/ Bench(p)
      PROVE  IInv'
  BY <1>3, VerifyPreserves, ClearPreserves, PreparePreserves, BenchPreserves
<1>4. ASSUME NEW p \in procs,
             RemoveContainer(p) \/ Launch(p) \/ CreateContainer(p) \/ ContainerExits(p)
      PROVE  IInv'
  BY <1>4, RemoveContainerPreserves, LaunchPreserves, CreateContainerPreserves,
     ContainerExitsPreserves
<1>5. ASSUME NEW p \in procs, RecordEnv(p) \/ BuildResult(p)
      PROVE  IInv'
  BY <1>5, RecordEnvPreserves, BuildResultPreserves
<1>6. CASE UNCHANGED vars
  BY <1>6 DEF vars, files, IInv, IType, TypeOK, Isolated, SameName, cur
<1> QED
  BY <1>1, <1>2, <1>3, <1>4, <1>5, <1>6 DEF Next

\* The invariant holds in every state.
THEOREM Invariance == Spec => []IInv
  BY InitEstablishes, StepPreserves, PTL DEF Spec

\* Every variable keeps its type, and no commit is given a directory out of range.
THEOREM TypeCorrectness == Spec => []TypeOK
<1>1. IInv => TypeOK
  BY DEF IInv, IType
<1> QED
  BY <1>1, Invariance, PTL

\* With docker-reconstruct never two processes work on the clone and the environment of
\* a commit, however many commands at it were killed and engines restarted.
THEOREM CloneIsExclusive == Spec => []CloneHasOneUser
<1>1. ASSUME IInv, mode = "docker-reconstruct", NEW c \in Commits
      PROVE  Cardinality(WorksOn(c)) <= 1
  <2>1. \A p \in WorksOn(c) : p \in procs /\ p.place = "container"
    <3> SUFFICES ASSUME NEW p \in WorksOn(c), p.place # "container" PROVE FALSE
      BY DEF WorksOn
    <3>1. p \in procs /\ p.todo # << >> /\ Head(p.todo) \in {"prepare", "bench"}
      BY DEF WorksOn, At
    <3>2. p.todo \in Seq(LightSteps)
      BY <1>1, <3>1 DEF IInv, Isolated
    <3>3. Head(p.todo) \in LightSteps
      BY <3>1, <3>2, StepDone
    <3> QED
      BY <3>1, <3>3 DEF LightSteps
  <2>2. \A p, q \in WorksOn(c) : p = q
    BY <1>1, <2>1 DEF IInv, Isolated, SameName, WorksOn
  <2>3. CASE WorksOn(c) = {}
    BY <2>3, FS_EmptySet
  <2>4. CASE WorksOn(c) # {}
    <3>1. PICK p : WorksOn(c) = {p}
      BY <2>2, <2>4
    <3> QED
      BY <3>1, FS_Singleton
  <2> QED
    BY <2>3, <2>4
<1>2. IInv => CloneHasOneUser
  BY <1>1 DEF CloneHasOneUser
<1> QED
  BY <1>2, Invariance, PTL

-----------------------------------------------------------------------------
(* What a command leaves running, and whose measurement it reads.          *)

Helpers == {"client", "container"}
RunnerSteps == {"verify", "clear", "prepare", "bench", "env", "result"}
OuterSteps == {"verify", "clear", "remove", "launch", "wait", "create"}

\* Step x is not the last one of a program, and step y comes next.
Followed(s, x, y) == \A i \in 1 .. Len(s) : s[i] = x => i < Len(s) /\ s[i + 1] = y

\* What each kind of process still has to do; with docker-reconstruct no process outside a
\* container has a step that benchmarks.
Shape(p) ==
  /\ p.place = "container" =>
       p.todo \in Seq(RunnerSteps) /\ Followed(p.todo, "verify", "clear")
  /\ p.place = "client" => p.todo = <<"create">>
  /\ p.place = "orphan" => \E s \in ChildSteps : p.todo = <<s>>
  /\ p.place = "host" =>
       p.todo \in Seq(Steps \ {"create"}) /\ Followed(p.todo, "launch", "wait")
  /\ mode = "docker-reconstruct" /\ p.place # "container" => p.todo \in Seq(OuterSteps)
  /\ mode = "docker-reconstruct" /\ p.place = "host" /\ p.todo # << >> =>
       p.todo[Len(p.todo)] = "wait"

Shapes == \A p \in procs : Shape(p)

\* The runner of the command under way: there is one at most, its command is not answered,
\* and whatever else works for that command is the client or the container it waits for.
Supervised ==
  /\ \A h \in Current : h.att = cur /\ attempts[cur].answer.note = "none"
  /\ \A h, k \in Current : h = k
  /\ \A p, q \in procs : p.att = q.att /\ p.place \in Helpers /\ q.place \in Helpers => p = q
  /\ \A h \in Current, q \in procs :
       q.att = h.att /\ q # h => At(h, "wait") /\ q.place \in Helpers

\* A container that exists was served before every client that still waits.
Served == \A p, q \in procs : p.place = "container" /\ q.place = "client" => p.att <= q.att

\* The records in a directory are of commands that were given this directory.
Provenance ==
  /\ \A k \in 1 .. cur : attempts[k].dir[1] = attempts[k].commit
  /\ \A d \in Dirs :
       /\ \A b \in raw[d] : b \in 1 .. cur /\ attempts[b].dir = d
       /\ result[d].metric => result[d].by \in 1 .. cur /\ attempts[result[d].by].dir = d

\* The directory of attempt a holds no measurement but its own.
OnlyOf(a) ==
  LET d == attempts[a].dir IN raw[d] \subseteq {a} /\ (result[d].metric => result[d].by = a)

NotCleared(p) ==
  \/ p.todo # << >> /\ Head(p.todo) \in {"verify", "clear"}
  \/ p.todo = << >> /\ p.code = "failed"

\* With docker-reconstruct a directory that its container has cleared holds nothing of
\* others, and so it stays until the command is answered.
OwnFiles ==
  mode = "docker-reconstruct" =>
    /\ \A p \in procs : p.place = "container" => NotCleared(p) \/ OnlyOf(p.att)
    /\ \A h \in Current : h.todo = << >> /\ h.code = "ok" =>
         /\ OnlyOf(h.att)
         /\ \A q \in procs : q.place # "client" /\ (q.place = "container" => ~SameName(q, h))

JInv ==
  /\ Shapes /\ Supervised /\ Served /\ Provenance /\ OwnFiles
  /\ AnswersLeaveNothing /\ MetricIsItsOwn

\* What remains of a program after its first step.
LEMMA RestOfProgram ==
  ASSUME NEW S, NEW s \in Seq(S), s # << >>
  PROVE  /\ \A x, y : Followed(s, x, y) =>
              /\ Followed(Tail(s), x, y)
              /\ Head(s) = x => Tail(s) # << >> /\ Head(Tail(s)) = y
         /\ Tail(s) # << >> => Tail(s)[Len(Tail(s))] = s[Len(s)]
         /\ Tail(s) = << >> => Head(s) = s[Len(s)]
<1>1. /\ Len(s) \in Nat \ {0} /\ Head(s) = s[1]
      /\ Tail(s) \in Seq(S) /\ Len(Tail(s)) = Len(s) - 1
      /\ \A i \in 1 .. Len(Tail(s)) : Tail(s)[i] = s[i + 1]
  BY HeadTailProperties
<1>2. Tail(s) = << >> <=> Len(s) = 1
  BY <1>1
<1>3. ASSUME NEW x, NEW y, Followed(s, x, y) PROVE Followed(Tail(s), x, y)
  <2> SUFFICES ASSUME NEW i \in 1 .. Len(Tail(s)), Tail(s)[i] = x
               PROVE  i < Len(Tail(s)) /\ Tail(s)[i + 1] = y
    BY DEF Followed
  <2>1. i + 1 \in 1 .. Len(s) /\ s[i + 1] = x
    BY <1>1
  <2>2. i + 1 < Len(s) /\ s[i + 1 + 1] = y
    BY <1>3, <2>1 DEF Followed
  <2> QED BY <1>1, <2>2
<1>4. ASSUME NEW x, NEW y, Followed(s, x, y), Head(s) = x
      PROVE  Tail(s) # << >> /\ Head(Tail(s)) = y
  <2>1. 1 < Len(s) /\ s[1 + 1] = y
    BY <1>1, <1>4 DEF Followed
  <2>2. Tail(s) # << >>
    BY <1>2, <2>1
  <2> QED BY <1>1, <2>1, <2>2, HeadTailProperties
<1> QED BY <1>1, <1>2, <1>3, <1>4

\* A process after a step of its own.
LEMMA Successor ==
  ASSUME NEW k, NEW p \in Procs(k), NEW rest, NEW code
  PROVE  LET q == [p EXCEPT !.todo = rest, !.code = code]
             r == [p EXCEPT !.todo = rest]
         IN /\ q.att = p.att /\ q.place = p.place /\ q.todo = rest /\ q.code = code
            /\ r.att = p.att /\ r.place = p.place /\ r.todo = rest /\ r.code = p.code
BY DEF Procs

\* A program stays in shape when its first step is done.
LEMMA ShapeKept ==
  ASSUME NEW p, Shape(p), NEW q, q.place = p.place, q.place \in {"host", "container"},
         p.todo # << >>, q.todo \in {<< >>, Tail(p.todo)}
  PROVE  Shape(q)
<1>1. ASSUME NEW S, p.todo \in Seq(S) PROVE q.todo \in Seq(S)
  BY <1>1, StepDone, EmptySeq
<1>2. ASSUME NEW S, p.todo \in Seq(S), NEW x, NEW y, Followed(p.todo, x, y)
      PROVE  Followed(q.todo, x, y)
  <2>1. CASE q.todo = << >>
    BY <2>1 DEF Followed
  <2>2. CASE q.todo = Tail(p.todo)
    BY <1>2, <2>2, RestOfProgram
  <2> QED BY <2>1, <2>2
<1>3. CASE p.place = "container"
  <2>1. p.todo \in Seq(RunnerSteps) /\ Followed(p.todo, "verify", "clear")
    BY <1>3 DEF Shape
  <2> QED BY <1>1, <1>2, <1>3, <2>1 DEF Shape
<1>4. CASE p.place = "host"
  <2>1. p.todo \in Seq(Steps \ {"create"}) /\ Followed(p.todo, "launch", "wait")
    BY <1>4 DEF Shape
  <2>2. mode = "docker-reconstruct" =>
          p.todo \in Seq(OuterSteps) /\ p.todo[Len(p.todo)] = "wait"
    BY <1>4 DEF Shape
  <2>3. q.todo # << >> => q.todo[Len(q.todo)] = p.todo[Len(p.todo)]
    BY <2>1, RestOfProgram
  <2> QED BY <1>1, <1>2, <1>4, <2>1, <2>2, <2>3 DEF Shape
<1> QED BY <1>3, <1>4

\* What a step of one process changes of the records: only in its own directory, where it
\* clears everything, or adds its own record or a result taken from a record.
Touches(p) ==
  /\ \A d \in Dirs : d # dirOf(p) => raw'[d] = raw[d] /\ result'[d] = result[d]
  /\ \/ /\ raw'[dirOf(p)] = {} /\ ~result'[dirOf(p)].metric
     \/ UNCHANGED <<raw, result>>
     \/ /\ Head(p.todo) \in {"bench", "result"}
        /\ raw'[dirOf(p)] \subseteq raw[dirOf(p)] \cup {p.att}
        /\ result'[dirOf(p)].metric =>
             result'[dirOf(p)] = result[dirOf(p)] \/ result'[dirOf(p)].by \in raw[dirOf(p)]

\* A process goes on: nothing changes in who works for which command.
LEMMA GoesOnSupervised ==
  ASSUME IInv, JInv, NEW p \in procs, p.todo # << >>, Head(p.todo) \in RunnerSteps,
         NEW rest \in {<< >>, Tail(p.todo)}, NEW code, Becomes(p, rest, code),
         UNCHANGED <<mode, attempts>>
  PROVE  Shapes' /\ Supervised' /\ Served' /\ AnswersLeaveNothing'
<1> DEFINE q == [p EXCEPT !.todo = rest, !.code = code]
<1>1. p \in Procs(cur) /\ p.place \in Places
  BY DEF IInv, IType, TypeOK, Procs, Codes
<1>2. q.att = p.att /\ q.place = p.place /\ q.todo = rest /\ q.code = code
  BY <1>1, Successor
<1>3. procs' = (procs \ {p}) \cup IF p.place = "orphan" THEN {} ELSE {q}
  BY DEF Becomes
<1> HIDE DEF q
<1>4. p.place # "client"
  <2>1. Head(<<"create">>) = "create"
    OBVIOUS
  <2> QED BY <2>1 DEF JInv, Shapes, Shape, RunnerSteps
<1>5. p.place \in {"host", "container", "orphan"}
  BY <1>1, <1>4 DEF Places
<1>6. Shape(p) /\ (p.place # "orphan" => Shape(q))
  <2>1. Shape(p)
    BY DEF JInv, Shapes
  <2> QED BY <1>2, <1>5, <2>1, ShapeKept
<1>7. Shapes'
  <2>1. \A r \in procs' : Shape(r)
    BY <1>3, <1>6 DEF JInv, Shapes
  <2> QED BY <2>1 DEF Shapes, Shape
<1>8. \A r \in procs' : (r \in procs /\ r # p) \/ (r = q /\ p.place # "orphan")
  BY <1>3
<1>9. ~At(p, "wait")
  BY DEF At, RunnerSteps
<1>10. Supervised'
  <2>1. cur' = cur
    BY DEF cur
  <2>2. \A h \in procs' : h.place = "host" =>
          /\ h.att = cur /\ attempts[cur].answer.note = "none"
          /\ \A k \in procs' : k.place = "host" => h = k
    BY <1>2, <1>8 DEF JInv, Supervised, Current
  <2>3. \A r, s \in procs' : r.att = s.att /\ r.place \in Helpers /\ s.place \in Helpers => r = s
    BY <1>2, <1>8 DEF JInv, Supervised
  <2>4. \A h, r \in procs' : h.place = "host" /\ r.att = h.att /\ r # h
          => At(h, "wait") /\ r.place \in Helpers
    <3> SUFFICES ASSUME NEW h \in procs', NEW r \in procs', h.place = "host", r.att = h.att,
                        r # h
                 PROVE  At(h, "wait") /\ r.place \in Helpers
      OBVIOUS
    <3>1. CASE h = q
      <4>1. p \in Current /\ r \in procs /\ r # p /\ r.att = p.att
        BY <1>2, <1>8, <3>1 DEF Current
      <4> QED BY <1>9, <4>1 DEF JInv, Supervised
    <3>2. CASE h # q /\ r = q
      <4>1. h \in Current /\ p.att = h.att /\ p # h
        BY <1>2, <1>8, <3>2 DEF Current
      <4> QED BY <1>2, <3>2, <4>1 DEF JInv, Supervised
    <3>3. CASE h # q /\ r # q
      BY <1>8, <3>3 DEF JInv, Supervised, Current
    <3> QED BY <3>1, <3>2, <3>3
  <2> QED BY <2>1, <2>2, <2>3, <2>4 DEF Supervised, Current, At
<1>11. Served'
  BY <1>2, <1>4, <1>8 DEF JInv, Served
<1>12. AnswersLeaveNothing'
  BY <1>2, <1>8 DEF JInv, AnswersLeaveNothing
<1> QED BY <1>7, <1>10, <1>11, <1>12

\* A process goes on: what it writes stays in its directory, and is its own.
LEMMA GoesOnRecords ==
  ASSUME IInv, JInv, NEW p \in procs, p.todo # << >>, Head(p.todo) \in RunnerSteps,
         NEW rest \in {<< >>, Tail(p.todo)}, NEW code, Becomes(p, rest, code),
         UNCHANGED <<mode, attempts>>, Touches(p),
         Head(p.todo) = "verify" => rest = Tail(p.todo) \/ code = "failed",
         Head(p.todo) = "clear" =>
           rest = Tail(p.todo) /\ raw'[dirOf(p)] = {} /\ ~result'[dirOf(p)].metric
  PROVE  Provenance' /\ OwnFiles' /\ MetricIsItsOwn'
<1> DEFINE q == [p EXCEPT !.todo = rest, !.code = code]
<1>1. p \in Procs(cur)
  BY DEF IInv, IType, TypeOK, Procs, Codes
<1>2. q.att = p.att /\ q.place = p.place /\ q.todo = rest /\ q.code = code
  BY <1>1, Successor
<1>3. \A r \in procs' : (r \in procs /\ r # p) \/ (r = q /\ p.place # "orphan")
  BY DEF Becomes
<1> HIDE DEF q
<1>4. /\ cur' = cur /\ \A r \in procs : r.att \in 1 .. cur /\ attempts[r.att].dir \in Dirs
      /\ dirOf(p) = attempts[p.att].dir
  BY DirTyped DEF cur, IInv, IType, dirOf
<1>5. Provenance'
  <2>1. \A d \in Dirs : \A b \in raw'[d] : b \in 1 .. cur /\ attempts[b].dir = d
    BY <1>4 DEF Touches, JInv, Provenance
  <2>2. \A d \in Dirs : result'[d].metric =>
          result'[d].by \in 1 .. cur /\ attempts[result'[d].by].dir = d
    BY <1>4 DEF Touches, JInv, Provenance
  <2> QED BY <1>4, <2>1, <2>2 DEF JInv, Provenance
<1>6. ASSUME NEW a, attempts[a].dir \in Dirs, attempts[a].dir # dirOf(p) \/ UNCHANGED <<raw, result>>,
             OnlyOf(a)
      PROVE  OnlyOf(a)'
  BY <1>6 DEF OnlyOf, Touches
<1>7. raw'[dirOf(p)] = {} /\ ~result'[dirOf(p)].metric =>
        \A a : attempts[a].dir = dirOf(p) => OnlyOf(a)'
  BY DEF OnlyOf
<1>8. ASSUME NEW r \in procs, attempts[r.att].dir = dirOf(p), r # p,
             mode = "docker-reconstruct", r.place = "container"
      PROVE  p.place # "container"
  <2>1. SameName(r, p)
    BY <1>4, <1>8 DEF SameName, JInv, Provenance
  <2> QED BY <1>8, <2>1 DEF IInv, Isolated
<1>9. mode = "docker-reconstruct" /\ p.place # "container" =>
        \/ raw'[dirOf(p)] = {} /\ ~result'[dirOf(p)].metric
        \/ UNCHANGED <<raw, result>>
  <2> SUFFICES ASSUME mode = "docker-reconstruct", p.place # "container"
               PROVE  Head(p.todo) \in OuterSteps
    BY DEF Touches, OuterSteps
  <2>1. p.todo \in Seq(OuterSteps)
    BY DEF JInv, Shapes, Shape
  <2> QED BY <2>1, StepDone
<1>10. ASSUME mode = "docker-reconstruct", NEW r \in procs', r.place = "container"
       PROVE  NotCleared(r) \/ OnlyOf(r.att)'
  <2>1. CASE r \in procs /\ r # p
    <3>1. NotCleared(r) \/ OnlyOf(r.att)
      BY <1>10, <2>1 DEF JInv, OwnFiles
    <3>2. attempts[r.att].dir \in Dirs
      BY <1>4, <2>1
    <3>3. CASE attempts[r.att].dir # dirOf(p)
      BY <1>6, <3>1, <3>2, <3>3
    <3>4. CASE attempts[r.att].dir = dirOf(p)
      <4>1. p.place # "container"
        BY <1>8, <1>10, <2>1, <3>4
      <4> QED BY <1>6, <1>7, <1>9, <1>10, <3>1, <3>2, <3>4, <4>1
    <3> QED BY <3>3, <3>4
  <2>2. CASE r = q
    <3>1. p.place = "container" /\ r.todo = rest /\ r.code = code /\ r.att = p.att
      BY <1>2, <1>10, <2>2
    <3>2. p.todo \in Seq(RunnerSteps) /\ Followed(p.todo, "verify", "clear")
      BY <3>1 DEF JInv, Shapes, Shape
    <3>3. CASE Head(p.todo) = "verify"
      <4>1. Tail(p.todo) # << >> /\ Head(Tail(p.todo)) = "clear"
        BY <3>2, <3>3, RestOfProgram
      <4> QED BY <3>1, <3>3, <4>1 DEF NotCleared
    <3>4. CASE Head(p.todo) = "clear"
      BY <1>4, <1>7, <3>1, <3>4
    <3>5. CASE Head(p.todo) \notin {"verify", "clear"}
      <4>1. OnlyOf(p.att)
        BY <1>10, <3>1, <3>5 DEF JInv, OwnFiles, NotCleared
      <4>2. OnlyOf(p.att)'
        BY <1>4, <4>1 DEF OnlyOf, Touches
      <4> QED BY <3>1, <4>2
    <3> QED BY <3>3, <3>4, <3>5
  <2> QED BY <1>3, <2>1, <2>2
<1>11. ASSUME mode = "docker-reconstruct", NEW h \in procs', h.place = "host", h.todo = << >>,
              h.code = "ok"
       PROVE  /\ OnlyOf(h.att)'
              /\ \A r \in procs' : r.place # "client" /\ (r.place = "container" => ~SameName(r, h))
  <2>1. h # q
    <3> SUFFICES ASSUME h = q PROVE FALSE
      OBVIOUS
    <3>1. p.place = "host" /\ rest = << >> /\ code = "ok"
      BY <1>2, <1>11
    <3>2. /\ p.todo \in Seq(OuterSteps) /\ p.todo[Len(p.todo)] = "wait"
      BY <1>11, <3>1 DEF JInv, Shapes, Shape
    <3>3. Head(p.todo) \in OuterSteps
      BY <3>2, StepDone
    <3>4. rest = Tail(p.todo)
      BY <3>1, <3>3 DEF OuterSteps, RunnerSteps
    <3>5. Head(p.todo) = "wait"
      BY <3>1, <3>2, <3>4, RestOfProgram
    <3> QED BY <3>5 DEF RunnerSteps
  <2>2. h \in Current /\ h \in procs /\ h # p
    BY <1>3, <1>11, <2>1 DEF Current
  <2>3. /\ OnlyOf(h.att)
        /\ \A r \in procs : r.place # "client" /\ (r.place = "container" => ~SameName(r, h))
    BY <1>11, <2>2 DEF JInv, OwnFiles
  <2>4. \A r \in procs' : r.place # "client" /\ (r.place = "container" => ~SameName(r, h))
    BY <1>2, <1>3, <2>3 DEF SameName
  <2>5. attempts[h.att].dir = dirOf(p) => p.place # "container"
    BY <1>4, <2>2, <2>3 DEF SameName, JInv, Provenance
  <2>6. attempts[h.att].dir \in Dirs
    BY <1>4, <2>2
  <2> QED BY <1>6, <1>7, <1>9, <1>11, <2>3, <2>4, <2>5, <2>6
<1>12. OwnFiles'
  BY <1>10, <1>11 DEF OwnFiles, Current, SameName, NotCleared
<1>13. MetricIsItsOwn'
  BY <1>4 DEF JInv, MetricIsItsOwn, Reused
<1> QED BY <1>5, <1>12, <1>13

\* The steps that a runner takes alone, on the host, in a container, or left behind.
LEMMA InnerStepKeeps ==
  ASSUME IInv, JInv, NEW p \in procs,
         Verify(p) \/ Clear(p) \/ Prepare(p) \/ Bench(p) \/ RecordEnv(p) \/ BuildResult(p)
  PROVE  JInv'
<1>1. p.todo # << >> /\ Head(p.todo) \in RunnerSteps /\ UNCHANGED <<mode, attempts>>
  BY DEF Verify, Clear, Prepare, Bench, RecordEnv, BuildResult, Step, At, RunnerSteps
<1>2. dirOf(p) \in Dirs
  BY DirTyped DEF IInv, IType
<1>3. PICK rest \in {<< >>, Tail(p.todo)}, code \in {p.code, "ok", "failed", "tooling"} :
        /\ Becomes(p, rest, code)
        /\ Head(p.todo) = "verify" => rest = Tail(p.todo) \/ code = "failed"
        /\ Head(p.todo) = "clear" => rest = Tail(p.todo)
  <2>1. CASE Verify(p)
    BY <2>1 DEF Verify, Proceed, Exit, Step, At
  <2>2. CASE Clear(p)
    BY <2>2 DEF Clear, Proceed, Step, At
  <2>3. CASE Prepare(p)
    BY <2>3 DEF Prepare, Proceed, Exit, Step, At
  <2>4. CASE Bench(p)
    BY <2>4 DEF Bench, Step, At
  <2>5. CASE RecordEnv(p)
    BY <2>5 DEF RecordEnv, Proceed, Exit, Step, At
  <2>6. CASE BuildResult(p)
    BY <2>6 DEF BuildResult, Exit, Step, At
  <2> QED BY <2>1, <2>2, <2>3, <2>4, <2>5, <2>6
<1>4. /\ Touches(p)
      /\ Head(p.todo) = "clear" => raw'[dirOf(p)] = {} /\ ~result'[dirOf(p)].metric
  <2>1. CASE Verify(p)
    BY <2>1 DEF Verify, Touches, files, Step, At
  <2>2. CASE Clear(p)
    <3>1. /\ raw' = [raw EXCEPT ![dirOf(p)] = {}]
          /\ result' = [result EXCEPT ![dirOf(p)] = NoResult]
      BY <2>2 DEF Clear, Cleared
    <3>2. raw'[dirOf(p)] = {} /\ result'[dirOf(p)] = NoResult
      BY <1>2, <3>1, FilesTyped
    <3>3. \A d \in Dirs : d # dirOf(p) => raw'[d] = raw[d] /\ result'[d] = result[d]
      BY <3>1, FilesTyped
    <3> QED BY <3>2, <3>3 DEF Touches, NoResult
  <2>3. CASE Prepare(p) \/ RecordEnv(p)
    BY <2>3 DEF Prepare, RecordEnv, Touches, Step, At
  <2>4. CASE Bench(p)
    BY <1>2, <2>4, FilesTyped DEF Bench, Touches, Step, At
  <2>5. CASE BuildResult(p)
    <3>1. Head(p.todo) = "result" /\ raw' = raw
      BY <2>5 DEF BuildResult, Step, At
    <3>2. \/ result' = result
          \/ \E a \in raw[dirOf(p)] \cup {p.att}, m \in BOOLEAN :
               /\ result' = [result EXCEPT ![dirOf(p)] = [by |-> a, metric |-> m]]
               /\ m => a \in raw[dirOf(p)]
      BY <2>5 DEF BuildResult
    <3>3. CASE result' = result
      BY <3>1, <3>3 DEF Touches
    <3>4. CASE result' # result
      <4>1. PICK a \in raw[dirOf(p)] \cup {p.att}, m \in BOOLEAN :
               /\ result' = [result EXCEPT ![dirOf(p)] = [by |-> a, metric |-> m]]
               /\ m => a \in raw[dirOf(p)]
        BY <3>2, <3>4
      <4>2. result'[dirOf(p)] = [by |-> a, metric |-> m]
        BY <1>2, <4>1, FilesTyped
      <4>3. \A d \in Dirs : d # dirOf(p) => result'[d] = result[d]
        BY <4>1, FilesTyped
      <4> QED BY <3>1, <4>1, <4>2, <4>3 DEF Touches
    <3> QED BY <3>3, <3>4
  <2> QED BY <2>1, <2>2, <2>3, <2>4, <2>5
<1>5. Shapes' /\ Supervised' /\ Served' /\ AnswersLeaveNothing'
  BY <1>1, <1>3, GoesOnSupervised
<1>6. Provenance' /\ OwnFiles' /\ MetricIsItsOwn'
  BY <1>1, <1>3, <1>4, GoesOnRecords
<1> QED BY <1>5, <1>6 DEF JInv

\* Clients and containers go, the runners that wait for them are told, and at most a runner
\* whose step was to remove them goes on.
LEMMA GoneKeeps ==
  ASSUME IInv, JInv, UNCHANGED <<mode, attempts, raw, result>>,
         NEW gone \in SUBSET {q \in procs : q.place \in Helpers}, NEW code,
         \/ code = "failed"
         \/ \E p \in gone : /\ gone = {p} /\ p.place = "container" /\ p.todo = << >>
                            /\ p.code = code,
         \A r \in procs' :
           \/ r \in procs /\ r \notin gone /\ \A q \in gone : r \notin Waiting(q.att)
           \/ \E q \in gone : r \in Told(q.att, code)
           \/ \E k \in Current : /\ k \notin procs' /\ At(k, "remove")
                                 /\ r = [k EXCEPT !.todo = Tail(k.todo)]
  PROVE  JInv'
<1> DEFINE told(h) == [h EXCEPT !.todo = Tail(h.todo), !.code = code]
           moved(h) == [h EXCEPT !.todo = Tail(h.todo)]
           Stays(r) == r \in procs /\ r \notin gone /\ \A q \in gone : r \notin Waiting(q.att)
           IsTold(r, h) == r = told(h) /\ At(h, "wait") /\ \E q \in gone : q.att = h.att
           Moves(r, h) == r = moved(h) /\ At(h, "remove") /\ h \notin procs'
<1>1. \A r \in procs' : Stays(r) \/ \E h \in Current : IsTold(r, h) \/ Moves(r, h)
  <2> SUFFICES ASSUME NEW r \in procs' PROVE Stays(r) \/ \E h \in Current : IsTold(r, h) \/ Moves(r, h)
    OBVIOUS
  <2>1. CASE \E q \in gone : r \in Told(q.att, code)
    <3>1. PICK q \in gone : r \in Told(q.att, code)
      BY <2>1
    <3>2. \E h \in Current : h.att = q.att /\ At(h, "wait")
              /\ r = [h EXCEPT !.todo = Tail(h.todo), !.code = code]
      BY <3>1 DEF Told, Waiting, Current
    <3> QED BY <3>2
  <2> QED BY <2>1
<1>2. /\ \A h \in Current : /\ h \in procs /\ h.place = "host" /\ h.att = cur
                            /\ attempts[cur].answer.note = "none"
      /\ \A h, k \in Current : h = k
      /\ \A h \in Current, q \in procs :
           q.att = h.att /\ q # h => At(h, "wait") /\ q.place \in Helpers
      /\ \A p, q \in procs : p.att = q.att /\ p.place \in Helpers /\ q.place \in Helpers => p = q
  BY DEF JInv, Supervised, Current
<1>3. \A h \in Current :
        /\ told(h).att = h.att /\ told(h).place = "host" /\ told(h).todo = Tail(h.todo)
        /\ told(h).code = code
        /\ moved(h).att = h.att /\ moved(h).place = "host" /\ moved(h).todo = Tail(h.todo)
        /\ moved(h).code = h.code
  <2>1. \A h \in Current : h \in Procs(cur) /\ h.place = "host"
    BY DEF Current, IInv, IType, TypeOK, Procs, Codes
  <2> QED BY <2>1, Successor
<1> HIDE DEF told, moved
<1>4. \A h \in Current : h.todo # << >> => Shape(told(h)) /\ Shape(moved(h))
  <2>1. \A h \in Current : Shape(h)
    BY <1>2 DEF JInv, Shapes
  <2> SUFFICES ASSUME NEW h \in Current, h.todo # << >> PROVE Shape(told(h)) /\ Shape(moved(h))
    OBVIOUS
  <2>2. h.place = "host" /\ Shape(h)
    BY <1>2, <2>1
  <2>3. Shape(told(h))
    BY <1>3, <2>2, ShapeKept
  <2>4. Shape(moved(h))
    BY <1>3, <2>2, ShapeKept
  <2> QED BY <2>3, <2>4
<1>5. Shapes'
  <2>1. \A r \in procs' : Shape(r)
    BY <1>1, <1>4 DEF JInv, Shapes, At
  <2> QED BY <2>1 DEF Shapes, Shape
<1>6. \A r \in procs' : r.place # "host" => Stays(r)
  BY <1>1, <1>3
<1>7. ASSUME NEW r \in procs', r.place = "host"
      PROVE  /\ r.att = cur /\ attempts[cur].answer.note = "none"
             /\ \E h \in Current : (r = h /\ Stays(r)) \/ IsTold(r, h) \/ Moves(r, h)
  BY <1>1, <1>2, <1>3, <1>7 DEF Current
<1>8. \A h \in Current : (\E q \in gone : q.att = h.att) /\ At(h, "wait") => ~Stays(h)
  BY DEF Waiting
<1>9. \A h \in Current : ~(At(h, "wait") /\ At(h, "remove"))
  BY DEF At
<1>10. ASSUME NEW r \in procs', r.place = "host", NEW s \in procs', s.place = "host"
       PROVE  r = s
  <2>1. PICK h \in Current : (r = h /\ Stays(r)) \/ IsTold(r, h) \/ Moves(r, h)
    BY <1>7, <1>10
  <2>2. (s = h /\ Stays(s)) \/ IsTold(s, h) \/ Moves(s, h)
    BY <1>2, <1>7, <1>10
  <2> QED BY <1>8, <1>9, <2>1, <2>2
<1>11. ASSUME NEW r \in procs', r.place = "host", NEW s \in procs', s.att = r.att, s # r
       PROVE  At(r, "wait") /\ s.place \in Helpers
  <2>1. s.place # "host" /\ Stays(s)
    BY <1>6, <1>10, <1>11
  <2>2. PICK h \in Current : (r = h /\ Stays(r)) \/ IsTold(r, h) \/ Moves(r, h)
    BY <1>7, <1>11
  <2>3. h.att = s.att /\ s # h
    BY <1>2, <1>3, <1>11, <2>1, <2>2
  <2>4. At(h, "wait") /\ s.place \in Helpers
    BY <1>2, <2>1, <2>3
  <2>5. ~IsTold(r, h)
    BY <1>2, <2>1, <2>3, <2>4
  <2> QED BY <1>9, <2>2, <2>4, <2>5
<1>12. Supervised'
  <2>1. cur' = cur
    BY DEF cur
  <2>2. \A p, q \in procs' : p.att = q.att /\ p.place \in Helpers /\ q.place \in Helpers => p = q
    BY <1>2, <1>6 DEF Helpers
  <2> HIDE DEF Stays, IsTold, Moves
  <2> QED BY <1>7, <1>10, <1>11, <2>1, <2>2 DEF Supervised, Current, At
<1>13. Served'
  BY <1>6 DEF JInv, Served
<1>14. AnswersLeaveNothing'
  <2>1. ASSUME NEW r \in procs'
        PROVE  attempts[r.att].answer.note \in {"none", "candidate_timeout"}
    <3>1. CASE r.place = "host"
      BY <1>7, <3>1
    <3>2. CASE r.place # "host"
      BY <1>6, <3>2 DEF JInv, AnswersLeaveNothing
    <3> QED BY <3>1, <3>2
  <2> QED BY <2>1 DEF AnswersLeaveNothing
<1>15. Provenance' /\ MetricIsItsOwn'
  <2>1. cur' = cur
    BY DEF cur
  <2> QED BY <2>1 DEF JInv, Provenance, MetricIsItsOwn, Reused
<1>16. \A a : OnlyOf(a)' <=> OnlyOf(a)
  BY DEF OnlyOf
<1>17. ASSUME mode = "docker-reconstruct", NEW r \in procs', r.place = "host", r.todo = << >>,
              r.code = "ok"
       PROVE  /\ OnlyOf(r.att)
              /\ \A q \in procs' : q.place # "client" /\ (q.place = "container" => ~SameName(q, r))
  <2>1. PICK h \in Current : (r = h /\ Stays(r)) \/ IsTold(r, h) \/ Moves(r, h)
    BY <1>7, <1>17
  <2>2. CASE r = h
    <3>1. /\ OnlyOf(r.att)
          /\ \A q \in procs : q.place # "client" /\ (q.place = "container" => ~SameName(q, r))
      BY <1>17, <2>2 DEF JInv, OwnFiles
    <3>2. \A q \in procs' : q.place \in Helpers => q \in procs
      BY <1>6 DEF Helpers
    <3> QED BY <3>1, <3>2 DEF Helpers
  <2>3. CASE Moves(r, h)
    <3>1. h.todo # << >> /\ Head(h.todo) = "remove" /\ Tail(h.todo) = << >>
      BY <1>3, <1>17, <2>3 DEF At
    <3>2. h.todo \in Seq(OuterSteps) /\ h.todo[Len(h.todo)] = "wait"
      BY <1>2, <1>17, <3>1 DEF JInv, Shapes, Shape
    <3> QED BY <3>1, <3>2, RestOfProgram
  <2>4. CASE IsTold(r, h)
    <3>1. code = "ok" /\ r.att = h.att
      BY <1>3, <1>17, <2>4
    <3>2. PICK p \in gone : gone = {p} /\ p.place = "container" /\ p.todo = << >> /\ p.code = "ok"
      BY <3>1
    <3>3. p.att = r.att /\ r.att = cur /\ p \in procs
      BY <1>2, <2>4, <3>1, <3>2
    <3>4. OnlyOf(r.att)
      BY <1>17, <3>2, <3>3 DEF JInv, OwnFiles, NotCleared
    <3>5. ASSUME NEW q \in procs' PROVE q.place # "client"
      <4> SUFFICES ASSUME q.place = "client" PROVE FALSE
        OBVIOUS
      <4>1. q \in procs /\ q # p
        BY <1>6, <3>2
      <4>2. p.att <= q.att
        BY <3>2, <3>3, <4>1 DEF JInv, Served
      <4>3. q.att \in 1 .. cur /\ cur \in Nat
        BY <4>1 DEF IInv, IType, TypeOK, cur
      <4>4. q.att = p.att
        BY <3>3, <4>2, <4>3
      <4> QED BY <1>2, <3>2, <3>3, <4>1, <4>4 DEF Helpers
    <3>6. ASSUME NEW q \in procs', q.place = "container" PROVE ~SameName(q, r)
      <4>1. q \in procs /\ q # p
        BY <1>6, <3>2, <3>6
      <4>2. ~SameName(q, p)
        BY <1>17, <3>2, <3>3, <3>6, <4>1 DEF IInv, Isolated
      <4> QED BY <3>3, <4>2 DEF SameName
    <3> QED BY <3>4, <3>5, <3>6
  <2> QED BY <2>1, <2>2, <2>3, <2>4
<1>18. OwnFiles'
  <2>1. \A p \in procs' : mode = "docker-reconstruct" /\ p.place = "container" =>
          NotCleared(p) \/ OnlyOf(p.att)
    BY <1>6 DEF JInv, OwnFiles
  <2> HIDE DEF Stays, IsTold, Moves
  <2> QED BY <1>16, <1>17, <2>1 DEF OwnFiles, Current, SameName, NotCleared
<1> QED BY <1>5, <1>12, <1>13, <1>14, <1>15, <1>18 DEF JInv

\* The removal of a container by its name.
LEMMA RemoveContainerKeeps ==
  ASSUME IInv, JInv, NEW p \in procs, RemoveContainer(p)
  PROVE  JInv'
<1> DEFINE gone == {q \in procs : q.place = "container" /\ SameName(p, q)}
<1>1. At(p, "remove") /\ UNCHANGED <<mode, attempts, raw, result>>
  BY DEF RemoveContainer, Step, files
<1>2. procs' = (procs \ ({p} \cup gone \cup UNION {Waiting(q.att) : q \in gone}))
                 \cup (UNION {Told(q.att, "failed") : q \in gone})
                 \cup IF p.place = "orphan" THEN {} ELSE {[p EXCEPT !.todo = Tail(p.todo)]}
  BY DEF RemoveContainer
<1>3. p.place \in {"host", "orphan"}
  <2>1. Head(<<"create">>) = "create"
    OBVIOUS
  <2>2. p.place # "client"
    BY <1>1, <2>1 DEF JInv, Shapes, Shape, At
  <2>3. p.place # "container"
    <3> SUFFICES ASSUME p.place = "container" PROVE FALSE
      OBVIOUS
    <3>1. p.todo \in Seq(RunnerSteps)
      BY DEF JInv, Shapes, Shape
    <3>2. Head(p.todo) \in RunnerSteps
      BY <1>1, <3>1, StepDone DEF At
    <3> QED BY <1>1, <3>2 DEF At, RunnerSteps
  <2>4. p.place \in Places
    BY DEF IInv, IType, TypeOK
  <2> QED BY <2>2, <2>3, <2>4 DEF Places
<1>4. p \notin procs'
  <2>1. p \notin UNION {Told(q.att, "failed") : q \in gone}
    <3> SUFFICES ASSUME NEW q \in gone, p \in Told(q.att, "failed") PROVE FALSE
      OBVIOUS
    <3>1. PICK h \in Waiting(q.att) : p = [h EXCEPT !.todo = Tail(h.todo), !.code = "failed"]
      BY DEF Told
    <3>2. h \in Current /\ At(h, "wait") /\ h \in Procs(cur)
      BY DEF Waiting, Current, IInv, IType, TypeOK, Procs, Codes
    <3>3. p.place = h.place
      BY <3>1, <3>2, Successor
    <3>4. p = h
      BY <3>2, <3>3 DEF JInv, Supervised, Current
    <3> QED BY <1>1, <3>2, <3>4 DEF At
  <2>2. p # [p EXCEPT !.todo = Tail(p.todo)]
    <3>1. p \in Procs(cur)
      BY DEF IInv, IType, TypeOK, Procs, Codes
    <3>2. [p EXCEPT !.todo = Tail(p.todo)].todo = Tail(p.todo)
      BY <3>1, Successor
    <3>3. Len(Tail(p.todo)) = Len(p.todo) - 1 /\ Len(p.todo) \in Nat
      BY <1>1, <3>1, HeadTailProperties DEF At, Procs
    <3>4. SUFFICES ASSUME p = [p EXCEPT !.todo = Tail(p.todo)] PROVE FALSE
      OBVIOUS
    <3>5. p.todo = Tail(p.todo)
      BY <3>2, <3>4
    <3>6. Len(p.todo) = Len(p.todo) - 1
      BY <3>3, <3>5
    <3> QED BY <3>3, <3>6
  <2> QED BY <1>2, <2>1, <2>2
<1>5. p.place # "orphan" => p \in Current
  BY <1>3 DEF Current
<1>6. gone \in SUBSET {q \in procs : q.place \in Helpers}
  BY DEF Helpers
<1> HIDE DEF gone
<1>7. \A r \in procs' :
        \/ r \in procs /\ r \notin gone /\ \A q \in gone : r \notin Waiting(q.att)
        \/ \E q \in gone : r \in Told(q.att, "failed")
        \/ \E k \in Current : /\ k \notin procs' /\ At(k, "remove")
                              /\ r = [k EXCEPT !.todo = Tail(k.todo)]
  BY <1>1, <1>2, <1>4, <1>5
<1> QED BY <1>1, <1>6, <1>7, GoneKeeps

\* Only a client creates a container, and its runner waits for it.
LEMMA CreatorIsClient ==
  ASSUME IInv, JInv, NEW p \in procs, At(p, "create")
  PROVE  p.place = "client" /\ p.att \in 1 .. cur /\ cur \in Nat
<1>1. p.place \in Places /\ p.att \in 1 .. cur /\ cur \in Nat
  BY DEF IInv, IType, TypeOK, cur
<1>2. \A S : p.todo \in Seq(S) => "create" \in S
  BY StepDone DEF At
<1>3. p.place # "container" /\ p.place # "host"
  BY <1>2 DEF JInv, Shapes, Shape, RunnerSteps
<1>4. p.place # "orphan"
  <2> SUFFICES ASSUME NEW s \in ChildSteps, p.todo = <<s>> PROVE FALSE
    BY DEF JInv, Shapes, Shape
  <2>1. Head(p.todo) = s
    OBVIOUS
  <2> QED BY <2>1 DEF At, ChildSteps
<1> QED BY <1>1, <1>3, <1>4 DEF Places

\* A container is created in the place of its client, or its runner is told.
LEMMA CreateContainerKeeps ==
  ASSUME IInv, JInv, NEW p \in procs, CreateContainer(p)
  PROVE  JInv'
<1>1. At(p, "create") /\ UNCHANGED <<mode, attempts, raw, result>>
      /\ \A q \in procs : q.place = "client" => p.att <= q.att
  BY DEF CreateContainer, Step, files
<1>2. p.place = "client" /\ p.att \in 1 .. cur /\ cur \in Nat
  BY <1>1, CreatorIsClient
<1>3. CASE procs' = (procs \ ({p} \cup Waiting(p.att))) \cup Told(p.att, "failed")
  <2>1. {p} \in SUBSET {q \in procs : q.place \in Helpers}
    BY <1>2 DEF Helpers
  <2>2. \A r \in procs' :
          \/ r \in procs /\ r \notin {p} /\ \A q \in {p} : r \notin Waiting(q.att)
          \/ \E q \in {p} : r \in Told(q.att, "failed")
    BY <1>3
  <2> QED BY <1>1, <2>1, <2>2, GoneKeeps
<1>4. CASE procs' = (procs \ {p}) \cup {Process(p.att, "container")}
  <2> DEFINE new == Process(p.att, "container")
  <2>1. new.att = p.att /\ new.place = "container" /\ new.todo = ContainerProgram
    BY DEF Process
  <2> HIDE DEF new
  <2>2. \A r \in procs' : r = new \/ (r \in procs /\ r # p)
    BY <1>4 DEF new
  <2>3. Shape(new) /\ (mode = "docker-reconstruct" => NotCleared(new))
    <3>1. ContainerProgram \in Seq(RunnerSteps) /\ Followed(ContainerProgram, "verify", "clear")
      <4>1. CASE mode = "docker-source"
        BY <4>1 DEF ContainerProgram, RunnerSteps, Followed
      <4>2. CASE mode # "docker-source"
        BY <4>2 DEF ContainerProgram, RunnerProgram, RunnerSteps, Followed
      <4> QED BY <4>1, <4>2
    <3>2. mode = "docker-reconstruct" =>
            ContainerProgram # << >> /\ Head(ContainerProgram) = "verify"
      BY DEF ContainerProgram, RunnerProgram
    <3> QED BY <2>1, <3>1, <3>2 DEF Shape, NotCleared
  <2>4. Shapes'
    <3>1. \A r \in procs' : Shape(r)
      BY <2>2, <2>3 DEF JInv, Shapes
    <3> QED BY <1>1, <3>1 DEF Shapes, Shape
  <2>5. cur' = cur
    BY <1>1 DEF cur
  <2>6. Supervised'
    <3>1. \A r \in procs' : r.place = "host" => r \in Current
      BY <2>1, <2>2 DEF Current
    <3>2. \A q, r \in procs' : q.att = r.att /\ q.place \in Helpers /\ r.place \in Helpers => q = r
      BY <1>2, <2>1, <2>2 DEF JInv, Supervised, Helpers
    <3>3. ASSUME NEW h \in procs', h.place = "host", NEW r \in procs', r.att = h.att, r # h
          PROVE  At(h, "wait") /\ r.place \in Helpers
      <4>1. h \in Current
        BY <3>1, <3>3
      <4>2. CASE r = new
        <5>1. p # h /\ p.att = h.att
          BY <1>2, <2>1, <3>3, <4>2
        <5> QED BY <2>1, <4>1, <4>2, <5>1 DEF JInv, Supervised, Helpers
      <4>3. CASE r # new
        BY <2>2, <3>3, <4>1, <4>3 DEF JInv, Supervised
      <4> QED BY <4>2, <4>3
    <3> QED BY <1>1, <2>5, <3>1, <3>2, <3>3 DEF JInv, Supervised, Current, At
  <2>7. Served'
    BY <1>1, <2>1, <2>2 DEF JInv, Served
  <2>8. AnswersLeaveNothing'
    BY <1>1, <2>1, <2>2 DEF JInv, AnswersLeaveNothing
  <2>9. Provenance' /\ MetricIsItsOwn'
    BY <1>1, <2>5 DEF JInv, Provenance, MetricIsItsOwn, Reused
  <2>10. OwnFiles'
    <3>1. \A a : OnlyOf(a)' <=> OnlyOf(a)
      BY <1>1 DEF OnlyOf
    <3>2. \A q \in procs' : mode = "docker-reconstruct" /\ q.place = "container" =>
            NotCleared(q) \/ OnlyOf(q.att)
      BY <2>2, <2>3 DEF JInv, OwnFiles
    <3>3. mode = "docker-reconstruct" => \A h \in procs' :
            ~(h.place = "host" /\ h.todo = << >> /\ h.code = "ok")
      BY <1>2, <2>1, <2>2 DEF JInv, OwnFiles, Current
    <3> QED BY <1>1, <3>1, <3>2, <3>3 DEF OwnFiles, Current, NotCleared
  <2> QED BY <2>4, <2>6, <2>7, <2>8, <2>9, <2>10 DEF JInv
<1> QED BY <1>3, <1>4 DEF CreateContainer

\* A container ends, and its runner is told how.
LEMMA ContainerExitsKeeps ==
  ASSUME IInv, JInv, NEW p \in procs, ContainerExits(p)
  PROVE  JInv'
<1>1. /\ p.place = "container" /\ p.todo = << >>
      /\ UNCHANGED <<mode, attempts, raw, result>>
      /\ procs' = (procs \ ({p} \cup Waiting(p.att))) \cup Told(p.att, p.code)
  BY DEF ContainerExits, ExitReported, files
<1>2. {p} \in SUBSET {q \in procs : q.place \in Helpers}
  BY <1>1 DEF Helpers
<1>3. \A r \in procs' :
        \/ r \in procs /\ r \notin {p} /\ \A q \in {p} : r \notin Waiting(q.att)
        \/ \E q \in {p} : r \in Told(q.att, p.code)
  BY <1>1
<1>4. \E q \in {p} : {p} = {q} /\ q.place = "container" /\ q.todo = << >> /\ q.code = p.code
  BY <1>1
<1> QED BY <1>1, <1>2, <1>3, <1>4, GoneKeeps

\* A runner starts its client and waits.
LEMMA LaunchKeeps ==
  ASSUME IInv, JInv, NEW p \in procs, Launch(p)
  PROVE  JInv'
<1> DEFINE rest == [p EXCEPT !.todo = Tail(p.todo)]
           client == [att |-> p.att, place |-> "client", todo |-> <<"create">>, code |-> "ok"]
<1>1. /\ At(p, "launch") /\ UNCHANGED <<mode, attempts, raw, result>>
      /\ procs' = (procs \ {p}) \cup {rest, client}
  BY DEF Launch, Step, files
<1>2. p \in Procs(cur) /\ p.place \in Places /\ cur \in Nat
  BY DEF IInv, IType, TypeOK, Procs, Codes, cur
<1>3. p.place = "host"
  <2>1. \A S : p.todo \in Seq(S) => "launch" \in S
    BY <1>1, StepDone DEF At
  <2>2. p.place # "container"
    BY <2>1 DEF JInv, Shapes, Shape, RunnerSteps
  <2>3. p.place # "client"
    <3>1. Head(<<"create">>) = "create"
      OBVIOUS
    <3> QED BY <1>1, <3>1 DEF JInv, Shapes, Shape, At
  <2>4. p.place # "orphan"
    <3> SUFFICES ASSUME NEW s \in ChildSteps, p.todo = <<s>> PROVE FALSE
      BY DEF JInv, Shapes, Shape
    <3>1. Head(p.todo) = s
      OBVIOUS
    <3> QED BY <1>1, <3>1 DEF At, ChildSteps
  <2> QED BY <1>2, <2>2, <2>3, <2>4 DEF Places
<1>4. rest.att = p.att /\ rest.place = "host" /\ rest.todo = Tail(p.todo) /\ rest.code = p.code
  BY <1>2, <1>3, Successor
<1>5. client.att = p.att /\ client.place = "client" /\ client.todo = <<"create">>
  OBVIOUS
<1> HIDE DEF rest, client
<1>6. \A r \in procs' : r = rest \/ r = client \/ (r \in procs /\ r # p)
  BY <1>1
<1>7. p \in Current /\ p.att = cur /\ attempts[cur].answer.note = "none"
      /\ (\A h \in procs : h.place = "host" => h = p) /\ cur' = cur
  BY <1>1, <1>3 DEF JInv, Supervised, Current, cur
<1>8. \A q \in procs : q.att = p.att => q = p
  BY <1>1, <1>7 DEF JInv, Supervised, At
<1>9. Shapes'
  <2>1. Shape(p)
    BY DEF JInv, Shapes
  <2>2. Shape(rest)
    BY <1>1, <1>3, <1>4, <2>1, ShapeKept DEF At
  <2>3. Shape(client)
    <3>1. <<"create">> \in Seq(OuterSteps)
      BY DEF OuterSteps
    <3> QED BY <1>5, <3>1 DEF Shape
  <2>4. \A r \in procs' : Shape(r)
    BY <1>6, <2>2, <2>3 DEF JInv, Shapes
  <2> QED BY <1>1, <2>4 DEF Shapes, Shape
<1>10. At(rest, "wait")
  <2>1. Followed(p.todo, "launch", "wait") /\ p.todo \in Seq(Steps)
    BY <1>2, <1>3 DEF JInv, Shapes, Shape, Procs
  <2>2. p.todo # << >> /\ Head(p.todo) = "launch"
    BY <1>1 DEF At
  <2>3. Tail(p.todo) # << >> /\ Head(Tail(p.todo)) = "wait"
    BY <2>1, <2>2, RestOfProgram
  <2> QED BY <1>4, <2>3 DEF At
<1>11. Supervised'
  <2>1. \A h \in procs' : h.place = "host" => h = rest
    BY <1>5, <1>6, <1>7
  <2>2. \A r \in procs' : r.att = p.att => r = rest \/ r = client
    BY <1>6, <1>8
  <2>3. \A q, r \in procs' : q.att = r.att /\ q.place \in Helpers /\ r.place \in Helpers => q = r
    BY <1>4, <1>5, <1>6, <2>2 DEF JInv, Supervised, Helpers
  <2> QED BY <1>1, <1>4, <1>5, <1>7, <1>10, <2>1, <2>2, <2>3
       DEF Supervised, Current, At, Helpers
<1>12. Served'
  <2>1. \A q \in procs : q.att \in 1 .. cur
    BY DEF IInv, IType, TypeOK
  <2>2. \A q \in procs : q.att <= client.att
    BY <1>2, <1>5, <1>7, <2>1
  <2> QED BY <1>4, <1>5, <1>6, <2>2 DEF JInv, Served
<1>13. AnswersLeaveNothing'
  BY <1>1, <1>4, <1>5, <1>6 DEF JInv, AnswersLeaveNothing
<1>14. Provenance' /\ MetricIsItsOwn'
  BY <1>1, <1>7 DEF JInv, Provenance, MetricIsItsOwn, Reused
<1>15. OwnFiles'
  <2>1. \A a : OnlyOf(a)' <=> OnlyOf(a)
    BY <1>1 DEF OnlyOf
  <2>2. \A q \in procs' : mode = "docker-reconstruct" /\ q.place = "container" =>
          NotCleared(q) \/ OnlyOf(q.att)
    BY <1>4, <1>5, <1>6 DEF JInv, OwnFiles
  <2>3. \A h \in procs' : h.place = "host" => h.todo # << >>
    BY <1>5, <1>6, <1>7, <1>10 DEF At
  <2> QED BY <1>1, <2>1, <2>2, <2>3 DEF OwnFiles, Current, NotCleared
<1> QED BY <1>9, <1>11, <1>12, <1>13, <1>14, <1>15 DEF JInv

\* An answer changes nothing else of the commands.
LEMMA AnswerOnly ==
  ASSUME TypeOK, cur >= 1, NEW a \in Answers, Answered(a)
  PROVE  /\ cur' = cur /\ attempts'[cur].answer = a /\ cur \in Nat
         /\ \A k \in 1 .. cur :
              /\ attempts'[k].commit = attempts[k].commit /\ attempts'[k].dir = attempts[k].dir
              /\ k # cur => attempts'[k] = attempts[k]
<1> DEFINE answered == [attempts[cur] EXCEPT !.answer = a]
<1>1. attempts \in Seq(AttemptRecords) /\ cur \in 1 .. Len(attempts)
  BY DEF TypeOK, AttemptRecords, Answers, cur
<1>2. attempts[cur] \in AttemptRecords
  BY <1>1, ElementOfSeq
<1>3. /\ answered.commit = attempts[cur].commit /\ answered.dir = attempts[cur].dir
      /\ answered.answer = a
  BY <1>2 DEF AttemptRecords
<1>4. attempts' = [attempts EXCEPT ![cur] = answered]
  BY DEF Answered
<1> HIDE DEF answered
<1>5. Len(attempts') = Len(attempts) /\ attempts'[cur] = answered
      /\ \A k \in 1 .. Len(attempts) : k # cur => attempts'[k] = attempts[k]
  BY <1>1, <1>4
<1> QED BY <1>1, <1>3, <1>5 DEF cur

\* The child that outlives a runner.
LEMMA OrphanIs ==
  ASSUME IInv, JInv, NEW h \in Current, NEW r \in Orphan(h)
  PROVE  r.att = h.att /\ r.place = "orphan" /\ Shape(r)
<1>1. /\ h.todo # << >> /\ Head(h.todo) \in ChildSteps
      /\ r = [h EXCEPT !.place = "orphan", !.todo = <<Head(h.todo)>>]
  BY DEF Orphan
<1>2. h \in Procs(cur) /\ h \in procs /\ h.place = "host"
  BY DEF Current, IInv, IType, TypeOK, Procs, Codes
<1>3. r.att = h.att /\ r.place = "orphan" /\ r.todo = <<Head(h.todo)>>
  BY <1>1, <1>2 DEF Procs
<1>4. ASSUME mode = "docker-reconstruct" PROVE <<Head(h.todo)>> \in Seq(OuterSteps)
  <2>1. h.todo \in Seq(OuterSteps)
    BY <1>2, <1>4 DEF JInv, Shapes, Shape
  <2>2. Head(h.todo) \in OuterSteps
    BY <1>1, <2>1, StepDone
  <2> QED BY <2>2
<1> QED BY <1>1, <1>3, <1>4 DEF Shape

\* The engine lets go of its runner, whatever it answers for it.
LEMMA EngineLetsGo ==
  ASSUME IInv, JInv, UNCHANGED <<mode, raw, result>>, cur' = cur,
         \A k \in 1 .. cur :
           /\ attempts'[k].commit = attempts[k].commit /\ attempts'[k].dir = attempts[k].dir
           /\ k # cur => attempts'[k] = attempts[k],
         \A r \in procs' : r \in procs \ Current \/ \E h \in Current : r \in Orphan(h),
         \A r \in procs' : r.att = cur =>
           attempts'[cur].answer.note \in {"none", "candidate_timeout"},
         cur >= 1 /\ attempts'[cur].answer.note = "metric" /\ attempts'[cur].answer.by # cur
           => Reused(cur) /\ mode # "docker-reconstruct"
  PROVE  JInv'
<1>1. \A r \in procs' :
        \/ r \in procs /\ r.place # "host"
        \/ r.place = "orphan" /\ Shape(r) /\ \E h \in procs : r.att = h.att
  BY OrphanIs DEF Current
<1>2. \A r \in procs : r.att \in 1 .. cur
  BY DEF IInv, IType, TypeOK
<1>3. cur \in Nat /\ \A r \in procs' : r.place # "host" /\ r.att \in 1 .. cur
  BY <1>1, <1>2 DEF cur, IInv, IType, TypeOK
<1>4. Shapes'
  <2>1. \A r \in procs' : Shape(r)
    BY <1>1 DEF JInv, Shapes
  <2> QED BY <2>1 DEF Shapes, Shape
<1>5. \A r \in procs' : r.place \in Helpers => r \in procs
  BY <1>1 DEF Helpers
<1>6. Supervised'
  BY <1>3, <1>5 DEF JInv, Supervised, Current
<1>7. Served'
  BY <1>5 DEF JInv, Served, Helpers
<1>8. Provenance'
  BY DEF JInv, Provenance
<1>9. OwnFiles'
  <2>1. ASSUME NEW a \in 1 .. cur, OnlyOf(a) PROVE OnlyOf(a)'
    BY <2>1 DEF OnlyOf
  <2>2. \A q \in procs' : mode = "docker-reconstruct" /\ q.place = "container" =>
          NotCleared(q) \/ OnlyOf(q.att)
    BY <1>5 DEF JInv, OwnFiles, Helpers
  <2> QED BY <1>3, <2>1, <2>2 DEF OwnFiles, Current, NotCleared
<1>10. AnswersLeaveNothing'
  <2> SUFFICES ASSUME NEW r \in procs'
               PROVE  attempts'[r.att].answer.note \in {"none", "candidate_timeout"}
    BY DEF AnswersLeaveNothing
  <2>1. CASE r.att = cur
    BY <2>1
  <2>2. CASE r.att # cur
    <3>1. PICK h \in procs : r.att = h.att
      BY <1>1
    <3> QED BY <1>3, <2>2, <3>1 DEF JInv, AnswersLeaveNothing
  <2> QED BY <2>1, <2>2
<1>11. MetricIsItsOwn'
  <2> SUFFICES ASSUME NEW a \in 1 .. cur,
                      attempts'[a].answer.note = "metric", attempts'[a].answer.by # a
               PROVE  Reused(a)' /\ mode # "docker-reconstruct"
    BY DEF MetricIsItsOwn
  <2>1. Reused(a) /\ mode # "docker-reconstruct"
    <3>1. CASE a = cur
      BY <1>3, <3>1
    <3>2. CASE a # cur
      BY <3>2 DEF JInv, MetricIsItsOwn
    <3> QED BY <3>1, <3>2
  <2>2. \A b \in 1 .. a - 1 : b \in 1 .. cur
    BY <1>3
  <2> QED BY <2>1, <2>2 DEF Reused
<1> QED BY <1>4, <1>6, <1>7, <1>8, <1>9, <1>10, <1>11 DEF JInv

\* The measurement the engine reads is its command's own, unless the directory was used
\* before; and the command leaves nothing behind.
LEMMA ReadAnswerKeeps ==
  ASSUME IInv, JInv, ReadAnswer
  PROVE  JInv'
<1>1. PICK h \in Current :
        /\ h.todo = << >> /\ Answered(NoteOf(dirOf(h), h.code)) /\ procs' = procs \ {h}
        /\ UNCHANGED <<mode, limited, slots, files, restarts>>
  BY DEF ReadAnswer
<1> DEFINE d == dirOf(h)
           a == NoteOf(d, h.code)
<1>2. h \in procs /\ h.att = cur /\ cur \in 1 .. cur /\ cur \in Nat /\ d \in Dirs
      /\ d = attempts[cur].dir
  <2>1. h \in procs /\ h.att = cur
    BY DEF Current, JInv, Supervised
  <2> QED BY <2>1, DirTyped DEF IInv, IType, dirOf, cur
<1>3. a \in Answers
  <2>1. result[d].by \in 0 .. MaxAttempts
    BY <1>2 DEF IInv, IType, TypeOK
  <2> QED BY <2>1, BoundsAssumption DEF NoteOf, Answer, Answers, Notes
<1>4. a.note = "metric" => h.code = "ok" /\ result[d].metric /\ a.by = result[d].by
  BY DEF NoteOf, Answer
<1>5. ASSUME a.note = "metric", a.by # cur
      PROVE  Reused(cur) /\ mode # "docker-reconstruct"
  <2>1. a.by \in 1 .. cur /\ attempts[a.by].dir = d
    BY <1>2, <1>4, <1>5 DEF JInv, Provenance
  <2>2. a.by \in 1 .. cur - 1
    BY <1>2, <1>5, <2>1
  <2>3. mode # "docker-reconstruct"
    <3> SUFFICES ASSUME mode = "docker-reconstruct" PROVE FALSE
      OBVIOUS
    <3>1. OnlyOf(h.att)
      BY <1>1, <1>4, <1>5 DEF JInv, OwnFiles
    <3> QED BY <1>2, <1>4, <1>5, <3>1 DEF OnlyOf
  <2> QED BY <1>2, <2>1, <2>2, <2>3 DEF Reused
<1> HIDE DEF a, d
<1>6. /\ cur' = cur /\ attempts'[cur].answer = a
      /\ \A k \in 1 .. cur :
           /\ attempts'[k].commit = attempts[k].commit /\ attempts'[k].dir = attempts[k].dir
           /\ k # cur => attempts'[k] = attempts[k]
  BY <1>1, <1>2, <1>3, AnswerOnly DEF a, d, IInv, IType
<1>7. \A r \in procs' : r \in procs \ Current /\ r.att # cur
  BY <1>1, <1>2 DEF JInv, Supervised, Current, At
<1> QED BY <1>1, <1>5, <1>6, <1>7, EngineLetsGo DEF files

\* A runner is killed at its limit, or with its engine.
LEMMA KillKeeps ==
  ASSUME IInv, JInv, KillAtLimit \/ RestartEngine
  PROVE  JInv'
<1>1. CASE KillAtLimit
  <2>1. PICK h \in Current :
          /\ Answered(Answer("candidate_timeout", 0)) /\ procs' = (procs \ {h}) \cup Orphan(h)
          /\ UNCHANGED <<mode, limited, slots, files, restarts>>
    BY <1>1 DEF KillAtLimit
  <2>2. Current = {h} /\ cur >= 1
    BY DEF JInv, Supervised, Current, IInv, IType, TypeOK, cur
  <2>3. Answer("candidate_timeout", 0) \in Answers
        /\ Answer("candidate_timeout", 0).note = "candidate_timeout"
    BY BoundsAssumption DEF Answer, Answers, Notes
  <2>4. /\ cur' = cur /\ attempts'[cur].answer = Answer("candidate_timeout", 0)
        /\ \A k \in 1 .. cur :
             /\ attempts'[k].commit = attempts[k].commit /\ attempts'[k].dir = attempts[k].dir
             /\ k # cur => attempts'[k] = attempts[k]
    BY <2>1, <2>2, <2>3, AnswerOnly DEF IInv, IType
  <2>5. \A r \in procs' : r \in procs \ Current \/ \E k \in Current : r \in Orphan(k)
    BY <2>1, <2>2
  <2> QED BY <2>1, <2>3, <2>4, <2>5, EngineLetsGo DEF files
<1>2. CASE RestartEngine
  <2>1. UNCHANGED <<mode, attempts, raw, result>> /\ cur' = cur
    BY <1>2 DEF RestartEngine, files, cur
  <2>2. \A r \in procs' : r \in procs \ Current \/ \E h \in Current : r \in Orphan(h)
    BY <1>2 DEF RestartEngine, JInv, Supervised
  <2>3. \A r \in procs' : attempts[r.att].answer.note \in {"none", "candidate_timeout"}
    <3>1. \A r \in procs' : \E h \in procs : r.att = h.att
      BY <2>2, OrphanIs DEF Current
    <3> QED BY <3>1 DEF JInv, AnswersLeaveNothing
  <2>4. cur >= 1 => cur \in 1 .. cur
    BY DEF cur, IInv, IType, TypeOK
  <2>5. cur >= 1 /\ attempts[cur].answer.note = "metric" /\ attempts[cur].answer.by # cur
          => Reused(cur) /\ mode # "docker-reconstruct"
    BY <2>4 DEF JInv, MetricIsItsOwn
  <2> QED BY <2>1, <2>2, <2>3, <2>5, EngineLetsGo
<1> QED BY <1>1, <1>2

\* The program of a new runner has the shape of one.
LEMMA HostProgramShape ==
  ASSUME TypeOK
  PROVE  /\ HostProgram \in Seq(Steps \ {"create"}) /\ HostProgram # << >>
         /\ Followed(HostProgram, "launch", "wait")
         /\ mode = "docker-reconstruct" =>
              HostProgram \in Seq(OuterSteps) /\ HostProgram[Len(HostProgram)] = "wait"
<1>1. CASE mode = "docker-reconstruct"
  <2>1. HostProgram = <<"verify", "clear", "remove", "launch", "wait">>
    BY <1>1 DEF HostProgram
  <2> QED BY <2>1 DEF Steps, ChildSteps, OuterSteps, Followed
<1>2. CASE mode = "docker-source"
  <2>1. HostProgram =
          <<"verify", "clear", "prepare", "remove", "launch", "wait", "env", "result">>
    BY <1>2 DEF HostProgram
  <2> QED BY <1>2, <2>1 DEF Steps, ChildSteps, Followed
<1>3. CASE mode = "local"
  <2>1. HostProgram = <<"verify", "clear", "prepare", "bench", "env", "result">>
    BY <1>3 DEF HostProgram, RunnerProgram
  <2> QED BY <1>3, <2>1 DEF Steps, ChildSteps, Followed
<1> QED BY <1>1, <1>2, <1>3, ModesAssumption DEF TypeOK

\* A new command has a number of its own, and no answer yet.
LEMMA StartCommandKeeps ==
  ASSUME IInv, JInv, NEW c \in Commits, StartCommand(c)
  PROVE  JInv'
<1> DEFINE new == [commit |-> c, dir |-> <<c, slots[c] + 1>>, answer |-> Answer("none", 0)]
           runner == Process(cur + 1, "host")
<1>1. /\ attempts \in Seq(AttemptRecords) /\ cur \in Nat /\ Current = {}
      /\ UNCHANGED <<mode, raw, result>> /\ attempts' = Append(attempts, new)
      /\ procs' = procs \cup {runner}
  BY DEF StartCommand, IInv, IType, TypeOK, AttemptRecords, Answers, cur, files
<1>2. new.commit = c /\ new.dir[1] = c /\ new.answer.note = "none"
  BY DEF Answer
<1>3. runner.att = cur + 1 /\ runner.place = "host" /\ runner.todo = HostProgram
  BY DEF Process
<1> HIDE DEF new, runner
<1>4. /\ cur' = cur + 1 /\ attempts'[cur + 1] = new
      /\ \A k \in 1 .. cur : attempts'[k] = attempts[k]
  BY <1>1 DEF cur
<1>5. \A r \in procs : r.att \in 1 .. cur /\ r.att # cur + 1 /\ r.place # "host"
  BY <1>1 DEF IInv, IType, TypeOK, Current
<1>6. \A k \in 1 .. cur' : k \in 1 .. cur \/ k = cur + 1
  BY <1>1, <1>4
<1>7. Shapes'
  <2>1. Shape(runner)
    BY <1>3, HostProgramShape DEF Shape, IInv, IType
  <2>2. \A r \in procs' : Shape(r)
    BY <1>1, <2>1 DEF JInv, Shapes
  <2> QED BY <1>1, <2>2 DEF Shapes, Shape
<1>8. Supervised'
  <2>1. \A h \in procs' : h.place = "host" => h = runner
    BY <1>1, <1>5
  <2>2. \A r \in procs' : r.place \in Helpers => r \in procs
    BY <1>1, <1>3 DEF Helpers
  <2> QED BY <1>1, <1>2, <1>3, <1>4, <1>5, <2>1, <2>2 DEF JInv, Supervised, Current
<1>9. Served'
  BY <1>1, <1>3 DEF JInv, Served
<1>10. Provenance'
  <2>1. \A k \in 1 .. cur' : attempts'[k].dir[1] = attempts'[k].commit
    BY <1>2, <1>4, <1>6 DEF JInv, Provenance
  <2>2. \A k \in 1 .. cur : k \in 1 .. cur'
    BY <1>1, <1>4
  <2> QED BY <1>1, <1>4, <2>1, <2>2 DEF JInv, Provenance
<1>11. OwnFiles'
  <2>1. ASSUME NEW a \in 1 .. cur, OnlyOf(a) PROVE OnlyOf(a)'
    BY <1>1, <1>4, <2>1 DEF OnlyOf
  <2>2. \A q \in procs' : mode = "docker-reconstruct" /\ q.place = "container" =>
          NotCleared(q) \/ OnlyOf(q.att)'
    BY <1>1, <1>3, <1>5, <2>1 DEF JInv, OwnFiles
  <2>3. \A h \in procs' : h.place = "host" => h.todo # << >>
    BY <1>1, <1>3, <1>5, HostProgramShape DEF IInv, IType
  <2> QED BY <1>1, <2>2, <2>3 DEF OwnFiles, Current, NotCleared
<1>12. AnswersLeaveNothing'
  BY <1>1, <1>2, <1>3, <1>4, <1>5 DEF JInv, AnswersLeaveNothing
<1>13. MetricIsItsOwn'
  <2> SUFFICES ASSUME NEW a \in 1 .. cur',
                      attempts'[a].answer.note = "metric", attempts'[a].answer.by # a
               PROVE  Reused(a)' /\ mode' # "docker-reconstruct"
    BY DEF MetricIsItsOwn
  <2>1. a \in 1 .. cur
    BY <1>2, <1>4, <1>6
  <2>2. Reused(a) /\ mode # "docker-reconstruct"
    BY <1>4, <2>1 DEF JInv, MetricIsItsOwn
  <2>3. \A b \in 1 .. a - 1 : b \in 1 .. cur
    BY <1>1, <2>1
  <2> QED BY <1>1, <1>4, <2>1, <2>2, <2>3 DEF Reused
<1> QED BY <1>7, <1>8, <1>9, <1>10, <1>11, <1>12, <1>13 DEF JInv

\* Before the first command nothing runs and nothing is recorded.
LEMMA InitRecords == Init => JInv
<1> SUFFICES ASSUME Init PROVE JInv
  OBVIOUS
<1>1. cur = 0 /\ procs = {} /\ \A d \in Dirs : raw[d] = {} /\ ~result[d].metric
  BY DEF Init, cur, NoResult
<1>2. Shapes /\ Supervised /\ Served /\ AnswersLeaveNothing
  BY <1>1 DEF Shapes, Supervised, Served, AnswersLeaveNothing, Current
<1>3. Provenance /\ OwnFiles /\ MetricIsItsOwn
  BY <1>1 DEF Provenance, OwnFiles, MetricIsItsOwn, Current
<1> QED BY <1>2, <1>3 DEF JInv

\* Every step preserves what is known of the processes and the records.
LEMMA StepKeepsRecords == IInv /\ JInv /\ [Next]_vars => JInv'
<1> SUFFICES ASSUME IInv, JInv, [Next]_vars PROVE JInv'
  OBVIOUS
<1>1. ASSUME NEW c \in Commits, StartCommand(c) PROVE JInv'
  BY <1>1, StartCommandKeeps
<1>2. CASE ReadAnswer
  BY <1>2, ReadAnswerKeeps
<1>3. CASE KillAtLimit \/ RestartEngine
  BY <1>3, KillKeeps
<1>4. ASSUME NEW p \in procs,
             Verify(p) \/ Clear(p) \/ Prepare(p) \/ Bench(p) \/ RecordEnv(p) \/ BuildResult(p)
      PROVE  JInv'
  BY <1>4, InnerStepKeeps
<1>5. ASSUME NEW p \in procs, RemoveContainer(p) PROVE JInv'
  BY <1>5, RemoveContainerKeeps
<1>6. ASSUME NEW p \in procs, Launch(p) PROVE JInv'
  BY <1>6, LaunchKeeps
<1>7. ASSUME NEW p \in procs, CreateContainer(p) PROVE JInv'
  BY <1>7, CreateContainerKeeps
<1>8. ASSUME NEW p \in procs, ContainerExits(p) PROVE JInv'
  BY <1>8, ContainerExitsKeeps
<1>9. CASE UNCHANGED vars
  <2>1. UNCHANGED <<mode, attempts, procs, raw, result>>
    BY <1>9 DEF vars, files
  <2>2. Shapes' /\ Served' /\ Provenance' /\ AnswersLeaveNothing' /\ MetricIsItsOwn'
    BY <2>1 DEF JInv, Shapes, Shape, Served, Provenance, AnswersLeaveNothing, MetricIsItsOwn,
                Reused, cur
  <2>3. Supervised'
    BY <2>1 DEF JInv, Supervised, Current, At, cur
  <2>4. OwnFiles'
    BY <2>1 DEF JInv, OwnFiles, OnlyOf, NotCleared, Current, SameName
  <2> QED BY <2>2, <2>3, <2>4 DEF JInv
<1> QED
  BY <1>1, <1>2, <1>3, <1>4, <1>5, <1>6, <1>7, <1>8, <1>9 DEF Next

\* Both invariants hold in every state.
THEOREM RecordsInvariance == Spec => [](IInv /\ JInv)
<1>1. IInv /\ JInv /\ [Next]_vars => (IInv /\ JInv)'
  BY StepPreserves, StepKeepsRecords
<1> QED
  BY <1>1, InitEstablishes, InitRecords, PTL DEF Spec

\* Once a command was answered, other than by its limit, no process of it is running: not
\* its runner, not a container, not what a killed runner had started.
THEOREM NothingIsLeft == Spec => []AnswersLeaveNothing
<1>1. IInv /\ JInv => AnswersLeaveNothing
  BY DEF JInv
<1> QED
  BY <1>1, RecordsInvariance, PTL

\* A metric is that of the command it is read for, unless its directory was used by an
\* earlier run of the engine; with docker-reconstruct it is so without exception.
THEOREM MetricsAreOwn == Spec => []MetricIsItsOwn
<1>1. IInv /\ JInv => MetricIsItsOwn
  BY DEF JInv
<1> QED
  BY <1>1, RecordsInvariance, PTL

=============================================================================
