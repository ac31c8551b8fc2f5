-------------------------- MODULE AttemptProcesses --------------------------
(***************************************************************************)
(* The processes behind the benchmark commands of one output directory.    *)
(* The engine runs one command at a time (engine._run_command) and may     *)
(* kill it at its limit, but only its direct child, the runner: what that  *)
(* runner had started (a git, install, benchmark or docker process) lives  *)
(* on, and so does a container.  The engine may also end or die and be     *)
(* started again on the same directory, where it reuses the attempts'      *)
(* artifact directories.                                                   *)
(*                                                                         *)
(* A process is known by what is left of its program.  Which files a step  *)
(* writes into its artifact directory is modelled, what it does to the     *)
(* clone and the environment is not (see EnvReconstruct).  A runner whose  *)
(* engine is gone ends too: its next line of output has no reader.         *)
(* Mode "local" is local-source and local-reconstruct; git, docker, the    *)
(* installer, the benchmark and the result builder fail when they like.    *)
(* The docker daemon serves its clients in the order they were started.    *)
(***************************************************************************)
EXTENDS Integers, Sequences, FiniteSets, Functions

CONSTANTS
  Commits,
  Modes,                \* runner modes considered
  Limits,               \* whether --candidate_timeout_s is given: a subset of BOOLEAN
  MaxAttempts,          \* bound: commands the engine runs
  MaxRestarts           \* bound: how often the engine is started again

ASSUME ModesAssumption == Modes \subseteq {"docker-reconstruct", "docker-source", "local"}
ASSUME LimitsAssumption == Limits \subseteq BOOLEAN
ASSUME BoundsAssumption == MaxAttempts \in Nat /\ MaxRestarts \in Nat

VARIABLES
  mode, limited,        \* of the plan
  attempts,             \* every command so far: its commit, its directory, its answer
  slots,                \* per commit, the commands this run of the engine gave it
  procs,                \* the processes alive
  env,                  \* per directory, the status of its bisect_env.json
  result,               \* per directory, perf_smoke_test_result.json, with its measurement
  raw,                  \* per directory, whose benchmark_runtime_*.json files it has
  restarts              \* bounded counter

files == <<env, result, raw>>
vars == <<mode, limited, attempts, slots, procs, files, restarts>>

Dirs == Commits \X (1 .. MaxAttempts)
NoResult == [by |-> 0, metric |-> FALSE]

\* What a runner does.
RunnerProgram == <<"verify", "clear", "prepare", "bench", "env", "result">>
HostProgram ==
  CASE mode = "docker-reconstruct" -> <<"verify", "clear", "remove", "launch", "wait">>
    [] mode = "docker-source" ->
         <<"verify", "clear", "prepare", "remove", "launch", "wait", "env", "result">>
    [] mode = "local" -> RunnerProgram

\* What its container does: with docker-reconstruct the runner of local-reconstruct.
ContainerProgram == IF mode = "docker-source" THEN <<"bench">> ELSE RunnerProgram

Process(att, place) ==
  [att |-> att, place |-> place, code |-> "ok",
   todo |-> IF place = "host" THEN HostProgram ELSE ContainerProgram]

\* The steps a runner leaves to a child of its own, which survives it.
ChildSteps == {"prepare", "bench", "remove", "result"}

cur == Len(attempts)
Current == {p \in procs : p.place = "host"}
At(p, step) == p.todo # << >> /\ Head(p.todo) = step
dirOf(p) == attempts[p.att].dir

\* Containers are named after the commit, the task and the backend.
SameNameByAttempt(p, q) == p.att = q.att
SameName(p, q) == attempts[p.att].commit = attempts[q.att].commit

-----------------------------------------------------------------------------
Init ==
  /\ mode \in Modes
  /\ limited \in Limits
  /\ attempts = << >>
  /\ slots = [c \in Commits |-> 0]
  /\ procs = {}
  /\ env = [d \in Dirs |-> "none"]
  /\ result = [d \in Dirs |-> NoResult]
  /\ raw = [d \in Dirs |-> {}]
  /\ restarts = 0

Answer(note, by) == [note |-> note, by |-> by]
Answered(a) == attempts' = [attempts EXCEPT ![cur].answer = a]

\* The engine formats and starts the command of its next measurement of c.
StartCommand(c) ==
  /\ Current = {}
  /\ cur < MaxAttempts
  /\ slots' = [slots EXCEPT ![c] = @ + 1]
  /\ attempts' = Append(attempts, [commit |-> c, dir |-> <<c, slots[c] + 1>>,
                                   answer |-> Answer("none", 0)])
  /\ procs' = procs \cup {Process(cur + 1, "host")}
  /\ UNCHANGED <<mode, limited, files, restarts>>

\* _measurement_note, in its order.
NoteOf(d, code) ==
  IF env[d] = "skip" THEN Answer("env_skip", 0)
  ELSE IF code # "ok" THEN Answer("runner_command_failed", 0)
  ELSE IF result[d] = NoResult THEN Answer("missing_result", 0)
  ELSE Answer(IF result[d].metric THEN "metric" ELSE "metric_unavailable", result[d].by)

\* The runner ended by itself: the engine drains its output and reads what it left.
ReadAnswer == \E h \in Current :
  /\ h.todo = << >>
  /\ Answered(NoteOf(dirOf(h), h.code))
  /\ procs' = procs \ {h}
  /\ UNCHANGED <<mode, limited, slots, files, restarts>>

\* What outlives a runner that is killed: the child its current step is.
Orphan(h) ==
  IF h.todo # << >> /\ Head(h.todo) \in ChildSteps
    THEN {[h EXCEPT !.place = "orphan", !.todo = <<Head(h.todo)>>]} ELSE {}

\* The limit is looked at first in every turn of the loop, whatever the runner does.
LimitReachedOnOutput(h) == limited /\ ~At(h, "wait")
LimitReached(h) == limited
KillAtLimit == \E h \in Current :
  /\ LimitReached(h)
  /\ Answered(Answer("candidate_timeout", 0))
  /\ procs' = (procs \ {h}) \cup Orphan(h)
  /\ UNCHANGED <<mode, limited, slots, files, restarts>>

\* The engine ends, or dies with its runner, and is started again on the directory.  The
\* signal that killed it may have reached the other processes of its last command, too.
RestartEngine ==
  /\ restarts < MaxRestarts
  /\ restarts' = restarts + 1
  /\ slots' = [c \in Commits |-> 0]
  /\ \/ procs' = (procs \ Current) \cup UNION {Orphan(h) : h \in Current}
     \/ /\ Current # {}
        /\ procs' = {p \in procs : p.att # cur}
  /\ UNCHANGED <<mode, limited, attempts, files>>

-----------------------------------------------------------------------------
(* The steps of runner.main, and of what it starts.                        *)

\* An orphan is done after its one step.
Becomes(p, rest, code) ==
  procs' = (procs \ {p}) \cup
    IF p.place = "orphan" THEN {} ELSE {[p EXCEPT !.todo = rest, !.code = code]}
Proceed(p) == Becomes(p, Tail(p.todo), p.code)
Exit(p, code) == Becomes(p, << >>, code)
Step(p, step) == At(p, step) /\ UNCHANGED <<mode, limited, attempts, slots, restarts>>

\* Arguments, refs and the pinned tooling are checked before anything is touched.
Verify(p) ==
  /\ Step(p, "verify")
  /\ Proceed(p) \/ Exit(p, "failed")
  /\ UNCHANGED files

\* _clear_previous_attempt_outputs
ClearedButRuntimes(d) == {}
Cleared(d) == raw[d]
Clear(p) ==
  /\ Step(p, "clear")
  /\ env' = [env EXCEPT ![dirOf(p)] = "none"]
  /\ result' = [result EXCEPT ![dirOf(p)] = NoResult]
  /\ raw' = [raw EXCEPT ![dirOf(p)] = @ \ Cleared(dirOf(p))]
  /\ Proceed(p)

WriteBisectEnv(p, status) == env' = [env EXCEPT ![dirOf(p)] = status]

\* _prepare_source_or_record_skip and, where the mode has one, ensure_env: on failure a skip
\* and a clean exit, unless the runner is gone.
Prepare(p) ==
  /\ Step(p, "prepare")
  /\ \/ /\ Proceed(p)
        /\ UNCHANGED env
     \/ /\ p.place # "orphan"
        /\ WriteBisectEnv(p, "skip")
        /\ Exit(p, "ok")
  /\ UNCHANGED <<result, raw>>

\* The capability check and the benchmark, which leaves its record when it succeeds.
Bench(p) ==
  /\ Step(p, "bench")
  /\ \/ /\ raw' = [raw EXCEPT ![dirOf(p)] = @ \cup {p.att}]
        /\ Becomes(p, Tail(p.todo), "ok")
     \/ /\ UNCHANGED raw
        /\ \E code \in {"failed", "tooling"} : Becomes(p, Tail(p.todo), code)
  /\ UNCHANGED <<env, result>>

\* What the runner waiting for the command of attempt a does with its exit code.
Waiting(a) == {h \in Current : h.att = a /\ At(h, "wait")}
Told(a, code) == {[h EXCEPT !.todo = Tail(@), !.code = code] : h \in Waiting(a)}

\* docker rm -f of the name this attempt's container will have; the runner that waits for
\* a container removed under it sees it fail.
RemoveContainer(p) ==
  /\ Step(p, "remove")
  /\ LET gone == {q \in procs : q.place = "container" /\ SameName(p, q)}
         deaf == UNION {Waiting(q.att) : q \in gone}
     IN procs' = (procs \ ({p} \cup gone \cup deaf))
                   \cup (UNION {Told(q.att, "failed") : q \in gone})
                   \cup IF p.place = "orphan" THEN {} ELSE {[p EXCEPT !.todo = Tail(@)]}
  /\ UNCHANGED files

\* The runner starts its docker client and waits for it.
Launch(p) ==
  /\ Step(p, "launch")
  /\ procs' = (procs \ {p}) \cup
       {[p EXCEPT !.todo = Tail(@)],
        [att |-> p.att, place |-> "client", todo |-> <<"create">>, code |-> "ok"]}
  /\ UNCHANGED files

\* The daemon creates the container, unless it cannot or the name is taken.
CreateContainer(p) ==
  /\ Step(p, "create")
  /\ \A q \in procs : q.place = "client" => p.att <= q.att
  /\ \/ /\ \A q \in procs : q.place = "container" => ~SameName(p, q)
        /\ procs' = (procs \ {p}) \cup {Process(p.att, "container")}
     \/ procs' = (procs \ ({p} \cup Waiting(p.att))) \cup Told(p.att, "failed")
  /\ UNCHANGED files

\* A container ends, and docker run with it.
ExitUnattended(p) == procs' = (procs \ Waiting(p.att)) \cup Told(p.att, p.code)
ExitReported(p) == procs' = (procs \ ({p} \cup Waiting(p.att))) \cup Told(p.att, p.code)
ContainerExits(p) ==
  /\ p.place = "container"
  /\ p.todo = << >>
  /\ ExitReported(p)
  /\ UNCHANGED <<mode, limited, attempts, slots, files, restarts>>

\* The sidecar: the tooling boundary is a skip, any other end of the benchmark is not.
RecordEnv(p) ==
  /\ Step(p, "env")
  /\ IF p.code = "tooling"
     THEN /\ WriteBisectEnv(p, "skip")
          /\ Exit(p, "ok")
     ELSE /\ WriteBisectEnv(p, "ok")
          /\ Proceed(p)
  /\ UNCHANGED <<result, raw>>

\* _run_build_bench_result: the measurement of a benchmark that succeeded is that of a
\* record in the directory.
BuildResult(p) ==
  /\ Step(p, "result")
  /\ \/ /\ Exit(p, "failed")
        /\ UNCHANGED result
     \/ /\ p.code = "failed"
        /\ result' = [result EXCEPT ![dirOf(p)] = [by |-> p.att, metric |-> FALSE]]
        /\ Exit(p, "ok")
     \/ /\ p.code = "ok"
        /\ \E a \in raw[dirOf(p)] :
             result' = [result EXCEPT ![dirOf(p)] = [by |-> a, metric |-> TRUE]]
        /\ Exit(p, "ok")
  /\ UNCHANGED <<env, raw>>

Next ==
  \/ \E c \in Commits : StartCommand(c)
  \/ ReadAnswer
  \/ KillAtLimit
  \/ RestartEngine
  \/ \E p \in procs : Verify(p)
  \/ \E p \in procs : Clear(p)
  \/ \E p \in procs : Prepare(p)
  \/ \E p \in procs : Bench(p)
  \/ \E p \in procs : RemoveContainer(p)
  \/ \E p \in procs : Launch(p)
  \/ \E p \in procs : CreateContainer(p)
  \/ \E p \in procs : ContainerExits(p)
  \/ \E p \in procs : RecordEnv(p)
  \/ \E p \in procs : BuildResult(p)

Spec == Init /\ [][Next]_vars

\* The engine's loop goes on and its clock runs.  Nothing else need ever make a step: a
\* benchmark, an installer or the docker daemon may hang.
FairSpec == Spec /\ WF_vars(ReadAnswer \/ KillAtLimit)

-----------------------------------------------------------------------------
(* Correctness.                                                            *)

Places == {"host", "client", "container", "orphan"}
Steps == ChildSteps \cup {"verify", "clear", "launch", "wait", "create", "env"}
Notes == {"none", "env_skip", "runner_command_failed", "missing_result", "metric",
          "metric_unavailable", "candidate_timeout"}

TypeOK ==
  /\ mode \in Modes /\ limited \in Limits
  /\ attempts \in Seq([commit : Commits, dir : Dirs,
                       answer : [note : Notes, by : 0 .. MaxAttempts]])
  /\ slots \in [Commits -> 0 .. MaxAttempts]
  /\ procs \subseteq [att : 1 .. cur, place : Places, todo : Seq(Steps),
                      code : {"ok", "failed", "tooling"}]
  /\ env \in [Dirs -> {"none", "ok", "skip"}]
  /\ result \in [Dirs -> [by : 0 .. MaxAttempts, metric : BOOLEAN]]
  /\ raw \in [Dirs -> SUBSET (1 .. MaxAttempts)]
  /\ restarts \in 0 .. MaxRestarts

\* Attempt a has the directory of an earlier one, of an earlier run of the engine.
Reused(a) == \E b \in 1 .. a - 1 : attempts[b].dir = attempts[a].dir

\* A metric is that of the attempt it is read for, whatever earlier attempts left running.
\* Only in a directory an earlier run of the engine used may it be another's, and never
\* with docker-reconstruct, whose container clears the directory again once the leftover
\* container is gone (runner.main, _clear_previous_attempt_outputs).
MetricIsItsOwn ==
  \A a \in 1 .. cur :
    attempts[a].answer.note = "metric" /\ attempts[a].answer.by # a
      => Reused(a) /\ mode # "docker-reconstruct"

\* With docker-reconstruct never two processes work on the clone and the environment of a
\* commit, however many commands at it were killed: containers of a commit share a name.
WorksOn(c) == {p \in procs : attempts[p.att].commit = c
                             /\ (At(p, "prepare") \/ At(p, "bench"))}
CloneHasOneUser ==
  mode = "docker-reconstruct" => \A c \in Commits : Cardinality(WorksOn(c)) <= 1

\* Once a command was answered, other than by its limit, nothing of it is running.
AnswersLeaveNothing ==
  \A p \in procs : attempts[p.att].answer.note \in {"none", "candidate_timeout"}

\* With a limit every command is answered, or its engine ends, even when all it started
\* hangs.
CommandsEnd == limited => [](Current # {} => <>(Current = {}))

=============================================================================
