---- MODULE CommandPipe ----
(***************************************************************************)
(* One external command and the loop that reads its output:                *)
(* engine._run_command, and runner._run_with_live_output, which has no     *)
(* limit.  The loop waits with select for the pipe to become readable,     *)
(* reads one line with readline, looks whether the child has ended, and    *)
(* begins again; what it reads it appends to bisect_command.log and        *)
(* live_output.jsonl.                                                      *)
(*                                                                         *)
(* Output is a sequence of pieces: "end" finishes a line, "mid" does not.  *)
(* readline pulls a chunk of the pipe into a buffer of the process and     *)
(* returns one line of it; select sees the pipe, never that buffer.        *)
(***************************************************************************)
EXTENDS Integers, Sequences

CONSTANTS Pieces,     \* what one write can be: a subset of {"mid", "end"}
          Limits,     \* whether the command has a time limit: a subset of BOOLEAN
          Capacity,   \* pieces that the pipe holds before a writer blocks
          MaxWritten  \* bound on what is written

VARIABLES child,    \* "running", "exited", "killed"
          helper,   \* a process started by the child lives and holds the pipe
          written,  \* history: everything written to the pipe
          pipe,     \* what is in the kernel's pipe
          buffer,   \* what is in the reader's buffer
          log,      \* both output files
          reader,   \* where the loop is
          limited,  \* timeout_s is not None
          expired,  \* more than timeout_s has passed
          timedOut

pipeVars == <<child, helper, written, pipe, buffer, log, reader, limited, expired, timedOut>>
processes == <<child, helper>>
clock == <<limited, expired>>

PipeInit ==
  /\ child = "running" /\ helper \in BOOLEAN
  /\ written = <<>> /\ pipe = <<>> /\ buffer = <<>> /\ log = <<>>
  /\ reader = "deciding" /\ limited \in Limits /\ expired = FALSE /\ timedOut = FALSE

----------------------------------------------------------------------------
(* The command. *)

\* The reading end is closed with the call: whoever writes then gets SIGPIPE.
HasWriter == child = "running" \/ helper

Write ==
  /\ HasWriter /\ reader # "done"
  /\ Len(pipe) < Capacity /\ Len(written) < MaxWritten
  /\ \E p \in Pieces : written' = Append(written, p) /\ pipe' = Append(pipe, p)
  /\ UNCHANGED <<processes, buffer, log, reader, clock, timedOut>>

ChildExits ==
  /\ child = "running" /\ child' = "exited"
  /\ UNCHANGED <<helper, written, pipe, buffer, log, reader, clock, timedOut>>

HelperEnds ==
  /\ helper /\ helper' = FALSE
  /\ UNCHANGED <<child, written, pipe, buffer, log, reader, clock, timedOut>>

TimePasses ==
  /\ limited /\ ~expired /\ expired' = TRUE
  /\ UNCHANGED <<processes, written, pipe, buffer, log, reader, limited, timedOut>>

----------------------------------------------------------------------------
(* The loop. *)

\* The limit is looked at between two reads only; the child alone is killed, and what it had
\* written is not read any more.
CheckLimit ==
  /\ reader = "deciding"
  /\ \/ /\ limited /\ expired
        /\ timedOut' = TRUE /\ reader' = "done"
        /\ child' = IF child = "running" THEN "killed" ELSE child
     \/ /\ ~(limited /\ expired)
        /\ reader' = "selecting" /\ UNCHANGED <<timedOut, child>>
  /\ UNCHANGED <<helper, written, pipe, buffer, log, clock>>

Readable == pipe # <<>> \/ ~HasWriter

\* select returns with something to read, or after a second without.
Select ==
  /\ reader = "selecting"
  /\ reader' = IF Readable THEN "reading" ELSE "polling"
  /\ UNCHANGED <<processes, written, pipe, buffer, log, clock, timedOut>>

LineEnds == {i \in 1..Len(buffer) : buffer[i] = "end"}

\* readline: a line that the buffer has.
TakeLine ==
  /\ reader = "reading"
  /\ \E i \in LineEnds : /\ \A j \in LineEnds : i <= j
                         /\ log' = log \o SubSeq(buffer, 1, i)
                         /\ buffer' = SubSeq(buffer, i + 1, Len(buffer))
  /\ reader' = "polling"
  /\ UNCHANGED <<processes, written, pipe, clock, timedOut>>

\* readline: no whole line yet, so all that the pipe has is taken; without anything it blocks.
FillBuffer ==
  /\ \/ reader = "reading" /\ LineEnds = {}
     \/ reader = "draining"
  /\ pipe # <<>>
  /\ buffer' = buffer \o pipe /\ pipe' = <<>>
  /\ UNCHANGED <<processes, written, log, reader, clock, timedOut>>

\* readline at the end of the output: what there is counts as a line.
TakeRest ==
  /\ reader = "reading" /\ LineEnds = {} /\ pipe = <<>> /\ ~HasWriter
  /\ log' = log \o buffer /\ buffer' = <<>>
  /\ reader' = "polling"
  /\ UNCHANGED <<processes, written, pipe, clock, timedOut>>

Poll ==
  /\ reader = "polling"
  /\ reader' = IF child = "running" THEN "deciding" ELSE "draining"
  /\ UNCHANGED <<processes, written, pipe, buffer, log, clock, timedOut>>

\* The child is gone: stdout.read() returns when nobody holds the pipe any more.
DrainEnds ==
  /\ reader = "draining" /\ pipe = <<>> /\ ~HasWriter
  /\ log' = log \o buffer /\ buffer' = <<>>
  /\ reader' = "done"
  /\ UNCHANGED <<processes, written, pipe, clock, timedOut>>

RunCommand == CheckLimit \/ Select \/ TakeLine \/ FillBuffer \/ TakeRest \/ Poll \/ DrainEnds
Command == Write \/ ChildExits \/ HelperEnds
PipeNext == RunCommand \/ Command \/ TimePasses

PipeSpec == PipeInit /\ [][PipeNext]_pipeVars
\* The engine's loop goes on whenever it can, and time passes.
FairPipeSpec == PipeSpec /\ WF_pipeVars(RunCommand) /\ WF_pipeVars(TimePasses)

----------------------------------------------------------------------------
(* Properties. *)

Lines(s) == {i \in DOMAIN s : s[i] = "end"}

\* Every whole line that a command writes is in live_output.jsonl while the command still runs,
\* or the call is over: the stream can be tailed to see where a silent command hangs.
LiveOutputKeepsUp ==
  \A n \in 1..MaxWritten :
    (n \in Lines(written)) ~> (n \in Lines(log) \/ child # "running" \/ reader = "done")

\* Nothing that was written is lost, repeated or reordered before it reaches the files, and a
\* call that was not cut off by its limit has all of it there.
OutputIsKept ==
  /\ written = log \o buffer \o pipe
  /\ reader = "done" /\ ~timedOut => log = written

\* A call that was cut off still logged whole lines only: no line in the files is the first part
\* of a longer one.
CutAtALine == reader = "done" /\ timedOut /\ log # <<>> => log[Len(log)] = "end"
====
