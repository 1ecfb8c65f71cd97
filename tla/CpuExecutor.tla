----------------------------- MODULE CpuExecutor -----------------------------
(***************************************************************************)
(* One call of CpuExecutor::execute_sync (src/executor.rs) and the child   *)
(* processes it starts, one for a binary task and one after another for a  *)
(* pipeline.  Data moves in units through pipes that hold PipeSize units:  *)
(* the executor writes all of stdin before it reads any output, polls for  *)
(* the exit without reading when there is a timeout, and reads until the   *)
(* end when there is none.  The operating system and the child are the     *)
(* environment: a child is a list of reads and writes of one unit and then *)
(* an exit, or it hangs.  Stdout and stderr behave alike: one stands for   *)
(* both.                                                                   *)
(***************************************************************************)
EXTENDS Integers, Sequences, SequencesExt

CONSTANTS
    CallTasks,    \* [kind, stages, pipe_output, timeout]; a stage is [ops, code, stdin]
    PipeSize,
    NoData        \* Option::None of stdin and of last_output

ASSUME ExecutorAssumption ==
    /\ PipeSize \in Nat \ {0}
    /\ \A t \in CallTasks :
          /\ t.kind \in {"Binary", "Pipeline"} /\ t.pipe_output \in BOOLEAN
          /\ t.timeout \in BOOLEAN
          /\ t.kind = "Binary" => Len(t.stages) = 1

VARIABLES
    task,
    at,         \* where execute_sync is
    idx,        \* stage being executed
    feed,       \* rest of the stdin data
    last_output,
    result,     \* of the latest stage: its state or the error, and its stdout
    child,      \* environment: the process
    stdin, stdout,    \* environment: the pipes' contents; stdin also says if it is open
    expired,    \* environment: the deadline of the stage has passed
    written     \* history: what each stage has written

thread == <<task, at, idx, feed, last_output, result>>
world == <<child, stdin, stdout, expired, written>>
vars == <<thread, world>>

Stage == task.stages[idx]
Nothing == [state |-> "none", stdout |-> <<>>]
Pipe(data, open) == [data |-> data, open |-> open]

Init ==
    /\ task \in CallTasks
    /\ at = "stage"
    /\ idx = 1
    /\ feed = <<>>
    /\ last_output = NoData
    /\ result = Nothing
    /\ child = [state |-> "none", done |-> 0, got |-> <<>>]
    /\ stdin = Pipe(<<>>, FALSE)
    /\ stdout = <<>>
    /\ expired = FALSE
    /\ written = [i \in DOMAIN task.stages |-> <<>>]

------------------------------------------------------------------------------
\* Fault: a stage that has a stdin of its own keeps it.
StageInputOwn ==
    IF task.pipe_output /\ idx > 1 /\ Stage.stdin = NoData
    THEN last_output ELSE Stage.stdin

\* The stdin of a stage: the previous stage's output, if the pipeline pipes it.
StageInput ==
    IF task.pipe_output /\ idx > 1 THEN last_output ELSE Stage.stdin

\* The loop over the stages is over: the last output is the result.
NoStageLeft ==
    /\ at = "stage" /\ idx > Len(task.stages)
    /\ at' = "done"
    /\ result' = [state |-> "Completed",
                  stdout |-> IF last_output = NoData THEN <<>> ELSE last_output]
    /\ UNCHANGED <<task, idx, feed, last_output, world>>

Spawn ==
    /\ at = "stage" /\ idx <= Len(task.stages)
    /\ at' = IF StageInput = NoData THEN "await" ELSE "feed"
    /\ feed' = IF StageInput = NoData THEN <<>> ELSE StageInput
    /\ last_output' = IF task.pipe_output /\ idx > 1 THEN NoData ELSE last_output
    /\ result' = Nothing
    /\ child' = [state |-> "running", done |-> 0, got |-> <<>>]
    /\ stdin' = Pipe(<<>>, StageInput # NoData)
    /\ stdout' = <<>>
    /\ expired' = FALSE
    /\ UNCHANGED <<task, idx, written>>

SpawnFails ==
    /\ at = "stage" /\ idx <= Len(task.stages)
    /\ \E e \in {"UblkDeviceNotFound", "InvalidRequest"} :
          result' = [state |-> e, stdout |-> <<>>]
    /\ at' = "done"
    /\ UNCHANGED <<task, idx, feed, last_output, world>>

\* write_all blocks on a full pipe and fails, unnoticed, when the child is gone.
WriteStdin ==
    /\ at = "feed" /\ feed # <<>>
    /\ child.state = "running" /\ Len(stdin.data) < PipeSize
    /\ stdin' = [stdin EXCEPT !.data = Append(@, Head(feed))]
    /\ feed' = Tail(feed)
    /\ UNCHANGED <<task, at, idx, last_output, result, child, stdout, expired, written>>

CloseStdin ==
    /\ at = "feed" /\ (feed = <<>> \/ child.state # "running")
    /\ stdin' = [stdin EXCEPT !.open = FALSE]
    /\ at' = "await"
    /\ UNCHANGED <<task, idx, feed, last_output, result, child, stdout, expired, written>>

Finished(output) ==
    [state |-> IF Stage.code = 0 THEN "Completed" ELSE "Failed", stdout |-> output]

\* Fault: what is left in the pipe is not read after the exit was seen.
TryWaitExitedBare ==
    /\ task.timeout /\ at = "await" /\ child.state = "exited"
    /\ child' = [child EXCEPT !.state = "reaped"]
    /\ result' = Finished(<<>>)
    /\ at' = "judge"
    /\ UNCHANGED <<task, idx, feed, last_output, stdin, stdout, expired, written>>

\* With a timeout: try_wait sees the exit and the pipe is read to its end...
TryWaitExited ==
    /\ task.timeout /\ at = "await" /\ child.state = "exited"
    /\ child' = [child EXCEPT !.state = "reaped"]
    /\ result' = Finished(stdout)
    /\ stdout' = <<>>
    /\ at' = "judge"
    /\ UNCHANGED <<task, idx, feed, last_output, stdin, expired, written>>

\* ...or sees none, and then the clock is looked at.
TryWaitNone ==
    /\ task.timeout /\ at = "await" /\ child.state = "running"
    /\ at' = "clock"
    /\ UNCHANGED <<task, idx, feed, last_output, result, world>>

\* Fault: the deadline is set anew in every round.
SleepPollAlways ==
    /\ at = "clock"
    /\ at' = "await"
    /\ UNCHANGED <<task, idx, feed, last_output, result, world>>

SleepPoll ==
    /\ at = "clock" /\ ~expired
    /\ at' = "await"
    /\ UNCHANGED <<task, idx, feed, last_output, result, world>>

\* Fault: the timed-out child is left running.
TimeOutLeaves ==
    /\ at = "clock" /\ expired
    /\ result' = [state |-> "TimedOut", stdout |-> <<>>]
    /\ at' = "judge"
    /\ UNCHANGED <<task, idx, feed, last_output, world>>

\* Fault: the child is killed and the loop goes on.
TimeOutLoops ==
    /\ at = "clock" /\ expired
    /\ child' = [child EXCEPT !.state = "killed"]
    /\ at' = "await"
    /\ UNCHANGED <<task, idx, feed, last_output, result, stdin, stdout, expired, written>>

\* The child is killed, not waited for, even if it has exited meanwhile.
TimeOut ==
    /\ at = "clock" /\ expired
    /\ child' = [child EXCEPT !.state = "killed"]
    /\ result' = [state |-> "TimedOut", stdout |-> <<>>]
    /\ at' = "judge"
    /\ UNCHANGED <<task, idx, feed, last_output, stdin, stdout, expired, written>>

\* Without a timeout wait_with_output reads until the child's end of the pipe is gone.
ReadOutput ==
    /\ ~task.timeout /\ at = "await" /\ stdout # <<>>
    /\ result' = [result EXCEPT !.stdout = Append(@, Head(stdout))]
    /\ stdout' = Tail(stdout)
    /\ UNCHANGED <<task, at, idx, feed, last_output, child, stdin, expired, written>>

Wait ==
    /\ ~task.timeout /\ at = "await" /\ stdout = <<>> /\ child.state = "exited"
    /\ child' = [child EXCEPT !.state = "reaped"]
    /\ result' = Finished(result.stdout)
    /\ at' = "judge"
    /\ UNCHANGED <<task, idx, feed, last_output, stdin, stdout, expired, written>>

\* A binary's result is the call's; an unsuccessful stage fails the pipeline.
Judge ==
    /\ at = "judge"
    /\ IF task.kind = "Pipeline" /\ result.state = "Completed"
       THEN /\ at' = "stage"
            /\ idx' = idx + 1
            /\ last_output' = result.stdout
            /\ UNCHANGED result
       ELSE /\ at' = "done"
            /\ result' = [result EXCEPT !.state =
                             IF task.kind = "Pipeline" THEN "Failed" ELSE @]
            /\ UNCHANGED <<idx, last_output>>
    /\ UNCHANGED <<task, feed, world>>

------------------------------------------------------------------------------
NextOp == IF child.done < Len(Stage.ops) THEN Stage.ops[child.done + 1] ELSE "exit"

\* A stdin that is not a pipe is the caller's own: reading it gives nothing here.
ChildReads ==
    /\ child.state = "running" /\ NextOp = "read"
    /\ \/ /\ stdin.data # <<>>
          /\ child' = [child EXCEPT !.done = @ + 1, !.got = Append(@, Head(stdin.data))]
          /\ stdin' = [stdin EXCEPT !.data = Tail(@)]
       \/ /\ stdin.data = <<>> /\ ~stdin.open
          /\ child' = [child EXCEPT !.done = @ + 1]
          /\ UNCHANGED stdin
    /\ UNCHANGED <<thread, stdout, expired, written>>

ChildWrites ==
    /\ child.state = "running" /\ NextOp = "write" /\ Len(stdout) < PipeSize
    /\ LET unit == <<idx, Len(written[idx]) + 1>>
       IN  /\ stdout' = Append(stdout, unit)
           /\ written' = [written EXCEPT ![idx] = Append(@, unit)]
    /\ child' = [child EXCEPT !.done = @ + 1]
    /\ UNCHANGED <<thread, stdin, expired>>

ChildExits ==
    /\ child.state = "running" /\ NextOp = "exit"
    /\ child' = [child EXCEPT !.state = "exited"]
    /\ UNCHANGED <<thread, stdin, stdout, expired, written>>

DeadlinePasses ==
    /\ at \in {"feed", "await", "clock"} /\ task.timeout /\ ~expired
    /\ expired' = TRUE
    /\ UNCHANGED <<thread, child, stdin, stdout, written>>

Execute ==
    \/ NoStageLeft \/ Spawn \/ SpawnFails \/ WriteStdin \/ CloseStdin
    \/ TryWaitExited \/ TryWaitNone \/ SleepPoll \/ TimeOut
    \/ ReadOutput \/ Wait \/ Judge

ChildStep == ChildReads \/ ChildWrites \/ ChildExits

Done == at = "done" /\ UNCHANGED vars

Next == Execute \/ ChildStep \/ DeadlinePasses \/ Done

Spec == Init /\ [][Next]_vars

\* The calling thread and the child are scheduled, and time passes.
Fairness == WF_vars(Execute) /\ WF_vars(ChildStep) /\ WF_vars(DeadlinePasses)

FairSpec == Spec /\ Fairness
------------------------------------------------------------------------------
\* The state is well formed: pipes never hold more than PipeSize units, and a
\* process is where the executor thinks it is.
TypeOK ==
    /\ at \in {"stage", "feed", "await", "clock", "judge", "done"}
    /\ idx \in 1 .. Len(task.stages) + 1
    /\ child.state \in {"none", "running", "exited", "killed", "reaped"}
    /\ at \in {"feed", "await", "clock"} => child.state \in {"running", "exited"}
    /\ Len(stdin.data) <= PipeSize /\ Len(stdout) <= PipeSize
    /\ expired => task.timeout

\* Unless it timed out, the result of a stage holds everything the child wrote,
\* once and in order, whichever way the executor waited for it.
OutputComplete ==
    at = "judge" /\ result.state # "TimedOut" => result.stdout = written[idx]

\* In a piping pipeline a stage reads nothing but what the stage before it has
\* written, from the beginning and without a gap.
PipelineFeeds ==
    task.pipe_output /\ idx > 1 /\ at \in {"feed", "await", "clock", "judge"}
        => IsPrefix(child.got, written[idx - 1])

\* When execute_sync returns no child is left running, and none that has ended
\* by itself is left unwaited for; only a killed one is never waited for.
NoChildLeft ==
    at = "done" => child.state \in {"none", "reaped", "killed"}

\* The call returns if every stage's stdin fits the pipe and either a timeout is
\* set or no child hangs: polling, reading and waiting always come to an end.
Returns == <>(at = "done")

\* A pipeline whose stages all end by themselves is executed to its end:
\* "pipe stdout -> stdin between stages" (violated: the stage's whole input is
\* written before its output is read, so a stage that copies more than the pipes
\* hold and the executor wait for each other).
PipelineEnds == task.kind = "Pipeline" => <>(at = "done")

=============================================================================
