-------------------------------- MODULE Pool --------------------------------
(***************************************************************************)
(* The execution pool of src/pool.rs with the executor registry and the    *)
(* CPU executor of src/executor.rs it drives.  Callers run submit and      *)
(* submit_async on one shared pool while shutdown turns its parts off one  *)
(* by one; a step is one access to shared state.  What a child process     *)
(* does is the environment's choice (CpuExecutor.tla looks inside), and    *)
(* the scheduler is what TaskPool.tla promises: it accepts or refuses.     *)
(* GPU and remote executors never take a task: no device is ever found and *)
(* no connection is ever made, so only the CPU executor matters.           *)
(***************************************************************************)
EXTENDS Integers, Sequences, FiniteSets

CONSTANTS
    Callers,
    Tasks,           \* what is submitted: [kind, backend, stages]
    max_retries,     \* of the pool's retry_policy
    QueueCapacity,   \* places in all the scheduler's queues together
    MaxSubmits       \* bound: calls that get past the running check

ASSUME PoolAssumption ==
    /\ IsFiniteSet(Callers)
    /\ \A t \in Tasks :
          /\ t.kind \in {"Binary", "Pipeline", "Shader"}
          /\ t.backend \in {"Cpu", "Gpu", "Remote", "Any"}
          /\ t.stages \in Nat /\ (t.kind = "Binary" => t.stages = 1)
    /\ max_retries \in Nat /\ QueueCapacity \in Nat /\ MaxSubmits \in Nat

VARIABLES
    up,               \* the parts whose running flag is set
    tasks_submitted, tasks_completed, tasks_failed, total_retries,
    pending,          \* tasks in the scheduler
    running_tasks,    \* of the CPU executor
    call,             \* each caller's call: where it is and its locals
    async,            \* history: submit_async calls that were counted
    late              \* history: processes a call started after the executor was shut down

counters == <<tasks_submitted, tasks_completed, tasks_failed, total_retries>>
vars == <<up, counters, pending, running_tasks, call, async, late>>

Parts == <<"pool", "scheduler", "cpu", "detector">>
Errors == {"NotSupported", "DeviceNotReady", "UblkDeviceNotFound",
           "InvalidRequest", "IoTimeout"}
is_retriable(e) == e \in {"WouldBlock", "UblkQueueFull", "IoUringSubmitFull",
                          "NoTagsAvailable", "UblkDeviceBusy"}

Idle == [at |-> "idle"]
\* A submit call that executes task t: attempts is its RetryState, stage the
\* pipeline stages done, result what the executor returned last.
Executing(at, t, attempts, stage, result) ==
    [at |-> at, task |-> t, attempts |-> attempts, stage |-> stage, result |-> result]

Goto(c, at) == call' = [call EXCEPT ![c].at = at]
At(place) == {c \in Callers : call[c].at = place}
Counting == At("count") \cup At("count_async")

Init ==
    /\ up = {"pool", "scheduler", "cpu", "detector"}
    /\ tasks_submitted = 0 /\ tasks_completed = 0 /\ tasks_failed = 0
    /\ total_retries = 0
    /\ pending = 0
    /\ running_tasks = 0
    /\ call = [c \in Callers |-> Idle]
    /\ async = 0
    /\ late = [c \in Callers |-> 0]

------------------------------------------------------------------------------
\* submit.  A call that finds the pool stopped returns at once and changes nothing.
Submit(c, t) ==
    /\ call[c] = Idle
    /\ "pool" \in up
    /\ tasks_submitted + Cardinality(Counting) < MaxSubmits
    /\ call' = [call EXCEPT ![c] = Executing("count", t, 0, 0, "none")]
    /\ late' = [late EXCEPT ![c] = 0]
    /\ UNCHANGED <<up, counters, pending, running_tasks, async>>

SubmitCount(c) ==
    /\ call[c].at = "count"
    /\ tasks_submitted' = tasks_submitted + 1
    /\ Goto(c, "find")
    /\ UNCHANGED <<up, tasks_completed, tasks_failed, total_retries, pending,
                   running_tasks, async, late>>

can_execute(t) ==
    /\ t.kind \in {"Binary", "Pipeline"}
    /\ t.backend \in {"Cpu", "Any"}
    /\ "cpu" \in up

FindExecutor(c) ==
    /\ call[c].at = "find"
    /\ call' = [call EXCEPT ![c] =
          IF can_execute(@.task) THEN [@ EXCEPT !.at = "enter"]
          ELSE [@ EXCEPT !.at = "judge", !.result = "NotSupported"]]
    /\ UNCHANGED <<up, counters, pending, running_tasks, async, late>>

\* execute_sync asks again: the executor may have been shut down since it was found.
\* A pipeline without stages completes here.
ExecuteSync(c) ==
    /\ call[c].at = "enter"
    /\ call' = [call EXCEPT ![c] =
          IF "cpu" \notin up
          THEN [@ EXCEPT !.at = "judge", !.result = "DeviceNotReady"]
          ELSE IF @.task.stages = 0
          THEN [@ EXCEPT !.at = "judge", !.result = "Completed"]
          ELSE [@ EXCEPT !.at = "stage", !.stage = 0]]
    /\ UNCHANGED <<up, counters, pending, running_tasks, async, late>>

\* execute_binary, of the task or of its next stage: running_tasks goes up...
ExecuteBinary(c) ==
    /\ call[c].at = "stage"
    /\ running_tasks' = running_tasks + 1
    /\ late' = [late EXCEPT ![c] = @ + IF "cpu" \in up THEN 0 ELSE 1]
    /\ Goto(c, "run")
    /\ UNCHANGED <<up, counters, pending, async>>

\* ...the process ends somehow, or cannot be started...
ProcessEnds(c) ==
    /\ call[c].at = "run"
    /\ \E result \in {"Completed", "Failed", "TimedOut", "UblkDeviceNotFound",
                      "InvalidRequest", "IoTimeout"} :
          call' = [call EXCEPT ![c].at = "leave", ![c].result = result]
    /\ UNCHANGED <<up, counters, pending, running_tasks, async, late>>

\* Fault: an error of run_binary_internal returns before running_tasks goes down.
LeaveBinaryEarly(c) ==
    /\ call[c].at = "leave"
    /\ running_tasks' = running_tasks - IF call[c].result \in Errors THEN 0 ELSE 1
    /\ Goto(c, "judge")
    /\ UNCHANGED <<up, counters, pending, async, late>>

\* ...and running_tasks goes down whatever happened.  The stages of a pipeline
\* follow one another while they complete; a stage that timed out fails it.
LeaveBinary(c) ==
    /\ call[c].at = "leave"
    /\ running_tasks' = running_tasks - 1
    /\ call' = [call EXCEPT ![c] =
          IF @.task.kind = "Binary" \/ @.result \in Errors
          THEN [@ EXCEPT !.at = "judge"]
          ELSE IF @.result # "Completed"
          THEN [@ EXCEPT !.at = "judge", !.result = "Failed"]
          ELSE [@ EXCEPT !.stage = call[c].stage + 1,
                         !.at = IF call[c].stage + 1 < call[c].task.stages
                                THEN "stage" ELSE "judge"]]
    /\ UNCHANGED <<up, counters, pending, async, late>>

\* Fault: the bound is compared with <=.
RetriesOnceMore(k) ==
    /\ k.result # "Completed"
    /\ k.result \in Errors => is_retriable(k.result)
    /\ k.attempts <= max_retries

\* An unsuccessful result is retried, an error only if it is retriable.
Retries(k) ==
    /\ k.result # "Completed"
    /\ k.result \in Errors => is_retriable(k.result)
    /\ k.attempts < max_retries

Complete(c) ==
    /\ call[c].at = "judge"
    /\ call[c].result = "Completed"
    /\ tasks_completed' = tasks_completed + 1
    /\ call' = [call EXCEPT ![c] = Idle]
    /\ UNCHANGED <<up, tasks_submitted, tasks_failed, total_retries, pending,
                   running_tasks, async, late>>

\* Fault: the retry calls the executor it has found before.
RetrySameExecutor(c) ==
    /\ call[c].at = "judge"
    /\ Retries(call[c])
    /\ total_retries' = total_retries + 1
    /\ call' = [call EXCEPT ![c].attempts = @ + 1, ![c].stage = 0, ![c].at = "stage"]
    /\ UNCHANGED <<up, tasks_submitted, tasks_completed, tasks_failed, pending,
                   running_tasks, async, late>>

\* Fault: the retry state starts anew, so every attempt looks like the first.
RetryForgets(c) ==
    /\ call[c].at = "judge"
    /\ Retries(call[c])
    /\ Goto(c, "sleep")
    /\ UNCHANGED <<up, counters, pending, running_tasks, async, late>>

Retry(c) ==
    /\ call[c].at = "judge"
    /\ Retries(call[c])
    /\ total_retries' = total_retries + 1
    /\ call' = [call EXCEPT ![c].attempts = @ + 1, ![c].at = "sleep"]
    /\ UNCHANGED <<up, tasks_submitted, tasks_completed, tasks_failed, pending,
                   running_tasks, async, late>>

Wake(c) ==
    /\ call[c].at = "sleep"
    /\ Goto(c, "find")
    /\ UNCHANGED <<up, counters, pending, running_tasks, async, late>>

\* Fault: only a result counts as a failed task, an error does not.
FailResultOnly(c) ==
    /\ call[c].at = "judge"
    /\ call[c].result # "Completed" /\ ~Retries(call[c])
    /\ tasks_failed' = tasks_failed + IF call[c].result \in Errors THEN 0 ELSE 1
    /\ call' = [call EXCEPT ![c] = Idle]
    /\ UNCHANGED <<up, tasks_submitted, tasks_completed, total_retries, pending,
                   running_tasks, async, late>>

Fail(c) ==
    /\ call[c].at = "judge"
    /\ call[c].result # "Completed" /\ ~Retries(call[c])
    /\ tasks_failed' = tasks_failed + 1
    /\ call' = [call EXCEPT ![c] = Idle]
    /\ UNCHANGED <<up, tasks_submitted, tasks_completed, total_retries, pending,
                   running_tasks, async, late>>

------------------------------------------------------------------------------
\* submit_async.  The task is counted before the scheduler may refuse it.
SubmitAsync(c) ==
    /\ call[c] = Idle
    /\ "pool" \in up
    /\ tasks_submitted + Cardinality(Counting) < MaxSubmits
    /\ call' = [call EXCEPT ![c] = [at |-> "count_async"]]
    /\ UNCHANGED <<up, counters, pending, running_tasks, async, late>>

AsyncCount(c) ==
    /\ call[c].at = "count_async"
    /\ tasks_submitted' = tasks_submitted + 1
    /\ async' = async + 1
    /\ call' = [call EXCEPT ![c] = [at |-> "enqueue"]]
    /\ UNCHANGED <<up, tasks_completed, tasks_failed, total_retries, pending,
                   running_tasks, late>>

\* Scheduler::submit looks at its own running flag first.
AsyncEnters(c) ==
    /\ call[c].at = "enqueue"
    /\ call' = [call EXCEPT ![c] = IF "scheduler" \in up THEN [at |-> "push"] ELSE Idle]
    /\ UNCHANGED <<up, counters, pending, running_tasks, async, late>>

\* Fault: the scheduler takes the task without looking for space.
AsyncAcceptedUnchecked(c) ==
    /\ call[c].at = "push"
    /\ pending' = pending + 1
    /\ call' = [call EXCEPT ![c] = Idle]
    /\ UNCHANGED <<up, counters, running_tasks, async, late>>

AsyncAccepted(c) ==
    /\ call[c].at = "push"
    /\ pending < QueueCapacity
    /\ pending' = pending + 1
    /\ call' = [call EXCEPT ![c] = Idle]
    /\ UNCHANGED <<up, counters, running_tasks, async, late>>

AsyncRefused(c) ==
    /\ call[c].at = "push"
    /\ call' = [call EXCEPT ![c] = Idle]
    /\ UNCHANGED <<up, counters, pending, running_tasks, async, late>>

\* shutdown turns the parts off in order; calls in flight go on.
Shutdown ==
    /\ \E i \in DOMAIN Parts :
          /\ Parts[i] \in up
          /\ \A j \in 1 .. i - 1 : Parts[j] \notin up
          /\ up' = up \ {Parts[i]}
    /\ UNCHANGED <<counters, pending, running_tasks, call, async, late>>

SubmitStep(c) ==
    \/ SubmitCount(c) \/ FindExecutor(c) \/ ExecuteSync(c) \/ ExecuteBinary(c)
    \/ ProcessEnds(c) \/ LeaveBinary(c) \/ Complete(c) \/ Retry(c) \/ Wake(c)
    \/ Fail(c)

AsyncStep(c) == AsyncCount(c) \/ AsyncEnters(c) \/ AsyncAccepted(c) \/ AsyncRefused(c)

Next ==
    \/ Shutdown
    \/ \E c \in Callers :
          \/ \E t \in Tasks : Submit(c, t)
          \/ SubmitAsync(c)
          \/ SubmitStep(c)
          \/ AsyncStep(c)

Spec == Init /\ [][Next]_vars

\* Threads are scheduled, sleeps end and processes end or time out.
Fairness == \A c \in Callers : WF_vars(SubmitStep(c)) /\ WF_vars(AsyncStep(c))

FairSpec == Spec /\ Fairness

------------------------------------------------------------------------------
InFlight == {c \in Callers : call[c].at \in {"find", "enter", "stage", "run",
                                             "leave", "judge", "sleep"}}

\* The state is well formed; in particular the scheduler never holds more tasks
\* than its queues have places.
TypeOK ==
    /\ up \subseteq {"pool", "scheduler", "cpu", "detector"}
    /\ tasks_submitted \in 0 .. MaxSubmits
    /\ {tasks_completed, tasks_failed, total_retries, running_tasks, async} \subseteq Nat
    /\ pending \in 0 .. QueueCapacity
    /\ late \in [Callers -> Nat]
    /\ \A c \in Callers :
          \/ call[c] \in [at : {"idle", "count_async", "enqueue", "push"}]
          \/ /\ c \in InFlight \cup At("count")
             /\ call[c].task \in Tasks
             /\ call[c].attempts \in Nat
             /\ call[c].stage \in 0 .. call[c].task.stages

\* The statistics account for every task exactly once: what was submitted has
\* completed, has failed, is being executed by the call that submitted it, or
\* went to the scheduler, on every return path of submit and across a shutdown.
Accounting ==
    tasks_submitted = tasks_completed + tasks_failed + async + Cardinality(InFlight)

\* running_tasks is the number of calls inside execute_binary: no error path,
\* pipeline stage or concurrent call leaves the counter too high or too low.
RunningTasksExact ==
    running_tasks = Cardinality(At("run") \cup At("leave"))

\* All retries together stay within what the policy grants the tasks executed
\* so far: a task is executed at most max_retries + 1 times.
RetriesBounded ==
    total_retries <= max_retries * (tasks_submitted - async)

\* After the executor is shut down a call starts no process but those of the
\* execution it had already entered: the stages left of one pipeline, and never
\* a retry, which looks for a running executor again.
LateRunsBounded ==
    \A c \in InFlight : late[c] <= call[c].task.stages

\* Every call of submit and submit_async returns: retries run out, and nothing
\* waits for another call or for a shutdown.
CallsReturn ==
    \A c \in Callers : call[c] # Idle ~> call[c] = Idle

=============================================================================
