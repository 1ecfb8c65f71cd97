----------------------------- MODULE TaskRouting -----------------------------
(***************************************************************************)
(* How a task is built (src/task.rs) and which executor gets it (the       *)
(* registry and the three executors of src/executor.rs).  One thread       *)
(* builds the task and fills the registry; then threads execute the task   *)
(* and shut the registry down.  The search of the registry and its         *)
(* shutdown touch one executor's flag at a time.  What the CPU executor    *)
(* does with a task it accepts is module CpuExecutor.                      *)
(***************************************************************************)
EXTENDS Calls, Sequences

CONSTANTS
    MaxRetries,      \* what max_retries may be set to
    MaxExecutors     \* bound on the executors registered

VARIABLES
    task,         \* the task, or its builder as long as built is FALSE
    built,
    executors,    \* ExecutorRegistry.executors
    cursor,       \* where each thread's loop over the executors is
    outcome,      \* the result of each thread's last execute
    closing       \* history: a shutdown of the registry has begun

routeVars == <<task, built, executors, cursor, outcome, closing>>

NoTask == [kind |-> "None"]

RouteInit ==
    /\ task = NoTask /\ built = FALSE
    /\ executors = <<>>
    /\ cursor = [t \in Threads |-> 0]
    /\ outcome = [t \in Threads |-> "none"]
    /\ closing = FALSE
-----------------------------------------------------------------------------
(* The task *)

\* Task::binary, shader and pipeline: TaskBuilder::new for the kind.
TaskBuilder(kind) ==
    [kind |-> kind, backend |-> "Cpu", priority |-> "Normal", affinity |-> "Any", timeout |-> FALSE,
     max_retries |-> 3, metadata |-> FALSE, args |-> FALSE, env |-> FALSE, stages |-> 0,
     state |-> "None", retry_count |-> 0]

NewTask(t, kind) ==
    /\ task = NoTask
    /\ CallOnce(t)
    /\ task' = TaskBuilder(kind)
    /\ UNCHANGED <<built, executors, cursor, outcome, closing>>

\* Fault: every kind of task takes the stage.
BuilderStepsStageAny(k) ==
    {[k EXCEPT !.backend = b] : b \in {"Cpu", "Gpu", "Remote", "Any"}}
    \cup {[k EXCEPT !.stages = k.stages + 1]}

\* What one method of the builder makes of it: args and env change a binary
\* task only, add_stage a pipeline only.
BuilderSteps(k) ==
    {[k EXCEPT !.backend = b] : b \in {"Cpu", "Gpu", "Remote", "Any"}}
    \cup {[k EXCEPT !.max_retries = n] : n \in MaxRetries}
    \cup {[k EXCEPT !.timeout = TRUE], [k EXCEPT !.metadata = TRUE],
          [k EXCEPT !.priority = "High"], [k EXCEPT !.affinity = "Core"]}
    \cup {[k EXCEPT !.args = (k.kind = "Binary")], [k EXCEPT !.env = (k.kind = "Binary")]}
    \cup {IF k.kind = "Pipeline" THEN [k EXCEPT !.stages = k.stages + 1] ELSE k}

BuildStep(t) ==
    /\ task # NoTask /\ ~built
    /\ CallOnce(t)
    /\ task' \in BuilderSteps(task)
    /\ UNCHANGED <<built, executors, cursor, outcome, closing>>

Build(t) ==
    /\ task # NoTask /\ ~built
    /\ CallOnce(t)
    /\ task' = [task EXCEPT !.state = "Pending", !.retry_count = 0]
    /\ built' = TRUE
    /\ UNCHANGED <<executors, cursor, outcome, closing>>

is_terminal(s) == s \in {"Completed", "Failed", "Cancelled", "TimedOut"}
is_active_task(s) == s \in {"Pending", "Queued", "Running"}

can_retry(k) == k.retry_count < k.max_retries

\* Fault: the last attempt is counted too.
IncrementRetryOnceMore(t) ==
    /\ built /\ Exclusive /\ task.retry_count <= task.max_retries
    /\ CallOnce(t)
    /\ task' = [task EXCEPT !.retry_count = @ + 1]
    /\ UNCHANGED <<built, executors, cursor, outcome, closing>>

\* increment_retry, by a caller that asks can_retry first.
IncrementRetry(t) ==
    /\ built /\ Exclusive /\ can_retry(task)
    /\ CallOnce(t)
    /\ task' = [task EXCEPT !.retry_count = @ + 1]
    /\ UNCHANGED <<built, executors, cursor, outcome, closing>>
-----------------------------------------------------------------------------
(* The executors *)

\* CpuExecutor::new, GpuExecutor::new, and a RemoteExecutor with or without workers.
NewExecutors ==
    {[backend |-> "Cpu", on |-> TRUE, workers |-> 1], [backend |-> "Gpu", on |-> TRUE, workers |-> 0]}
    \cup {[backend |-> "Remote", on |-> FALSE, workers |-> n] : n \in {0, 1}}

Register(t) ==
    /\ Exclusive /\ Len(executors) < MaxExecutors
    /\ ~closing /\ \A u \in Threads : outcome[u] = "none"    \* before it is shared
    /\ CallOnce(t)
    /\ \E e \in NewExecutors : executors' = Append(executors, e)
    /\ UNCHANGED <<task, built, cursor, outcome, closing>>

\* RemoteExecutor::connect, also after a shutdown.
RemoteConnect(t, i) ==
    /\ executors[i].backend = "Remote"
    /\ CallOnce(t)
    /\ executors' = [executors EXCEPT ![i].on = TRUE]
    /\ UNCHANGED <<task, built, cursor, outcome, closing>>

\* The kinds of task an executor takes.
Takes(e) ==
    CASE e.backend = "Cpu" -> {"Binary", "Pipeline"}
      [] e.backend = "Gpu" -> {"Shader"}
      [] e.backend = "Remote" -> {"Binary"}

\* Fault: a CPU executor is not asked whether the task is for a CPU.
can_execute_any(e, k) == k.kind \in Takes(e) /\ e.on /\ (e.backend # "Cpu" => e.workers > 0)

can_execute(e, k) ==
    /\ k.kind \in Takes(e)
    /\ k.backend \in {e.backend, "Any"}
    /\ e.on
    /\ e.backend # "Cpu" => e.workers > 0

\* ExecutorRegistry::execute begins with find_executor.
Execute(t) ==
    /\ built
    /\ Begin(t, "find")
    /\ cursor' = [cursor EXCEPT ![t] = 1]
    /\ outcome' = [outcome EXCEPT ![t] = "none"]
    /\ UNCHANGED <<task, built, executors, closing>>

FindExecutor(t) ==
    /\ pc[t] = "find"
    /\ \/ /\ cursor[t] > Len(executors)
          /\ outcome' = [outcome EXCEPT ![t] = "NotSupported"]
          /\ cursor' = [cursor EXCEPT ![t] = 0]
          /\ Return(t)
       \/ /\ cursor[t] <= Len(executors)
          /\ UNCHANGED outcome
          /\ IF can_execute(executors[cursor[t]], task)
             THEN Go(t, "execute") /\ UNCHANGED cursor
             ELSE Go(t, "find") /\ cursor' = [cursor EXCEPT ![t] = @ + 1]
    /\ UNCHANGED <<task, built, executors, closing>>

\* execute_sync of the executor found; only the CPU executor does anything, and
\* it asks again whether it is running.
ExecuteSync(t) ==
    LET e == executors[cursor[t]] IN
    /\ pc[t] = "execute"
    /\ outcome' = [outcome EXCEPT ![t] =
          IF e.backend = "Cpu" /\ task.kind # "Shader"
          THEN IF e.on THEN "Ran" ELSE "DeviceNotReady"
          ELSE IF e.backend = "Cpu" /\ ~e.on THEN "DeviceNotReady" ELSE "NotSupported"]
    /\ cursor' = [cursor EXCEPT ![t] = 0]
    /\ Return(t)
    /\ UNCHANGED <<task, built, executors, closing>>

RegistryShutdown(t) ==
    /\ Begin(t, "shutdown")
    /\ cursor' = [cursor EXCEPT ![t] = 1]
    /\ closing' = TRUE
    /\ UNCHANGED <<task, built, executors, outcome>>

ExecutorShutdown(t) ==
    /\ pc[t] = "shutdown"
    /\ IF cursor[t] <= Len(executors)
       THEN /\ executors' = [executors EXCEPT ![cursor[t]].on = FALSE]
            /\ cursor' = [cursor EXCEPT ![t] = @ + 1]
            /\ Go(t, "shutdown")
       ELSE cursor' = [cursor EXCEPT ![t] = 0] /\ Return(t) /\ UNCHANGED executors
    /\ UNCHANGED <<task, built, outcome, closing>>

RouteCall(t) ==
    \/ \E kind \in {"Binary", "Shader", "Pipeline"} : NewTask(t, kind)
    \/ BuildStep(t) \/ Build(t) \/ IncrementRetry(t)
    \/ Register(t) \/ Execute(t) \/ RegistryShutdown(t)
    \/ \E i \in DOMAIN executors : RemoteConnect(t, i)

RouteStep(t) == FindExecutor(t) \/ ExecuteSync(t) \/ ExecutorShutdown(t)
-----------------------------------------------------------------------------
(* Properties *)

\* An executor that was found is asked only for a kind of task and a backend
\* that are its own, and a task the registry has a CPU executor for runs unless
\* the registry is being shut down: the flag may change between the search and
\* the execution, but then the task is refused and not lost.
RoutedRight ==
    /\ \A t \in Inside({"execute"}) :
          LET e == executors[cursor[t]] IN
          task.kind \in Takes(e) /\ task.backend \in {e.backend, "Any"}
    /\ \A t \in Threads :
          /\ outcome[t] = "Ran" =>
                /\ task.kind \in {"Binary", "Pipeline"} /\ task.backend \in {"Cpu", "Any"}
                /\ \E i \in DOMAIN executors : executors[i].backend = "Cpu"
          /\ outcome[t] = "DeviceNotReady" => closing
          /\ outcome[t] = "NotSupported" /\ ~closing /\ task.backend = "Cpu" =>
                \/ task.kind = "Shader"
                \/ \A i \in DOMAIN executors : executors[i].backend # "Cpu"

\* A task is retried no more often than it may be, and keeps to its kind: only
\* a pipeline has stages, only a binary task arguments and an environment.
TaskKept ==
    built =>
        /\ task.retry_count <= task.max_retries
        /\ task.kind # "Pipeline" => task.stages = 0
        /\ task.kind # "Binary" => ~task.args /\ ~task.env
        /\ is_active_task(task.state) /\ ~is_terminal(task.state)

==============================================================================
