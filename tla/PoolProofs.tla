----------------------------- MODULE PoolProofs -----------------------------
(***************************************************************************)
(* Proofs of the safety properties of Pool, for any finite set of callers, *)
(* any tasks and any number of retries.  The inductive invariant adds what *)
(* the executor has started late at each place of a call: nothing while it *)
(* is up, and afterwards no more than the stages it has gone through since *)
(* it entered.                                                             *)
(***************************************************************************)
EXTENDS Pool, FiniteSetTheorems, TLAPS

Flying == {"find", "enter", "stage", "run", "leave", "judge", "sleep"}
Results == Errors \cup {"none", "Completed", "Failed", "TimedOut"}

\* The calls of submit_async (and none), and those of submit.
AsyncCalls == [at : {"idle", "count_async", "enqueue", "push"}]
SubmitCalls == [at : Flying \cup {"count"}, task : Tasks, attempts : Nat, stage : Nat, result : Results]
Calls == AsyncCalls \cup SubmitCalls

\* n processes were started late by call k.
LateOK(k, n) ==
    k \in SubmitCalls =>
        /\ k.stage <= k.task.stages
        /\ n <= k.task.stages
        /\ k.at = "stage" => n <= k.stage /\ k.stage < k.task.stages
        /\ k.at \in {"run", "leave"} => n <= k.stage + 1 /\ k.stage < k.task.stages

PoolInv ==
    /\ up \subseteq {"pool", "scheduler", "cpu", "detector"}
    /\ tasks_submitted \in Nat /\ tasks_completed \in Nat /\ tasks_failed \in Nat
    /\ total_retries \in Nat /\ running_tasks \in Nat /\ async \in Nat
    /\ pending \in 0 .. QueueCapacity
    /\ late \in [Callers -> Nat]
    /\ call \in [Callers -> Calls]
    /\ tasks_submitted + Cardinality(Counting) <= MaxSubmits
    /\ Accounting
    /\ RunningTasksExact
    /\ "cpu" \in up => \A c \in Callers : late[c] = 0
    /\ \A c \in Callers : LateOK(call[c], late[c])

-----------------------------------------------------------------------------
(* Counting calls *)

\* Two sets that differ at most in c differ in size by what c makes of them.
LEMMA Recount ==
  ASSUME NEW S, IsFiniteSet(S), NEW T, NEW c, T \ {c} = S \ {c}
  PROVE  /\ IsFiniteSet(T) /\ Cardinality(S) \in Nat /\ Cardinality(T) \in Nat
         /\ Cardinality(T) + (IF c \in S THEN 1 ELSE 0) = Cardinality(S) + (IF c \in T THEN 1 ELSE 0)
<1> DEFINE R == S \ {c}
<1>1. IsFiniteSet(R) /\ Cardinality(R) \in Nat /\ c \notin R
  BY FS_RemoveElement, FS_CardinalityType
<1>2. S = (IF c \in S THEN R \cup {c} ELSE R) /\ T = (IF c \in T THEN R \cup {c} ELSE R)
  OBVIOUS
<1>3. IsFiniteSet(R \cup {c}) /\ Cardinality(R \cup {c}) = Cardinality(R) + 1
  BY <1>1, FS_AddElement
<1> HIDE DEF R
<1> QED
  BY <1>1, <1>2, <1>3

\* The calls at some places, and those executing a task, are finitely many.
LEMMA FiniteCalls ==
  /\ IsFiniteSet(InFlight) /\ IsFiniteSet(Counting) /\ IsFiniteSet(At("run") \cup At("leave"))
  /\ Cardinality(InFlight) \in Nat /\ Cardinality(Counting) \in Nat
  /\ Cardinality(At("run") \cup At("leave")) \in Nat
<1>1. InFlight \subseteq Callers /\ Counting \subseteq Callers /\ (At("run") \cup At("leave")) \subseteq Callers
  BY DEF InFlight, Counting, At
<1> QED
  BY <1>1, PoolAssumption, FS_Subset, FS_CardinalityType

\* How the three counts change when call c becomes k.
LEMMA CountsAfter ==
  ASSUME call \in [Callers -> Calls], NEW c \in Callers, NEW k \in Calls, call' = [call EXCEPT ![c] = k]
  PROVE  /\ Cardinality(InFlight)' + (IF call[c].at \in Flying THEN 1 ELSE 0)
              = Cardinality(InFlight) + (IF k.at \in Flying THEN 1 ELSE 0)
         /\ Cardinality(Counting)' + (IF call[c].at \in {"count", "count_async"} THEN 1 ELSE 0)
              = Cardinality(Counting) + (IF k.at \in {"count", "count_async"} THEN 1 ELSE 0)
         /\ Cardinality(At("run") \cup At("leave"))' + (IF call[c].at \in {"run", "leave"} THEN 1 ELSE 0)
              = Cardinality(At("run") \cup At("leave")) + (IF k.at \in {"run", "leave"} THEN 1 ELSE 0)
         /\ Cardinality(InFlight)' \in Nat /\ Cardinality(Counting)' \in Nat
         /\ Cardinality(At("run") \cup At("leave"))' \in Nat
<1>1. call'[c] = k /\ \A d \in Callers : d # c => call'[d] = call[d]
  OBVIOUS
<1>2. /\ InFlight' \ {c} = InFlight \ {c}
      /\ c \in InFlight <=> call[c].at \in Flying
      /\ c \in InFlight' <=> k.at \in Flying
  BY <1>1 DEF InFlight, Flying
<1>3. /\ Counting' \ {c} = Counting \ {c}
      /\ c \in Counting <=> call[c].at \in {"count", "count_async"}
      /\ c \in Counting' <=> k.at \in {"count", "count_async"}
  BY <1>1 DEF Counting, At
<1> DEFINE inside == At("run") \cup At("leave")
<1>4. /\ inside' \ {c} = inside \ {c}
      /\ c \in inside <=> call[c].at \in {"run", "leave"}
      /\ c \in inside' <=> k.at \in {"run", "leave"}
  BY <1>1 DEF At
<1>5. IsFiniteSet(InFlight) /\ IsFiniteSet(Counting) /\ IsFiniteSet(inside)
  BY FiniteCalls
<1> HIDE DEF inside
<1>6. /\ Cardinality(InFlight') \in Nat
      /\ Cardinality(InFlight') + (IF c \in InFlight THEN 1 ELSE 0) = Cardinality(InFlight) + (IF c \in InFlight' THEN 1 ELSE 0)
  BY <1>2, <1>5, Recount
<1>7. /\ Cardinality(Counting') \in Nat
      /\ Cardinality(Counting') + (IF c \in Counting THEN 1 ELSE 0) = Cardinality(Counting) + (IF c \in Counting' THEN 1 ELSE 0)
  BY <1>3, <1>5, Recount
<1>8. /\ Cardinality(inside') \in Nat
      /\ Cardinality(inside') + (IF c \in inside THEN 1 ELSE 0) = Cardinality(inside) + (IF c \in inside' THEN 1 ELSE 0)
  BY <1>4, <1>5, Recount
<1> QED
  BY <1>2, <1>3, <1>4, <1>6, <1>7, <1>8, Zenon DEF inside

-----------------------------------------------------------------------------
(* Steps of one caller *)

\* A step that takes call c to k keeps the invariant if the counters follow the
\* places c leaves and reaches, and k has started no more late processes than it may.
LEMMA StepKeepsInv ==
  ASSUME PoolInv, NEW c \in Callers, NEW k \in Calls, NEW n \in Nat,
         call' = [call EXCEPT ![c] = k], late' = [late EXCEPT ![c] = n], up' = up,
         tasks_submitted' \in Nat, tasks_completed' \in Nat, tasks_failed' \in Nat,
         total_retries' \in Nat, running_tasks' \in Int, async' \in Nat,
         pending' \in 0 .. QueueCapacity,
         tasks_submitted' + (IF k.at \in {"count", "count_async"} THEN 1 ELSE 0)
            + Cardinality(Counting)
            <= MaxSubmits + (IF call[c].at \in {"count", "count_async"} THEN 1 ELSE 0),
         tasks_submitted' + tasks_completed + tasks_failed + async
            + (IF call[c].at \in Flying THEN 1 ELSE 0)
            = tasks_submitted + tasks_completed' + tasks_failed' + async'
                + (IF k.at \in Flying THEN 1 ELSE 0),
         running_tasks' + (IF call[c].at \in {"run", "leave"} THEN 1 ELSE 0)
            = running_tasks + (IF k.at \in {"run", "leave"} THEN 1 ELSE 0),
         "cpu" \in up => n = 0,
         LateOK(k, n)
  PROVE  PoolInv'
<1>1. call \in [Callers -> Calls] /\ late \in [Callers -> Nat]
  BY DEF PoolInv
<1>2. call' \in [Callers -> Calls] /\ late' \in [Callers -> Nat]
  BY <1>1
<1>3. MaxSubmits \in Nat
  BY PoolAssumption
<1>4. tasks_submitted' + Cardinality(Counting)' <= MaxSubmits
  <2>1. Cardinality(Counting)' + (IF call[c].at \in {"count", "count_async"} THEN 1 ELSE 0)
          = Cardinality(Counting) + (IF k.at \in {"count", "count_async"} THEN 1 ELSE 0)
        /\ Cardinality(Counting)' \in Nat /\ Cardinality(Counting) \in Nat
    BY <1>1, CountsAfter, FiniteCalls, Zenon
  <2> QED
    BY <1>3, <2>1
<1>5. Accounting'
  <2>1. Cardinality(InFlight)' + (IF call[c].at \in Flying THEN 1 ELSE 0)
          = Cardinality(InFlight) + (IF k.at \in Flying THEN 1 ELSE 0)
        /\ Cardinality(InFlight)' \in Nat /\ Cardinality(InFlight) \in Nat
    BY <1>1, CountsAfter, FiniteCalls, Zenon
  <2>2. tasks_submitted = tasks_completed + tasks_failed + async + Cardinality(InFlight)
    BY DEF PoolInv, Accounting
  <2>3. /\ tasks_submitted \in Nat /\ tasks_completed \in Nat /\ tasks_failed \in Nat /\ async \in Nat
    BY DEF PoolInv
  <2>4. tasks_submitted' = tasks_completed' + tasks_failed' + async' + Cardinality(InFlight)'
    BY <2>1, <2>2, <2>3
  <2> QED
    BY <2>4 DEF Accounting
<1>6. RunningTasksExact' /\ running_tasks' \in Nat
  <2>1. Cardinality(At("run") \cup At("leave"))' + (IF call[c].at \in {"run", "leave"} THEN 1 ELSE 0)
          = Cardinality(At("run") \cup At("leave")) + (IF k.at \in {"run", "leave"} THEN 1 ELSE 0)
        /\ Cardinality(At("run") \cup At("leave"))' \in Nat /\ Cardinality(At("run") \cup At("leave")) \in Nat
    BY <1>1, CountsAfter, FiniteCalls, Zenon
  <2>2. running_tasks = Cardinality(At("run") \cup At("leave")) /\ running_tasks \in Nat
    BY DEF PoolInv, RunningTasksExact
  <2>3. running_tasks' = Cardinality(At("run") \cup At("leave"))'
    BY <2>1, <2>2
  <2> QED
    BY <2>1, <2>3 DEF RunningTasksExact
<1>7. "cpu" \in up' => \A d \in Callers : late'[d] = 0
  BY <1>1 DEF PoolInv
<1>8. \A d \in Callers : LateOK(call'[d], late'[d])
  BY <1>1, Zenon DEF PoolInv
<1>9. up' \subseteq {"pool", "scheduler", "cpu", "detector"}
  BY DEF PoolInv
<1> QED
  BY <1>2, <1>4, <1>5, <1>6, <1>7, <1>8, <1>9, Zenon DEF PoolInv, LateOK, Calls, SubmitCalls, AsyncCalls

\* A call that is in submit has a task of the pool's tasks and what it did to it.
LEMMA SubmitCallFacts ==
  ASSUME PoolInv, NEW c \in Callers, call[c].at \in Flying \cup {"count"}
  PROVE  /\ call[c] \in SubmitCalls /\ call[c] \in Calls /\ call[c].task \in Tasks
         /\ call[c].attempts \in Nat /\ call[c].stage \in Nat /\ call[c].result \in Results
         /\ call[c].task.stages \in Nat /\ (call[c].task.kind = "Binary" => call[c].task.stages = 1)
         /\ LateOK(call[c], late[c]) /\ late[c] \in Nat
         /\ call[c].stage <= call[c].task.stages /\ late[c] <= call[c].task.stages
<1>1. call[c] \in Calls /\ LateOK(call[c], late[c]) /\ late[c] \in Nat
  BY DEF PoolInv
<1>2. call[c] \notin AsyncCalls
  BY DEF AsyncCalls, Flying
<1>3. call[c] \in SubmitCalls
  BY <1>1, <1>2 DEF Calls
<1>4. /\ call[c].task \in Tasks /\ call[c].attempts \in Nat /\ call[c].stage \in Nat
      /\ call[c].result \in Results
  BY <1>3 DEF SubmitCalls
<1>5. call[c].task.stages \in Nat /\ (call[c].task.kind = "Binary" => call[c].task.stages = 1)
  BY <1>4, PoolAssumption
<1> QED
  BY <1>1, <1>3, <1>4, <1>5 DEF LateOK

\* A call of submit with a number and its place replaced is one.
LEMMA AttemptsKeepCalls ==
  ASSUME NEW k \in SubmitCalls, NEW v \in Nat, NEW p \in Flying, NEW q,
         q = [k EXCEPT !.attempts = v, !.at = p]
  PROVE  q \in SubmitCalls
<1>1. p \in Flying \cup {"count"}
  OBVIOUS
<1> QED
  BY <1>1 DEF SubmitCalls

\* Likewise for the stage.
LEMMA StageKeepCalls ==
  ASSUME NEW k \in SubmitCalls, NEW v \in Nat, NEW p \in Flying, NEW q,
         q = [k EXCEPT !.stage = v, !.at = p]
  PROVE  q \in SubmitCalls
<1>1. p \in Flying \cup {"count"}
  OBVIOUS
<1> QED
  BY <1>1 DEF SubmitCalls

\* The counters are numbers, and a place is left for every call about to count its task.
LEMMA Numbers ==
  ASSUME PoolInv
  PROVE  /\ tasks_submitted \in Nat /\ tasks_completed \in Nat /\ tasks_failed \in Nat
         /\ total_retries \in Nat /\ running_tasks \in Nat /\ async \in Nat
         /\ pending \in 0 .. QueueCapacity /\ Cardinality(Counting) \in Nat
         /\ MaxSubmits \in Nat /\ QueueCapacity \in Nat
         /\ tasks_submitted + Cardinality(Counting) <= MaxSubmits
         /\ \A c \in Callers : late[c] \in Nat /\ call[c] \in Calls
                               /\ late = [late EXCEPT ![c] = late[c]]
                               /\ ("cpu" \in up => late[c] = 0)
  BY FiniteCalls, PoolAssumption DEF PoolInv

\* A step between places of the same kind.
LEMMA MoveKeepsInv ==
  ASSUME PoolInv, NEW c \in Callers, NEW k \in Calls,
         call' = [call EXCEPT ![c] = k],
         UNCHANGED <<up, tasks_submitted, tasks_completed, tasks_failed, running_tasks, async, late>>,
         total_retries' \in Nat, pending' \in 0 .. QueueCapacity,
         call[c].at \in Flying <=> k.at \in Flying,
         call[c].at \in {"run", "leave"} <=> k.at \in {"run", "leave"},
         call[c].at \in {"count", "count_async"} <=> k.at \in {"count", "count_async"},
         LateOK(k, late[c])
  PROVE  PoolInv'
<1> DEFINE n == late[c]
<1>1. n \in Nat /\ late' = [late EXCEPT ![c] = n] /\ ("cpu" \in up => n = 0) /\ LateOK(k, n)
  BY Numbers
<1> HIDE DEF n
<1>2. tasks_submitted' + (IF k.at \in {"count", "count_async"} THEN 1 ELSE 0) + Cardinality(Counting)
        <= MaxSubmits + (IF call[c].at \in {"count", "count_async"} THEN 1 ELSE 0)
  BY Numbers
<1>3. tasks_submitted' + tasks_completed + tasks_failed + async + (IF call[c].at \in Flying THEN 1 ELSE 0)
        = tasks_submitted + tasks_completed' + tasks_failed' + async' + (IF k.at \in Flying THEN 1 ELSE 0)
  OBVIOUS
<1>4. running_tasks' + (IF call[c].at \in {"run", "leave"} THEN 1 ELSE 0)
        = running_tasks + (IF k.at \in {"run", "leave"} THEN 1 ELSE 0)
  OBVIOUS
<1>5. /\ tasks_submitted' \in Nat /\ tasks_completed' \in Nat /\ tasks_failed' \in Nat
      /\ running_tasks' \in Int /\ async' \in Nat
  BY Numbers
<1> QED
  BY <1>1, <1>2, <1>3, <1>4, <1>5, StepKeepsInv

\* Entering submit and submit_async.
LEMMA CallsKeepInv ==
  ASSUME PoolInv, NEW c \in Callers, (\E t \in Tasks : Submit(c, t)) \/ SubmitAsync(c)
  PROVE  PoolInv'
<1>1. PICK k \in Calls, n \in Nat :
         /\ call' = [call EXCEPT ![c] = k] /\ late' = [late EXCEPT ![c] = n]
         /\ k.at \in {"count", "count_async"}
         /\ LateOK(k, n) /\ ("cpu" \in up => n = 0)
  <2>1. CASE SubmitAsync(c)
    <3> DEFINE k == [at |-> "count_async"]
    <3>1. k \in Calls /\ k \notin SubmitCalls /\ k.at = "count_async"
      BY DEF Calls, AsyncCalls, SubmitCalls, Flying
    <3>2. call' = [call EXCEPT ![c] = k] /\ late' = late
      BY <2>1 DEF SubmitAsync
    <3>3. LateOK(k, late[c])
      BY <3>1 DEF LateOK
    <3> HIDE DEF k
    <3> QED
      BY <3>1, <3>2, <3>3, Numbers
  <2>2. ASSUME NEW t \in Tasks, Submit(c, t)
        PROVE  \E k \in Calls, n \in Nat :
                  /\ call' = [call EXCEPT ![c] = k] /\ late' = [late EXCEPT ![c] = n]
                  /\ k.at \in {"count", "count_async"}
                  /\ LateOK(k, n) /\ ("cpu" \in up => n = 0)
    <3> DEFINE k == Executing("count", t, 0, 0, "none")
    <3>1. k \in SubmitCalls /\ k.at = "count" /\ k.stage = 0 /\ k.task = t
      BY DEF Executing, SubmitCalls, Results
    <3>2. call' = [call EXCEPT ![c] = k] /\ late' = [late EXCEPT ![c] = 0]
      BY <2>2 DEF Submit
    <3>3. LateOK(k, 0) /\ k \in Calls
      BY <3>1, PoolAssumption DEF LateOK, Calls
    <3>4. 0 \in Nat
      OBVIOUS
    <3> HIDE DEF k
    <3> QED
      BY <3>1, <3>2, <3>3, <3>4, Zenon
  <2> QED
    BY <2>1, <2>2
<1>2. /\ tasks_submitted + Cardinality(Counting) < MaxSubmits /\ call[c].at = "idle"
      /\ UNCHANGED <<up, tasks_submitted, tasks_completed, tasks_failed, total_retries, pending,
                     running_tasks, async>>
  BY DEF Submit, SubmitAsync, counters, Idle
<1>3. tasks_submitted' + (IF k.at \in {"count", "count_async"} THEN 1 ELSE 0) + Cardinality(Counting)
        <= MaxSubmits + (IF call[c].at \in {"count", "count_async"} THEN 1 ELSE 0)
  BY <1>1, <1>2, Numbers
<1>4. tasks_submitted' + tasks_completed + tasks_failed + async + (IF call[c].at \in Flying THEN 1 ELSE 0)
        = tasks_submitted + tasks_completed' + tasks_failed' + async' + (IF k.at \in Flying THEN 1 ELSE 0)
  BY <1>1, <1>2 DEF Flying
<1>5. running_tasks' + (IF call[c].at \in {"run", "leave"} THEN 1 ELSE 0)
        = running_tasks + (IF k.at \in {"run", "leave"} THEN 1 ELSE 0)
  BY <1>1, <1>2
<1>6. /\ tasks_submitted' \in Nat /\ tasks_completed' \in Nat /\ tasks_failed' \in Nat
      /\ total_retries' \in Nat /\ running_tasks' \in Int /\ async' \in Nat /\ pending' \in 0 .. QueueCapacity
  BY <1>2, Numbers
<1> QED
  BY <1>1, <1>2, <1>3, <1>4, <1>5, <1>6, StepKeepsInv

\* Counting the task.
LEMMA CountKeepsInv ==
  ASSUME PoolInv, NEW c \in Callers, SubmitCount(c) \/ AsyncCount(c)
  PROVE  PoolInv'
<1> DEFINE n == late[c]
<1>1. n \in Nat /\ ("cpu" \in up => n = 0) /\ late' = [late EXCEPT ![c] = n]
  BY Numbers DEF SubmitCount, AsyncCount
<1>2. /\ tasks_submitted' = tasks_submitted + 1
      /\ UNCHANGED <<up, tasks_completed, tasks_failed, total_retries, pending, running_tasks>>
  BY DEF SubmitCount, AsyncCount
<1>3. CASE SubmitCount(c)
  <2> DEFINE k == [call[c] EXCEPT !.at = "find"]
  <2>1. call[c].at = "count" /\ call' = [call EXCEPT ![c] = k] /\ async' = async
    BY <1>3 DEF SubmitCount, Goto
  <2>2. k \in SubmitCalls /\ k.at = "find" /\ k.stage = call[c].stage /\ k.task = call[c].task
    BY <2>1, SubmitCallFacts DEF SubmitCalls, Flying
  <2>3. k \in Calls /\ LateOK(k, n)
    BY <2>1, <2>2, SubmitCallFacts DEF LateOK, Calls
  <2> HIDE DEF k, n
  <2>4. tasks_submitted' + (IF k.at \in {"count", "count_async"} THEN 1 ELSE 0) + Cardinality(Counting)
          <= MaxSubmits + (IF call[c].at \in {"count", "count_async"} THEN 1 ELSE 0)
    BY <1>2, <2>1, <2>2, Numbers
  <2>5. tasks_submitted' + tasks_completed + tasks_failed + async + (IF call[c].at \in Flying THEN 1 ELSE 0)
          = tasks_submitted + tasks_completed' + tasks_failed' + async' + (IF k.at \in Flying THEN 1 ELSE 0)
    BY <1>2, <2>1, <2>2, Numbers DEF Flying
  <2>6. running_tasks' + (IF call[c].at \in {"run", "leave"} THEN 1 ELSE 0)
          = running_tasks + (IF k.at \in {"run", "leave"} THEN 1 ELSE 0)
    BY <1>2, <2>1, <2>2
  <2>7. /\ tasks_submitted' \in Nat /\ tasks_completed' \in Nat /\ tasks_failed' \in Nat
        /\ total_retries' \in Nat /\ running_tasks' \in Int /\ async' \in Nat /\ pending' \in 0 .. QueueCapacity
    BY <1>2, <2>1, Numbers
  <2> QED
    BY <1>1, <1>2, <2>1, <2>3, <2>4, <2>5, <2>6, <2>7, StepKeepsInv
<1>4. CASE AsyncCount(c)
  <2> DEFINE k == [at |-> "enqueue"]
  <2>1. call[c].at = "count_async" /\ call' = [call EXCEPT ![c] = k] /\ async' = async + 1
    BY <1>4 DEF AsyncCount
  <2>2. k \in Calls /\ k \notin SubmitCalls /\ k.at = "enqueue"
    BY DEF Calls, AsyncCalls, SubmitCalls, Flying
  <2>3. LateOK(k, n)
    BY <2>2 DEF LateOK
  <2> HIDE DEF k, n
  <2>4. tasks_submitted' + (IF k.at \in {"count", "count_async"} THEN 1 ELSE 0) + Cardinality(Counting)
          <= MaxSubmits + (IF call[c].at \in {"count", "count_async"} THEN 1 ELSE 0)
    BY <1>2, <2>1, <2>2, Numbers
  <2>5. tasks_submitted' + tasks_completed + tasks_failed + async + (IF call[c].at \in Flying THEN 1 ELSE 0)
          = tasks_submitted + tasks_completed' + tasks_failed' + async' + (IF k.at \in Flying THEN 1 ELSE 0)
    BY <1>2, <2>1, <2>2, Numbers DEF Flying
  <2>6. running_tasks' + (IF call[c].at \in {"run", "leave"} THEN 1 ELSE 0)
          = running_tasks + (IF k.at \in {"run", "leave"} THEN 1 ELSE 0)
    BY <1>2, <2>1, <2>2
  <2>7. /\ tasks_submitted' \in Nat /\ tasks_completed' \in Nat /\ tasks_failed' \in Nat
        /\ total_retries' \in Nat /\ running_tasks' \in Int /\ async' \in Nat /\ pending' \in 0 .. QueueCapacity
    BY <1>2, <2>1, Numbers
  <2> QED
    BY <1>1, <1>2, <2>1, <2>2, <2>3, <2>4, <2>5, <2>6, <2>7, StepKeepsInv
<1> QED
  BY <1>3, <1>4

\* Looking for an executor, entering it, and the end of a process.
LEMMA ExecutionKeepsInv ==
  ASSUME PoolInv, NEW c \in Callers, FindExecutor(c) \/ ExecuteSync(c) \/ ProcessEnds(c)
  PROVE  PoolInv'
<1>1. /\ UNCHANGED <<up, tasks_submitted, tasks_completed, tasks_failed, total_retries, pending,
                     running_tasks, async, late>>
      /\ call[c].at \in {"find", "enter", "run"}
  BY DEF FindExecutor, ExecuteSync, ProcessEnds, counters
<1>2. /\ call[c] \in SubmitCalls /\ call[c].task.stages \in Nat /\ call[c].stage \in Nat
      /\ call[c].stage <= call[c].task.stages /\ late[c] <= call[c].task.stages /\ late[c] \in Nat
      /\ LateOK(call[c], late[c])
  BY <1>1, SubmitCallFacts DEF Flying
<1>3. ASSUME NEW k \in SubmitCalls, call' = [call EXCEPT ![c] = k], LateOK(k, late[c]),
             k.at \in Flying, call[c].at \in {"run", "leave"} <=> k.at \in {"run", "leave"}
      PROVE  PoolInv'
  <2>1. k \in Calls /\ total_retries' \in Nat /\ pending' \in 0 .. QueueCapacity
    BY <1>1, Numbers DEF Calls
  <2>2. call[c].at \in Flying
    BY <1>1 DEF Flying
  <2>3. call[c].at \notin {"count", "count_async"} /\ k.at \notin {"count", "count_async"}
    BY <1>1, <1>3 DEF Flying
  <2> QED
    BY <1>1, <1>3, <2>1, <2>2, <2>3, MoveKeepsInv
<1>4. CASE FindExecutor(c)
  <2>1. PICK k \in {[call[c] EXCEPT !.at = "enter"],
                    [call[c] EXCEPT !.at = "judge", !.result = "NotSupported"]} :
          call' = [call EXCEPT ![c] = k]
    BY <1>4 DEF FindExecutor
  <2>2. k \in SubmitCalls /\ k.at \in {"enter", "judge"} /\ k.task = call[c].task /\ k.stage = call[c].stage
    BY <1>2 DEF SubmitCalls, Flying, Results, Errors
  <2>3. LateOK(k, late[c])
    BY <1>2, <2>2 DEF LateOK
  <2>4. k.at \in Flying /\ call[c].at \notin {"run", "leave"} /\ k.at \notin {"run", "leave"}
    BY <1>4, <2>2 DEF Flying, FindExecutor
  <2> QED
    BY <1>3, <2>1, <2>2, <2>3, <2>4
<1>5. CASE ExecuteSync(c)
  <2>1. call[c].at = "enter"
    BY <1>5 DEF ExecuteSync
  <2>2. CASE "cpu" \in up /\ call[c].task.stages # 0
    <3> DEFINE k == [call[c] EXCEPT !.at = "stage", !.stage = 0]
    <3>1. call' = [call EXCEPT ![c] = k]
      BY <1>5, <2>2 DEF ExecuteSync
    <3>2. k \in SubmitCalls /\ k.at = "stage" /\ k.task = call[c].task /\ k.stage = 0
      BY <1>2 DEF SubmitCalls, Flying
    <3>3. late[c] = 0
      BY <2>2, Numbers
    <3>4. LateOK(k, late[c])
      BY <1>2, <2>2, <3>2, <3>3 DEF LateOK
    <3> HIDE DEF k
    <3> QED
      BY <1>3, <2>1, <3>1, <3>2, <3>4 DEF Flying
  <2>3. CASE ~("cpu" \in up /\ call[c].task.stages # 0)
    <3>1. PICK k \in {[call[c] EXCEPT !.at = "judge", !.result = "DeviceNotReady"],
                      [call[c] EXCEPT !.at = "judge", !.result = "Completed"]} :
            call' = [call EXCEPT ![c] = k]
      BY <1>5, <2>3 DEF ExecuteSync
    <3>2. k \in SubmitCalls /\ k.at = "judge" /\ k.task = call[c].task /\ k.stage = call[c].stage
      BY <1>2 DEF SubmitCalls, Flying, Results, Errors
    <3>3. LateOK(k, late[c])
      BY <1>2, <3>2 DEF LateOK
    <3> QED
      BY <1>3, <2>1, <3>1, <3>2, <3>3 DEF Flying
  <2> QED
    BY <2>2, <2>3
<1>6. CASE ProcessEnds(c)
  <2>1. call[c].at = "run"
    BY <1>6 DEF ProcessEnds
  <2>2. PICK result \in {"Completed", "Failed", "TimedOut", "UblkDeviceNotFound", "InvalidRequest", "IoTimeout"} :
          call' = [call EXCEPT ![c].at = "leave", ![c].result = result]
    BY <1>6 DEF ProcessEnds
  <2> DEFINE k == [call[c] EXCEPT !.at = "leave", !.result = result]
  <2>3. call' = [call EXCEPT ![c] = k]
    BY <2>2 DEF PoolInv
  <2>4. k \in SubmitCalls /\ k.at = "leave" /\ k.task = call[c].task /\ k.stage = call[c].stage
    BY <1>2 DEF SubmitCalls, Flying, Results, Errors
  <2>5. LateOK(k, late[c])
    BY <1>2, <2>1, <2>4 DEF LateOK
  <2> HIDE DEF k
  <2> QED
    BY <1>3, <2>1, <2>3, <2>4, <2>5 DEF Flying
<1> QED
  BY <1>4, <1>5, <1>6

\* Retrying and waking up again.
LEMMA RetryKeepsInv ==
  ASSUME PoolInv, NEW c \in Callers, Retry(c) \/ Wake(c)
  PROVE  PoolInv'
<1>1. /\ UNCHANGED <<up, tasks_submitted, tasks_completed, tasks_failed, running_tasks, async, late>>
      /\ total_retries' \in Nat /\ pending' \in 0 .. QueueCapacity
      /\ call[c].at \in {"judge", "sleep"}
  BY Numbers DEF Retry, Wake, counters
<1>2. /\ call[c] \in SubmitCalls /\ LateOK(call[c], late[c]) /\ call[c].attempts \in Nat
      /\ call[c].at \in Flying
  BY <1>1, SubmitCallFacts DEF Flying
<1>3. PICK k \in SubmitCalls :
        /\ call' = [call EXCEPT ![c] = k]
        /\ k.at \in {"sleep", "find"} /\ k.task = call[c].task /\ k.stage = call[c].stage
  <2>1. CASE Retry(c)
    <3> DEFINE v == call[c].attempts + 1
               k == [call[c] EXCEPT !.attempts = v, !.at = "sleep"]
    <3>1. call' = [call EXCEPT ![c] = k]
      BY <2>1 DEF Retry, PoolInv
    <3>2. k \in SubmitCalls /\ k.at = "sleep" /\ k.task = call[c].task /\ k.stage = call[c].stage
      <4>1. v \in Nat /\ "sleep" \in Flying
        BY <1>2 DEF Flying
      <4> HIDE DEF v
      <4>2. k = [call[c] EXCEPT !.attempts = v, !.at = "sleep"]
        OBVIOUS
      <4> HIDE DEF k
      <4>3. k \in SubmitCalls
        BY <1>2, <4>1, <4>2, AttemptsKeepCalls
      <4>4. k.at = "sleep" /\ k.task = call[c].task /\ k.stage = call[c].stage
        BY <1>2, <4>2 DEF SubmitCalls
      <4> QED
        BY <4>3, <4>4
    <3> HIDE DEF k
    <3> QED
      BY <3>1, <3>2
  <2>2. CASE Wake(c)
    <3> DEFINE k == [call[c] EXCEPT !.at = "find"]
    <3>1. k \in SubmitCalls /\ k.at = "find" /\ k.task = call[c].task /\ k.stage = call[c].stage
      BY <1>2 DEF SubmitCalls, Flying
    <3>2. call' = [call EXCEPT ![c] = k]
      BY <2>2 DEF Wake, Goto, PoolInv
    <3> HIDE DEF k
    <3> QED
      BY <3>1, <3>2
  <2> QED
    BY <2>1, <2>2
<1>4. k \in SubmitCalls /\ k.at \in {"sleep", "find"} /\ k.task = call[c].task /\ k.stage = call[c].stage
  BY <1>3
<1>5. LateOK(k, late[c]) /\ k \in Calls /\ k.at \in Flying
  BY <1>2, <1>4 DEF LateOK, Calls, Flying
<1>6. /\ call[c].at \notin {"run", "leave", "count", "count_async"}
      /\ k.at \notin {"run", "leave", "count", "count_async"}
  BY <1>1, <1>4
<1> QED
  BY <1>1, <1>2, <1>3, <1>5, <1>6, MoveKeepsInv

\* The scheduler's answer to submit_async.
LEMMA AsyncKeepsInv ==
  ASSUME PoolInv, NEW c \in Callers, AsyncEnters(c) \/ AsyncAccepted(c) \/ AsyncRefused(c)
  PROVE  PoolInv'
<1>1. /\ UNCHANGED <<up, tasks_submitted, tasks_completed, tasks_failed, total_retries, running_tasks,
                     async, late>>
      /\ call[c].at \in {"enqueue", "push"}
  BY DEF AsyncEnters, AsyncAccepted, AsyncRefused, counters
<1>2. pending' \in 0 .. QueueCapacity /\ total_retries' \in Nat
  BY <1>1, Numbers DEF AsyncEnters, AsyncAccepted, AsyncRefused
<1>3. PICK k \in {[at |-> "push"], Idle} : call' = [call EXCEPT ![c] = k]
  BY DEF AsyncEnters, AsyncAccepted, AsyncRefused
<1>4. k \in Calls /\ k \notin SubmitCalls /\ k.at \in {"push", "idle"}
  BY DEF Idle, Calls, AsyncCalls, SubmitCalls, Flying
<1>5. LateOK(k, late[c])
  BY <1>4 DEF LateOK
<1>6. /\ call[c].at \notin Flying /\ k.at \notin Flying
      /\ call[c].at \notin {"run", "leave", "count", "count_async"}
      /\ k.at \notin {"run", "leave", "count", "count_async"}
  BY <1>1, <1>4 DEF Flying
<1> QED
  BY <1>1, <1>2, <1>3, <1>4, <1>5, <1>6, MoveKeepsInv

\* A process starts: a late one is a stage of the execution already entered.
LEMMA StartKeepsInv ==
  ASSUME PoolInv, NEW c \in Callers, ExecuteBinary(c)
  PROVE  PoolInv'
<1> DEFINE k == [call[c] EXCEPT !.at = "run"]
           n == late[c] + IF "cpu" \in up THEN 0 ELSE 1
<1>1. /\ call[c].at = "stage" /\ running_tasks' = running_tasks + 1
      /\ UNCHANGED <<up, tasks_submitted, tasks_completed, tasks_failed, total_retries, pending, async>>
      /\ call' = [call EXCEPT ![c] = k] /\ late' = [late EXCEPT ![c] = n]
  BY DEF ExecuteBinary, Goto, counters
<1>2. /\ call[c] \in SubmitCalls /\ LateOK(call[c], late[c]) /\ late[c] \in Nat
      /\ call[c].stage \in Nat /\ call[c].task.stages \in Nat
  BY <1>1, SubmitCallFacts DEF Flying
<1>3. k \in SubmitCalls /\ k.at = "run" /\ k.task = call[c].task /\ k.stage = call[c].stage
  BY <1>2 DEF SubmitCalls, Flying
<1>4. n \in Nat /\ ("cpu" \in up => n = 0) /\ n <= late[c] + 1
  BY <1>2, Numbers
<1>5. LateOK(k, n)
  <2>1. late[c] <= call[c].stage /\ call[c].stage < call[c].task.stages
    BY <1>1, <1>2 DEF LateOK
  <2> HIDE DEF k, n
  <2> QED
    BY <1>2, <1>3, <1>4, <2>1 DEF LateOK
<1> HIDE DEF k, n
<1>6. tasks_submitted' + (IF k.at \in {"count", "count_async"} THEN 1 ELSE 0) + Cardinality(Counting)
        <= MaxSubmits + (IF call[c].at \in {"count", "count_async"} THEN 1 ELSE 0)
  BY <1>1, <1>3, Numbers
<1>7. tasks_submitted' + tasks_completed + tasks_failed + async + (IF call[c].at \in Flying THEN 1 ELSE 0)
        = tasks_submitted + tasks_completed' + tasks_failed' + async' + (IF k.at \in Flying THEN 1 ELSE 0)
  BY <1>1, <1>3 DEF Flying
<1>8. running_tasks' + (IF call[c].at \in {"run", "leave"} THEN 1 ELSE 0)
        = running_tasks + (IF k.at \in {"run", "leave"} THEN 1 ELSE 0)
  BY <1>1, <1>3, Numbers
<1>9. /\ tasks_submitted' \in Nat /\ tasks_completed' \in Nat /\ tasks_failed' \in Nat
      /\ total_retries' \in Nat /\ running_tasks' \in Int /\ async' \in Nat /\ pending' \in 0 .. QueueCapacity
      /\ k \in Calls
  BY <1>1, <1>3, Numbers DEF Calls
<1> QED
  BY <1>1, <1>4, <1>5, <1>6, <1>7, <1>8, <1>9, StepKeepsInv

\* A process has ended: the next stage, or the judgement of the result.
LEMMA LeaveKeepsInv ==
  ASSUME PoolInv, NEW c \in Callers, LeaveBinary(c)
  PROVE  PoolInv'
<1> DEFINE n == late[c]
<1>1. /\ call[c].at = "leave" /\ running_tasks' = running_tasks - 1
      /\ UNCHANGED <<up, tasks_submitted, tasks_completed, tasks_failed, total_retries, pending, async, late>>
  BY DEF LeaveBinary, counters
<1>2. /\ call[c] \in SubmitCalls /\ LateOK(call[c], n) /\ n \in Nat
      /\ call[c].stage \in Nat /\ call[c].task.stages \in Nat
      /\ n <= call[c].task.stages
  BY <1>1, SubmitCallFacts DEF Flying
<1>3. n <= call[c].stage + 1 /\ call[c].stage < call[c].task.stages
  BY <1>1, <1>2 DEF LateOK
<1>4. PICK k \in SubmitCalls :
        /\ call' = [call EXCEPT ![c] = k] /\ k.task = call[c].task
        /\ \/ k.at = "judge" /\ k.stage \in {call[c].stage, call[c].stage + 1}
           \/ k.at = "stage" /\ k.stage = call[c].stage + 1 /\ call[c].stage + 1 < call[c].task.stages
  <2>1. CASE call[c].task.kind = "Binary" \/ call[c].result \in Errors
    <3> DEFINE k == [call[c] EXCEPT !.at = "judge"]
    <3>1. k \in SubmitCalls /\ k.at = "judge" /\ k.task = call[c].task /\ k.stage = call[c].stage
      BY <1>2 DEF SubmitCalls, Flying
    <3>2. call' = [call EXCEPT ![c] = k]
      BY <2>1 DEF LeaveBinary
    <3> HIDE DEF k
    <3> QED
      BY <3>1, <3>2
  <2>2. CASE ~(call[c].task.kind = "Binary" \/ call[c].result \in Errors) /\ call[c].result # "Completed"
    <3> DEFINE k == [call[c] EXCEPT !.at = "judge", !.result = "Failed"]
    <3>1. k \in SubmitCalls /\ k.at = "judge" /\ k.task = call[c].task /\ k.stage = call[c].stage
      BY <1>2 DEF SubmitCalls, Flying, Results
    <3>2. call' = [call EXCEPT ![c] = k]
      BY <2>2 DEF LeaveBinary
    <3> HIDE DEF k
    <3> QED
      BY <3>1, <3>2
  <2>3. CASE ~(call[c].task.kind = "Binary" \/ call[c].result \in Errors) /\ call[c].result = "Completed"
    <3> DEFINE v == call[c].stage + 1
               place == IF v < call[c].task.stages THEN "stage" ELSE "judge"
               k == [call[c] EXCEPT !.stage = v, !.at = place]
    <3>1. call' = [call EXCEPT ![c] = k] /\ v = call[c].stage + 1 /\ v \in Nat
      BY <1>2, <2>3 DEF LeaveBinary
    <3>2. place \in {"stage", "judge"} /\ (place = "stage" => v < call[c].task.stages) /\ place \in Flying
      BY DEF Flying
    <3> HIDE DEF place, v
    <3>3. k \in SubmitCalls /\ k.at = place /\ k.task = call[c].task /\ k.stage = v
      <4>1. k = [call[c] EXCEPT !.stage = v, !.at = place]
        OBVIOUS
      <4> HIDE DEF k
      <4>2. k \in SubmitCalls
        BY <1>2, <3>1, <3>2, <4>1, StageKeepCalls
      <4>3. k.at = place /\ k.task = call[c].task /\ k.stage = v
        BY <1>2, <4>1 DEF SubmitCalls
      <4> QED
        BY <4>2, <4>3
    <3> HIDE DEF k
    <3> QED
      BY <3>1, <3>2, <3>3
  <2> QED
    BY <2>1, <2>2, <2>3
<1> HIDE DEF n
<1>5. LateOK(k, n)
  BY <1>2, <1>3, <1>4 DEF LateOK
<1>6. k \in Calls /\ k.at \in {"judge", "stage"}
  BY <1>4 DEF Calls
<1>7. late' = [late EXCEPT ![c] = n] /\ ("cpu" \in up => n = 0)
  BY <1>1, Numbers DEF n
<1>8. tasks_submitted' + (IF k.at \in {"count", "count_async"} THEN 1 ELSE 0) + Cardinality(Counting)
        <= MaxSubmits + (IF call[c].at \in {"count", "count_async"} THEN 1 ELSE 0)
  BY <1>1, <1>6, Numbers
<1>9. tasks_submitted' + tasks_completed + tasks_failed + async + (IF call[c].at \in Flying THEN 1 ELSE 0)
        = tasks_submitted + tasks_completed' + tasks_failed' + async' + (IF k.at \in Flying THEN 1 ELSE 0)
  BY <1>1, <1>6 DEF Flying
<1>10. running_tasks' + (IF call[c].at \in {"run", "leave"} THEN 1 ELSE 0)
         = running_tasks + (IF k.at \in {"run", "leave"} THEN 1 ELSE 0)
  BY <1>1, <1>6, Numbers
<1>11. /\ tasks_submitted' \in Nat /\ tasks_completed' \in Nat /\ tasks_failed' \in Nat
       /\ total_retries' \in Nat /\ running_tasks' \in Int /\ async' \in Nat /\ pending' \in 0 .. QueueCapacity
  BY <1>1, Numbers
<1> QED
  BY <1>1, <1>2, <1>4, <1>5, <1>6, <1>7, <1>8, <1>9, <1>10, <1>11, StepKeepsInv

\* submit returns, with a result or an error.
LEMMA ReturnKeepsInv ==
  ASSUME PoolInv, NEW c \in Callers, Complete(c) \/ Fail(c)
  PROVE  PoolInv'
<1> DEFINE n == late[c]
<1>1. /\ call[c].at = "judge" /\ call' = [call EXCEPT ![c] = Idle]
      /\ UNCHANGED <<up, tasks_submitted, total_retries, pending, running_tasks, async, late>>
      /\ \/ tasks_completed' = tasks_completed + 1 /\ tasks_failed' = tasks_failed
         \/ tasks_completed' = tasks_completed /\ tasks_failed' = tasks_failed + 1
  BY DEF Complete, Fail
<1>2. Idle \in Calls /\ Idle \notin SubmitCalls /\ Idle.at = "idle"
  BY DEF Idle, Calls, AsyncCalls, SubmitCalls, Flying
<1>3. n \in Nat /\ late' = [late EXCEPT ![c] = n] /\ ("cpu" \in up => n = 0) /\ LateOK(Idle, n)
  BY <1>1, <1>2, Numbers DEF LateOK
<1> HIDE DEF n
<1>4. tasks_submitted' + (IF Idle.at \in {"count", "count_async"} THEN 1 ELSE 0) + Cardinality(Counting)
        <= MaxSubmits + (IF call[c].at \in {"count", "count_async"} THEN 1 ELSE 0)
  BY <1>1, <1>2, Numbers
<1>5. tasks_submitted' + tasks_completed + tasks_failed + async + (IF call[c].at \in Flying THEN 1 ELSE 0)
        = tasks_submitted + tasks_completed' + tasks_failed' + async' + (IF Idle.at \in Flying THEN 1 ELSE 0)
  <2>1. call[c].at \in Flying /\ Idle.at \notin Flying
    BY <1>1, <1>2 DEF Flying
  <2> QED
    BY <1>1, <2>1, Numbers
<1>6. running_tasks' + (IF call[c].at \in {"run", "leave"} THEN 1 ELSE 0)
        = running_tasks + (IF Idle.at \in {"run", "leave"} THEN 1 ELSE 0)
  BY <1>1, <1>2
<1>7. /\ tasks_submitted' \in Nat /\ tasks_completed' \in Nat /\ tasks_failed' \in Nat
      /\ total_retries' \in Nat /\ running_tasks' \in Int /\ async' \in Nat /\ pending' \in 0 .. QueueCapacity
  BY <1>1, Numbers
<1> QED
  BY <1>1, <1>2, <1>3, <1>4, <1>5, <1>6, <1>7, StepKeepsInv

-----------------------------------------------------------------------------
(* The theorems *)

\* A new pool satisfies the invariant.
LEMMA PoolInitInv == Init => PoolInv
<1> SUFFICES ASSUME Init PROVE PoolInv
  OBVIOUS
<1> USE DEF Init
<1>1. call \in [Callers -> Calls] /\ \A c \in Callers : call[c] \notin SubmitCalls /\ call[c].at = "idle"
  BY DEF Idle, Calls, AsyncCalls, SubmitCalls, Flying
<1>2. InFlight = {} /\ Counting = {} /\ At("run") \cup At("leave") = {}
  BY <1>1 DEF InFlight, Counting, At
<1>3. Cardinality({}) = 0
  BY FS_EmptySet
<1>4. Accounting /\ RunningTasksExact
  BY <1>2, <1>3 DEF Accounting, RunningTasksExact
<1>5. tasks_submitted + Cardinality(Counting) <= MaxSubmits /\ pending \in 0 .. QueueCapacity
  BY <1>2, <1>3, PoolAssumption
<1>6. \A c \in Callers : LateOK(call[c], late[c])
  BY <1>1 DEF LateOK
<1>7. late \in [Callers -> Nat] /\ \A c \in Callers : late[c] = 0
  OBVIOUS
<1> QED
  BY <1>1, <1>4, <1>5, <1>6, <1>7 DEF PoolInv

\* Every step of every call, and of shutdown, preserves the invariant.
LEMMA PoolNextInv == PoolInv /\ [Next]_vars => PoolInv'
<1> SUFFICES ASSUME PoolInv, [Next]_vars PROVE PoolInv'
  OBVIOUS
<1>1. ASSUME up' \subseteq up,
             UNCHANGED <<tasks_submitted, tasks_completed, tasks_failed, total_retries, pending,
                         running_tasks, call, async, late>>
      PROVE  PoolInv'
  <2>1. InFlight' = InFlight /\ Counting' = Counting /\ (At("run") \cup At("leave"))' = At("run") \cup At("leave")
    BY <1>1 DEF InFlight, Counting, At
  <2>2. Accounting' /\ RunningTasksExact' /\ (tasks_submitted + Cardinality(Counting) <= MaxSubmits)'
    BY <1>1, <2>1, Zenon DEF PoolInv, Accounting, RunningTasksExact
  <2>3. up' \subseteq {"pool", "scheduler", "cpu", "detector"} /\ ("cpu" \in up' => "cpu" \in up)
    BY <1>1 DEF PoolInv
  <2>4. \A c \in Callers : LateOK(call'[c], late'[c])
    BY <1>1, Zenon DEF PoolInv
  <2> QED
    BY <1>1, <2>2, <2>3, <2>4, Zenon DEF PoolInv, LateOK, Calls, SubmitCalls, AsyncCalls
<1>2. CASE UNCHANGED vars
  BY <1>1, <1>2 DEF vars, counters
<1>3. CASE Shutdown
  BY <1>1, <1>3 DEF Shutdown, counters
<1>4. ASSUME NEW c \in Callers, (\E t \in Tasks : Submit(c, t)) \/ SubmitAsync(c) PROVE PoolInv'
  BY <1>4, CallsKeepInv
<1>5. ASSUME NEW c \in Callers, SubmitStep(c) PROVE PoolInv'
  BY <1>5, CountKeepsInv, ExecutionKeepsInv, StartKeepsInv, LeaveKeepsInv, ReturnKeepsInv, RetryKeepsInv
     DEF SubmitStep
<1>6. ASSUME NEW c \in Callers, AsyncStep(c) PROVE PoolInv'
  BY <1>6, CountKeepsInv, AsyncKeepsInv DEF AsyncStep
<1> QED
  BY <1>2, <1>3, <1>4, <1>5, <1>6 DEF Next

\* The inductive invariant holds in every reachable state of the pool.
THEOREM PoolInvariance == Spec => []PoolInv
  BY PoolInitInv, PoolNextInv, PTL DEF Spec

\* The state of the pool is well formed; the scheduler holds no more tasks than
\* its queues have places.
THEOREM PoolTypeCorrect == Spec => []TypeOK
<1>1. PoolInv => TypeOK
  <2> SUFFICES ASSUME PoolInv PROVE TypeOK
    OBVIOUS
  <2>1. tasks_submitted \in 0 .. MaxSubmits
    BY Numbers
  <2>2. ASSUME NEW c \in Callers
        PROVE  \/ call[c] \in [at : {"idle", "count_async", "enqueue", "push"}]
               \/ /\ c \in InFlight \cup At("count")
                  /\ call[c].task \in Tasks
                  /\ call[c].attempts \in Nat
                  /\ call[c].stage \in 0 .. call[c].task.stages
    <3>1. CASE call[c] \in AsyncCalls
      BY <3>1 DEF AsyncCalls
    <3>2. CASE call[c] \in SubmitCalls
      <4>1. call[c].at \in Flying \cup {"count"}
        BY <3>2 DEF SubmitCalls
      <4>2. c \in InFlight \cup At("count")
        BY <4>1 DEF InFlight, At, Flying
      <4> QED
        BY <4>1, <4>2, SubmitCallFacts
    <3> QED
      BY <3>1, <3>2 DEF PoolInv, Calls
  <2> QED
    BY <2>1, <2>2 DEF PoolInv, TypeOK
<1> QED
  BY <1>1, PoolInvariance, PTL

\* Every task submitted has completed, has failed, is being executed by its call,
\* or went to the scheduler, on every path of submit and across a shutdown.
THEOREM PoolAccounts == Spec => []Accounting
<1>1. PoolInv => Accounting
  BY DEF PoolInv
<1> QED
  BY <1>1, PoolInvariance, PTL

\* running_tasks is the number of calls inside execute_binary.
THEOREM PoolRunningExact == Spec => []RunningTasksExact
<1>1. PoolInv => RunningTasksExact
  BY DEF PoolInv
<1> QED
  BY <1>1, PoolInvariance, PTL

\* After the shutdown of the executor a call starts no process but the stages
\* left of the execution it had entered.
THEOREM PoolLateRunsBounded == Spec => []LateRunsBounded
<1>1. PoolInv => LateRunsBounded
  <2> SUFFICES ASSUME PoolInv, NEW c \in InFlight PROVE late[c] <= call[c].task.stages
    BY DEF LateRunsBounded
  <2>1. c \in Callers /\ call[c].at \in Flying
    BY DEF InFlight, Flying
  <2> QED
    BY <2>1, SubmitCallFacts
<1> QED
  BY <1>1, PoolInvariance, PTL

=============================================================================
