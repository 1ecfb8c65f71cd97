------------------------------ MODULE Scheduler ------------------------------
(***************************************************************************)
(* The work-stealing scheduler of src/scheduler.rs.  Every worker owns a   *)
(* bounded deque guarded by a mutex, whose length is mirrored in an atomic *)
(* that submit and steal_batch read without the mutex.  The threads of the *)
(* program call submit, pop, steal and steal_batch concurrently; a call is *)
(* split at every access to shared state.  The vector of workers is behind *)
(* an RwLock which each of these calls holds for reading from its entry to *)
(* its return, and which add_worker takes for writing.                     *)
(***************************************************************************)
EXTENDS Integers, Sequences, FiniteSets

CONSTANTS
    Submitters,   \* threads that call submit
    Consumers,    \* threads that call pop, steal and steal_batch
    Tasks,        \* the tasks; each is moved into at most one call of submit
    Capacity,     \* queue_capacity
    InitWorkers,  \* the possible values of num_workers in Scheduler::with_capacity
    MaxWorkers,   \* bound on the number of workers
    AdminOps,     \* which of "stop", "add" and "deactivate" the program calls
    NoThread,     \* an unlocked mutex
    NoWorker,     \* None, for an Option of a worker index
    NoId          \* the id of a task whose submit has not returned Some(id)

Threads == Submitters \cup Consumers
WorkerIds == 0 .. (MaxWorkers - 1)

ASSUME SchedulerAssumption ==
    /\ Submitters \cap Consumers = {}
    /\ Capacity \in Nat
    /\ MaxWorkers \in Nat
    /\ InitWorkers \subseteq 0 .. MaxWorkers
    /\ NoThread \notin Threads
    /\ NoWorker \notin Nat
    /\ NoId \notin Nat

VARIABLES
    deque,           \* per worker: the items of its WorkStealingDeque, front first
    len,             \* per worker: the deque's atomic length
    mutex,           \* per worker: the thread that holds the deque's mutex
    active,          \* per worker: WorkerState::active
    num_workers,     \* workers.len() (and the atomic of the same name)
    submit_counter,  \* atomics of Scheduler
    next_task_id,
    running,
    pc,              \* per thread: the next step of its call, "idle" between calls
    base,            \* per thread: start (submit), worker_id (pop), thief_idx (steals)
    at,              \* per thread: the worker looked at
    busiest,         \* per thread: <<busiest_idx, max_len>> of steal_batch
    hand,            \* per thread: the argument of submit, or the tasks taken
    fresh,           \* history: tasks not yet passed to submit
    dropped,         \* history: tasks whose submit returned None
    delivered,       \* history: tasks returned by pop, steal or steal_batch
    ids,             \* history: the id submit returned for each task
    late             \* history: tasks pushed after stop, or to an inactive worker

queues == <<deque, len, mutex>>
admin == <<active, num_workers, running>>
local == <<base, at, busiest>>
history == <<fresh, dropped, delivered, ids, late>>
vars == <<queues, admin, submit_counter, next_task_id, pc, local, hand, history>>

NotBusy == <<NoWorker, 0>>

Init ==
    /\ deque = [w \in WorkerIds |-> << >>]
    /\ len = [w \in WorkerIds |-> 0]
    /\ mutex = [w \in WorkerIds |-> NoThread]
    /\ active = [w \in WorkerIds |-> TRUE]
    /\ num_workers \in InitWorkers
    /\ submit_counter = 0
    /\ next_task_id = 0
    /\ running = TRUE
    /\ pc = [t \in Threads |-> "idle"]
    /\ base = [t \in Threads |-> 0]
    /\ at = [t \in Threads |-> 0]
    /\ busiest = [t \in Threads |-> NotBusy]
    /\ hand = [t \in Threads |-> << >>]
    /\ fresh = Tasks
    /\ dropped = {}
    /\ delivered = {}
    /\ ids = [k \in Tasks |-> NoId]
    /\ late = {}

-----------------------------------------------------------------------------
(* Control flow shared by the calls *)

Go(t, label) == pc' = [pc EXCEPT ![t] = label]

LookAt(t, w) == at' = [at EXCEPT ![t] = w]

\* The call returns; its locals go out of scope.
Return(t) ==
    /\ Go(t, "idle")
    /\ base' = [base EXCEPT ![t] = 0]
    /\ at' = [at EXCEPT ![t] = 0]
    /\ busiest' = [busiest EXCEPT ![t] = NotBusy]
    /\ hand' = [hand EXCEPT ![t] = << >>]

\* submit returns None: the task it was given is dropped.
ReturnNone(t, task) ==
    /\ Return(t)
    /\ dropped' = dropped \cup {task}
    /\ UNCHANGED <<delivered, ids, late>>

\* Fault: the index does not wrap around.
NextAtNoWrap(t) == at[t] + 1

NextAt(t) == (at[t] + 1) % num_workers

HoldsReadLock(t) == pc[t] \notin {"idle", "submit"}

-----------------------------------------------------------------------------
(* submit *)

\* Fault: submit does not look at running.
SubmitCallAfterStop(t, task) ==
    /\ pc[t] = "idle"
    /\ task \in fresh
    /\ fresh' = fresh \ {task}
    /\ Go(t, "submit")
    /\ hand' = [hand EXCEPT ![t] = <<task>>]
    /\ UNCHANGED <<queues, admin, submit_counter, next_task_id, local,
                   dropped, delivered, ids, late>>

SubmitCall(t, task) ==
    /\ pc[t] = "idle"
    /\ task \in fresh
    /\ fresh' = fresh \ {task}
    /\ running
    /\ Go(t, "submit")
    /\ hand' = [hand EXCEPT ![t] = <<task>>]
    /\ UNCHANGED <<queues, admin, submit_counter, next_task_id, local,
                   dropped, delivered, ids, late>>

\* The scheduler is stopped: None.
SubmitStopped(t, task) ==
    /\ pc[t] = "idle"
    /\ task \in fresh
    /\ fresh' = fresh \ {task}
    /\ ~running
    /\ ReturnNone(t, task)
    /\ UNCHANGED <<queues, admin, submit_counter, next_task_id>>

\* workers.read(), and the round-robin choice of the first candidate.
SubmitEnter(t) ==
    /\ pc[t] = "submit"
    /\ num_workers > 0
    /\ base' = [base EXCEPT ![t] = submit_counter % num_workers]
    /\ LookAt(t, submit_counter % num_workers)
    /\ submit_counter' = submit_counter + 1
    /\ Go(t, "submit_active")
    /\ UNCHANGED <<queues, admin, next_task_id, busiest, hand, history>>

SubmitNoWorkers(t) ==
    /\ pc[t] = "submit"
    /\ num_workers = 0
    /\ ReturnNone(t, hand[t][1])
    /\ UNCHANGED <<queues, admin, submit_counter, next_task_id, fresh>>

SubmitSeesActive(t) ==
    /\ pc[t] = "submit_active"
    /\ active[at[t]]
    /\ Go(t, "submit_len")
    /\ UNCHANGED <<queues, admin, submit_counter, next_task_id, local, hand, history>>

SubmitSeesSpace(t) ==
    /\ pc[t] = "submit_len"
    /\ len[at[t]] < Capacity
    /\ Go(t, "submit_push")
    /\ UNCHANGED <<queues, admin, submit_counter, next_task_id, local, hand, history>>

Unsuitable(t) ==
    \/ pc[t] = "submit_active" /\ ~active[at[t]]
    \/ pc[t] = "submit_len" /\ len[at[t]] >= Capacity

SubmitNextWorker(t) ==
    /\ Unsuitable(t)
    /\ NextAt(t) # base[t]
    /\ LookAt(t, NextAt(t))
    /\ Go(t, "submit_active")
    /\ UNCHANGED <<queues, admin, submit_counter, next_task_id, base, busiest,
                   hand, history>>

SubmitNoWorkerFound(t) ==
    /\ Unsuitable(t)
    /\ NextAt(t) = base[t]
    /\ ReturnNone(t, hand[t][1])
    /\ UNCHANGED <<queues, admin, submit_counter, next_task_id, fresh>>

\* Fault: push trusts the length that submit read before it took the mutex.
SubmitPushUnchecked(t) ==
    LET w == at[t] IN
    /\ pc[t] = "submit_push"
    /\ mutex[w] = NoThread
    /\ mutex' = [mutex EXCEPT ![w] = t]
    /\ deque' = [deque EXCEPT ![w] = Append(@, hand[t][1])]
    /\ Go(t, "submit_count")
    /\ UNCHANGED <<len, admin, submit_counter, next_task_id, local, hand, history>>

\* Fault: the deque is a ring, a full one overwrites its oldest item.
SubmitPushOverwrites(t) ==
    LET w == at[t]
        kept == IF Len(deque[w]) < Capacity THEN deque[w] ELSE Tail(deque[w]) IN
    /\ pc[t] = "submit_push"
    /\ mutex[w] = NoThread
    /\ mutex' = [mutex EXCEPT ![w] = t]
    /\ deque' = [deque EXCEPT ![w] = Append(kept, hand[t][1])]
    /\ Go(t, "submit_count")
    /\ UNCHANGED <<len, admin, submit_counter, next_task_id, local, hand, history>>

\* WorkStealingDeque::push, up to the item's arrival in the deque.
SubmitPush(t) ==
    LET w == at[t] IN
    /\ pc[t] = "submit_push"
    /\ mutex[w] = NoThread
    /\ Len(deque[w]) < Capacity
    /\ mutex' = [mutex EXCEPT ![w] = t]
    /\ deque' = [deque EXCEPT ![w] = Append(@, hand[t][1])]
    /\ late' = IF running /\ active[w] THEN late ELSE late \cup {hand[t][1]}
    /\ Go(t, "submit_count")
    /\ UNCHANGED <<len, admin, submit_counter, next_task_id, local, hand,
                   fresh, dropped, delivered, ids>>

\* Fault: the result of push is ignored.
SubmitPushIgnored(t) ==
    /\ pc[t] = "submit_push"
    /\ mutex[at[t]] = NoThread
    /\ Len(deque[at[t]]) >= Capacity
    /\ Return(t)
    /\ dropped' = dropped \cup {hand[t][1]}
    /\ ids' = [ids EXCEPT ![hand[t][1]] = next_task_id]
    /\ next_task_id' = next_task_id + 1
    /\ UNCHANGED <<queues, admin, submit_counter, fresh, delivered, late>>

\* The deque filled up since its length was read: submit returns None.
SubmitPushFails(t) ==
    /\ pc[t] = "submit_push"
    /\ mutex[at[t]] = NoThread
    /\ Len(deque[at[t]]) >= Capacity
    /\ ReturnNone(t, hand[t][1])
    /\ UNCHANGED <<queues, admin, submit_counter, next_task_id, fresh>>

\* The rest of push: the length is updated and the mutex released.
SubmitCount(t) ==
    /\ pc[t] = "submit_count"
    /\ len' = [len EXCEPT ![at[t]] = @ + 1]
    /\ mutex' = [mutex EXCEPT ![at[t]] = NoThread]
    /\ Go(t, "submit_id")
    /\ UNCHANGED <<deque, admin, submit_counter, next_task_id, local, hand, history>>

\* Fault: the counter is read, not incremented.
SubmitIdLoad(t) ==
    /\ pc[t] = "submit_id"
    /\ ids' = [ids EXCEPT ![hand[t][1]] = next_task_id]
    /\ Return(t)
    /\ UNCHANGED <<queues, admin, submit_counter, next_task_id, fresh, dropped, delivered, late>>

SubmitId(t) ==
    /\ pc[t] = "submit_id"
    /\ ids' = [ids EXCEPT ![hand[t][1]] = next_task_id]
    /\ next_task_id' = next_task_id + 1
    /\ Return(t)
    /\ UNCHANGED <<queues, admin, submit_counter, fresh, dropped, delivered, late>>

-----------------------------------------------------------------------------
(* pop, steal and steal_batch *)

\* WorkStealingDeque::pop, steal and steal_half, up to the removal of the items.
Take(t, taken, rest) ==
    /\ mutex' = [mutex EXCEPT ![at[t]] = t]
    /\ deque' = [deque EXCEPT ![at[t]] = rest]
    /\ hand' = [hand EXCEPT ![t] = taken]
    /\ Go(t, "take_count")
    /\ UNCHANGED <<len, admin, submit_counter, next_task_id, local, history>>

\* Fault: the guard of the mutex is leaked.
TakeCountLocked(t) ==
    /\ pc[t] = "take_count"
    /\ len' = [len EXCEPT ![at[t]] = @ - Len(hand[t])]
    /\ delivered' = delivered \cup {hand[t][i] : i \in DOMAIN hand[t]}
    /\ Return(t)
    /\ UNCHANGED <<deque, mutex, admin, submit_counter, next_task_id, fresh, dropped, ids, late>>

\* The rest of them, and the call's return.
TakeCount(t) ==
    /\ pc[t] = "take_count"
    /\ len' = [len EXCEPT ![at[t]] = @ - Len(hand[t])]
    /\ mutex' = [mutex EXCEPT ![at[t]] = NoThread]
    /\ delivered' = delivered \cup {hand[t][i] : i \in DOMAIN hand[t]}
    /\ Return(t)
    /\ UNCHANGED <<deque, admin, submit_counter, next_task_id, fresh, dropped, ids, late>>

ReturnNothing(t) ==
    /\ Return(t)
    /\ UNCHANGED <<queues, admin, submit_counter, next_task_id, history>>

\* A call for worker w, which must exist, starts at label and looks at worker first.
Call(t, w, label, first) ==
    /\ pc[t] = "idle"
    /\ w < num_workers
    /\ base' = [base EXCEPT ![t] = w]
    /\ LookAt(t, first)
    /\ Go(t, label)
    /\ UNCHANGED <<queues, admin, submit_counter, next_task_id, busiest, hand, history>>

\* The early returns: no such worker, or (for the steals) no other worker.
CallRefused(t, w) ==
    /\ pc[t] = "idle"
    /\ w >= num_workers \/ num_workers <= 1
    /\ UNCHANGED vars

\* Fault: an inactive worker may not pop.
PopCallActive(t, w) == active[w] /\ Call(t, w, "pop", w)

PopCall(t, w) == Call(t, w, "pop", w)

PopTake(t) ==
    LET d == deque[at[t]] IN
    /\ pc[t] = "pop"
    /\ mutex[at[t]] = NoThread
    /\ d # << >>
    /\ Take(t, <<d[Len(d)]>>, SubSeq(d, 1, Len(d) - 1))

PopEmpty(t) ==
    /\ pc[t] = "pop"
    /\ mutex[at[t]] = NoThread
    /\ deque[at[t]] = << >>
    /\ ReturnNothing(t)

StealCall(t, w) ==
    /\ num_workers > 1
    /\ Call(t, w, "steal_active", (w + 1) % num_workers)

StealSeesActive(t) ==
    /\ pc[t] = "steal_active"
    /\ active[at[t]]
    /\ Go(t, "steal")
    /\ UNCHANGED <<queues, admin, submit_counter, next_task_id, local, hand, history>>

\* Fault: steal copies the item without removing it.
StealPeek(t) ==
    LET d == deque[at[t]] IN
    /\ pc[t] = "steal"
    /\ mutex[at[t]] = NoThread
    /\ d # << >>
    /\ Take(t, <<d[1]>>, d)

StealTake(t) ==
    LET d == deque[at[t]] IN
    /\ pc[t] = "steal"
    /\ mutex[at[t]] = NoThread
    /\ d # << >>
    /\ Take(t, <<d[1]>>, SubSeq(d, 2, Len(d)))

NothingToSteal(t) ==
    \/ pc[t] = "steal_active" /\ ~active[at[t]]
    \/ pc[t] = "steal" /\ mutex[at[t]] = NoThread /\ deque[at[t]] = << >>

StealNextWorker(t) ==
    /\ NothingToSteal(t)
    /\ NextAt(t) # base[t]
    /\ LookAt(t, NextAt(t))
    /\ Go(t, "steal_active")
    /\ UNCHANGED <<queues, admin, submit_counter, next_task_id, base, busiest,
                   hand, history>>

StealNone(t) ==
    /\ NothingToSteal(t)
    /\ NextAt(t) = base[t]
    /\ ReturnNothing(t)

BatchCall(t, w) ==
    /\ num_workers > 1
    /\ Call(t, w, "batch_active", 0)

BatchSeesActive(t) ==
    /\ pc[t] = "batch_active"
    /\ at[t] # base[t]
    /\ active[at[t]]
    /\ Go(t, "batch_len")
    /\ UNCHANGED <<queues, admin, submit_counter, next_task_id, local, hand, history>>

\* The next round of the search for the busiest worker, b being the busiest so far.
BatchNext(t, b) ==
    /\ \/ /\ at[t] + 1 < num_workers
          /\ LookAt(t, at[t] + 1)
          /\ busiest' = [busiest EXCEPT ![t] = b]
          /\ Go(t, "batch_active")
          /\ UNCHANGED <<base, hand>>
       \/ /\ at[t] + 1 = num_workers
          /\ b[1] # NoWorker
          /\ LookAt(t, b[1])
          /\ busiest' = [busiest EXCEPT ![t] = b]
          /\ Go(t, "batch")
          /\ UNCHANGED <<base, hand>>
       \/ /\ at[t] + 1 = num_workers
          /\ b[1] = NoWorker
          /\ Return(t)
    /\ UNCHANGED <<queues, admin, submit_counter, next_task_id, history>>

BatchSkip(t) ==
    /\ pc[t] = "batch_active"
    /\ at[t] = base[t] \/ ~active[at[t]]
    /\ BatchNext(t, busiest[t])

BatchCompare(t) ==
    /\ pc[t] = "batch_len"
    /\ BatchNext(t, IF len[at[t]] > busiest[t][2]
                    THEN <<at[t], len[at[t]]>>
                    ELSE busiest[t])

\* Fault: steal_half removes one item more than it returns.
BatchTakeOffByOne(t) ==
    LET d == deque[at[t]]
        half == Len(d) \div 2
    IN
    /\ pc[t] = "batch"
    /\ mutex[at[t]] = NoThread
    /\ half > 0
    /\ Take(t, SubSeq(d, 1, half), SubSeq(d, half + 2, Len(d)))

BatchTake(t) ==
    LET d == deque[at[t]]
        half == Len(d) \div 2
    IN
    /\ pc[t] = "batch"
    /\ mutex[at[t]] = NoThread
    /\ half > 0
    /\ Take(t, SubSeq(d, 1, half), SubSeq(d, half + 1, Len(d)))

BatchTooFew(t) ==
    /\ pc[t] = "batch"
    /\ mutex[at[t]] = NoThread
    /\ Len(deque[at[t]]) \div 2 = 0
    /\ ReturnNothing(t)

-----------------------------------------------------------------------------
(* stop, add_worker, deactivate_worker *)

Stop ==
    /\ "stop" \in AdminOps
    /\ running' = FALSE
    /\ UNCHANGED <<queues, active, num_workers, submit_counter, next_task_id,
                   pc, local, hand, history>>

\* Needs the write lock.
AddWorker ==
    /\ "add" \in AdminOps
    /\ \A t \in Threads : ~HoldsReadLock(t)
    /\ num_workers < MaxWorkers
    /\ num_workers' = num_workers + 1
    /\ UNCHANGED <<queues, active, running, submit_counter, next_task_id,
                   pc, local, hand, history>>

DeactivateWorker(w) ==
    /\ "deactivate" \in AdminOps
    /\ w < num_workers
    /\ active' = [active EXCEPT ![w] = FALSE]
    /\ UNCHANGED <<queues, num_workers, running, submit_counter, next_task_id,
                   pc, local, hand, history>>

-----------------------------------------------------------------------------
SubmitStep(t) ==
    \/ SubmitEnter(t) \/ SubmitNoWorkers(t)
    \/ SubmitSeesActive(t) \/ SubmitSeesSpace(t)
    \/ SubmitNextWorker(t) \/ SubmitNoWorkerFound(t)
    \/ SubmitPush(t) \/ SubmitPushFails(t)
    \/ SubmitCount(t) \/ SubmitId(t)

TakeStep(t) ==
    \/ PopTake(t) \/ PopEmpty(t)
    \/ StealSeesActive(t) \/ StealTake(t) \/ StealNextWorker(t) \/ StealNone(t)
    \/ BatchSeesActive(t) \/ BatchSkip(t) \/ BatchCompare(t)
    \/ BatchTake(t) \/ BatchTooFew(t)
    \/ TakeCount(t)

Next ==
    \/ \E t \in Submitters :
          \/ \E task \in Tasks : SubmitCall(t, task) \/ SubmitStopped(t, task)
          \/ SubmitStep(t)
    \/ \E t \in Consumers :
          \/ \E w \in WorkerIds :
                \/ PopCall(t, w) \/ StealCall(t, w) \/ BatchCall(t, w)
                \/ CallRefused(t, w)
          \/ TakeStep(t)
    \/ Stop
    \/ AddWorker
    \/ \E w \in WorkerIds : DeactivateWorker(w)

Spec == Init /\ [][Next]_vars

-----------------------------------------------------------------------------
(* Properties *)

Labels ==
    {"idle", "submit", "submit_active", "submit_len", "submit_push",
     "submit_count", "submit_id", "pop", "steal_active", "steal",
     "batch_active", "batch_len", "batch", "take_count"}

\* Every variable holds a value of its Rust type; the atomic length, a usize,
\* never wraps below zero.
TypeOK ==
    /\ deque \in [WorkerIds -> Seq(Tasks)]
    /\ len \in [WorkerIds -> Nat]
    /\ mutex \in [WorkerIds -> Threads \cup {NoThread}]
    /\ active \in [WorkerIds -> BOOLEAN]
    /\ num_workers \in 0 .. MaxWorkers
    /\ submit_counter \in Nat
    /\ next_task_id \in Nat
    /\ running \in BOOLEAN
    /\ pc \in [Threads -> Labels]
    /\ base \in [Threads -> Nat]
    /\ at \in [Threads -> Nat]
    /\ busiest \in [Threads -> (Nat \cup {NoWorker}) \X Nat]
    /\ hand \in [Threads -> Seq(Tasks)]
    /\ fresh \subseteq Tasks
    /\ dropped \subseteq Tasks
    /\ delivered \subseteq Tasks
    /\ ids \in [Tasks -> Nat \cup {NoId}]
    /\ late \subseteq Tasks

Elements(s) == {s[i] : i \in DOMAIN s}
NoRepeats(s) == \A i, j \in DOMAIN s : s[i] = s[j] => i = j

\* The tasks a thread owns.  A task that submit has pushed is no longer its own.
Held(t) == IF pc[t] \in {"submit_count", "submit_id"} THEN {} ELSE Elements(hand[t])

\* The places a task can be in, and the tasks in each.
Places ==
    ({"queue"} \X WorkerIds) \cup ({"thread"} \X Threads)
        \cup ({"fate"} \X {"fresh", "dropped", "delivered"})

Contents ==
    [p \in Places |->
        CASE p[1] = "queue" -> Elements(deque[p[2]])
          [] p[1] = "thread" -> Held(p[2])
          [] p = <<"fate", "fresh">> -> fresh
          [] p = <<"fate", "dropped">> -> dropped
          [] p = <<"fate", "delivered">> -> delivered]

\* No interleaving of push, pop, steal and steal_half duplicates a task: a task
\* is at one position of one deque, or owned by one thread, or not yet submitted,
\* dropped by a failed submit, or delivered, and only one of these.
NoTaskDuplicated ==
    /\ \A w \in WorkerIds : NoRepeats(deque[w])
    /\ \A t \in Threads : NoRepeats(hand[t])
    /\ \A p, q \in Places : p # q => Contents[p] \cap Contents[q] = {}

\* No task vanishes: one that is neither with its caller, nor refused, nor
\* delivered is in a deque or in the hands of a call.
NoTaskLost == \A k \in Tasks : \E p \in Places : k \in Contents[p]

\* A task for which submit returned Some(id) is queued, on its way to a
\* consumer, or delivered: submit never reports a task it then drops.
AcceptedIsKept ==
    \A k \in Tasks : ids[k] # NoId =>
        \/ k \in delivered
        \/ \E w \in WorkerIds : k \in Elements(deque[w])
        \/ \E t \in Consumers : k \in Held(t)

\* The lock-free length agrees with the deque whenever the mutex is free, and
\* neither ever exceeds the capacity, although submit decides on a stale length.
LenIsExact ==
    \A w \in WorkerIds :
        /\ mutex[w] = NoThread => len[w] = Len(deque[w])
        /\ len[w] <= Capacity
        /\ Len(deque[w]) <= Capacity

\* TaskIds are unique although they are drawn after the push and outside the mutex.
IdsUnique ==
    \A j, k \in Tasks : ids[j] = ids[k] /\ ids[j] # NoId => j = k

\* Every index a call uses is an index of the vector of workers (no panic), and
\* only workers that exist hold tasks.
InBounds ==
    /\ \A t \in Threads : HoldsReadLock(t) => at[t] < num_workers /\ base[t] < num_workers
    /\ \A w \in WorkerIds : deque[w] # << >> => w < num_workers

Inactive == {w \in WorkerIds : ~active[w]}

\* stop and deactivate_worker do not wait for calls that have already read the
\* flags.  What gets in after them is at most one task per submitting thread and
\* event: later calls see the flag.
FewLateTasks ==
    Cardinality(late) <=
        Cardinality(Submitters) * (Cardinality(Inactive) + (IF running THEN 0 ELSE 1))

-----------------------------------------------------------------------------
(* Fairness: a thread inside a call keeps running.  The mutex and the RwLock *)
(* need no more: a mutex is only ever taken for good when a task moves, and  *)
(* the number of tasks is finite.                                            *)
CallFairness ==
    /\ \A t \in Submitters : WF_vars(SubmitStep(t))
    /\ \A t \in Consumers : WF_vars(TakeStep(t))

\* Worker loops: somebody keeps calling pop for every worker.
PopFairness == \A w \in WorkerIds : SF_vars(\E t \in Consumers : PopCall(t, w))

\* Thief loops: somebody keeps calling steal on behalf of every worker.
StealFairness == \A w \in WorkerIds : SF_vars(\E t \in Consumers : StealCall(t, w))

PopSpec == Spec /\ CallFairness /\ PopFairness
StealSpec == Spec /\ CallFairness /\ StealFairness

\* No call waits forever for a mutex: every submit, pop, steal and steal_batch returns.
CallsReturn == \A t \in Threads : pc[t] # "idle" ~> pc[t] = "idle"

\* Every task that submit accepted is delivered, whatever is stolen, stopped or
\* deactivated meanwhile, as long as every worker keeps calling pop.
AcceptedIsDelivered == \A k \in Tasks : ids[k] # NoId ~> k \in delivered

\* "Deactivate a worker (mark as inactive, tasks can still be stolen)."
InactiveIsStolenFrom ==
    \A w \in WorkerIds : ~active[w] /\ deque[w] # << >> ~> deque[w] = << >>

-----------------------------------------------------------------------------
(* The inductive invariant behind the safety properties. *)

SubmitLabels ==
    {"submit", "submit_active", "submit_len", "submit_push", "submit_count", "submit_id"}
Counting == {"submit_count", "take_count"}

\* A thread only runs its own kind of call, and carries tasks only where the
\* code has them in a local variable.
ControlInv ==
    /\ \A t \in Submitters :
          /\ pc[t] \in SubmitLabels \cup {"idle"}
          /\ pc[t] = "idle" => hand[t] = << >>
          /\ pc[t] \in SubmitLabels => Len(hand[t]) = 1
    /\ \A t \in Consumers :
          /\ pc[t] \in Labels \ SubmitLabels
          /\ pc[t] # "take_count" => hand[t] = << >>

\* The mutex of a deque is held exactly between the change of the deque and the
\* change of its length, which meanwhile is off by what the holder moved.
MutexInv ==
    /\ \A t \in Threads : pc[t] \in Counting => mutex[at[t]] = t
    /\ \A w \in WorkerIds : mutex[w] # NoThread => pc[mutex[w]] \in Counting /\ at[mutex[w]] = w
    /\ \A t \in Threads :
          /\ pc[t] = "submit_count" => Len(deque[at[t]]) = len[at[t]] + 1
          /\ pc[t] = "take_count" => Len(deque[at[t]]) + Len(hand[t]) = len[at[t]]

\* What steal_batch has found busiest is a worker.
BusiestInv ==
    \A t \in Threads : busiest[t][1] # NoWorker =>
        pc[t] # "idle" /\ busiest[t][1] < num_workers

\* A task submit has pushed, or reported, is out of its submitter's reach.
PushedInv ==
    \A k \in Tasks :
        (\/ ids[k] # NoId
         \/ \E t \in Submitters : pc[t] \in {"submit_count", "submit_id"} /\ hand[t][1] = k)
            => \/ k \in delivered
               \/ \E w \in WorkerIds : k \in Elements(deque[w])
               \/ \E t \in Consumers : k \in Held(t)

IdsInv ==
    /\ IdsUnique
    /\ \A k \in Tasks : ids[k] # NoId => ids[k] < next_task_id

SchedulerInv ==
    /\ TypeOK
    /\ ControlInv
    /\ MutexInv
    /\ BusiestInv
    /\ LenIsExact
    /\ InBounds
    /\ NoTaskDuplicated
    /\ NoTaskLost
    /\ PushedInv
    /\ IdsInv

-----------------------------------------------------------------------------
(* The scheduler implements TaskPool: an accepted task waits from the moment it *)
(* enters a deque, and is taken when it leaves it.                              *)

Pool == INSTANCE TaskPool WITH
    Limit <- Capacity * MaxWorkers,
    waiting <- UNION {Elements(deque[w]) : w \in WorkerIds},
    taken <- delivered \cup UNION {Held(t) : t \in Consumers},
    refused <- dropped

\* Every behaviour of the interleaved calls is a behaviour of the pool: each
\* call takes effect at one instant, and accepts, refuses or takes whole tasks.
ImplementsTaskPool == Pool!PoolSpec

=============================================================================
