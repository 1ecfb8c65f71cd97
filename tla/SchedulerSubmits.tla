--------------------------- MODULE SchedulerSubmits ---------------------------
(***************************************************************************)
(* Second part of the proof that Scheduler keeps its invariant: critical   *)
(* sections, and the steps of submit that move its task.                   *)
(***************************************************************************)
EXTENDS SchedulerScans

-----------------------------------------------------------------------------
(* Steps that move tasks *)

\* Only the locals of t change.
OthersKept(t) ==
    \A u \in Threads : u # t =>
        /\ pc'[u] = pc[u] /\ at'[u] = at[u] /\ base'[u] = base[u]
        /\ busiest'[u] = busiest[u] /\ hand'[u] = hand[u]

\* The invariants on control hold after a step of t if they hold for t and the
\* other threads and the number of workers have not changed.
LEMMA LocalInvs ==
  ASSUME SchedulerInv, NEW t \in Threads, OthersKept(t), UNCHANGED <<num_workers>>,
         \/ /\ t \in Submitters /\ pc'[t] \in SubmitLabels \cup {"idle"}
            /\ pc'[t] = "idle" => hand'[t] = << >>
            /\ pc'[t] \in SubmitLabels => Len(hand'[t]) = 1
         \/ /\ t \in Consumers /\ pc'[t] \in Labels \ SubmitLabels
            /\ pc'[t] # "take_count" => hand'[t] = << >>,
         HoldsReadLock(t)' => at'[t] < num_workers /\ base'[t] < num_workers,
         busiest'[t][1] # NoWorker => pc'[t] # "idle" /\ busiest'[t][1] < num_workers,
         \A w \in WorkerIds : deque'[w] # << >> => w < num_workers
  PROVE  ControlInv' /\ BusiestInv' /\ InBounds'
<1>1. ControlInv'
  BY SchedulerAssumption DEF SchedulerInv, ControlInv, OthersKept, Threads, Labels, SubmitLabels
<1>2. BusiestInv'
  BY DEF SchedulerInv, BusiestInv, OthersKept
<1>3. InBounds'
  BY DEF SchedulerInv, InBounds, OthersKept, HoldsReadLock
<1> QED
  BY <1>1, <1>2, <1>3

\* A task of one place goes to another: no task is duplicated or lost.
LEMMA MoveKeepsPartition ==
  ASSUME SchedulerInv, NEW src, NEW dst, NEW M,
         Moved(Contents, Contents', Places, src, dst, M),
         \A w \in WorkerIds : NoRepeats(deque'[w]),
         \A u \in Threads : NoRepeats(hand'[u])
  PROVE  NoTaskDuplicated' /\ NoTaskLost'
<1>1. Apart(Contents, Places) /\ Cover(Contents, Places, Tasks)
  BY Partition DEF SchedulerInv
<1>2. Apart(Contents', Places) /\ Cover(Contents', Places, Tasks)
  BY <1>1, MoveLemma
<1> QED
  BY <1>2, PartitionAfter

\* Passing a task to submit.
LEMMA SubmitCallKeepsInv ==
  ASSUME SchedulerInv, NEW t \in Submitters, NEW task \in Tasks, SubmitCall(t, task)
  PROVE  SchedulerInv'
<1> USE DEF SubmitCall, queues, admin, local, Go
<1>1. t \in Threads /\ TypeOK /\ hand[t] = << >> /\ pc[t] = "idle"
  BY DEF Threads, SchedulerInv, ControlInv
<1>2. OthersKept(t) /\ pc'[t] = "submit" /\ hand'[t] = <<task>>
  BY <1>1 DEF OthersKept, TypeOK
<1>3. TypeOK'
  BY <1>1 DEF TypeOK, Labels
<1>4. ControlInv' /\ BusiestInv' /\ InBounds'
  <2>1. busiest'[t][1] = NoWorker
    BY <1>1 DEF SchedulerInv, BusiestInv
  <2>2. ~HoldsReadLock(t)' /\ \A w \in WorkerIds : deque'[w] # << >> => w < num_workers
    BY <1>2 DEF HoldsReadLock, SchedulerInv, InBounds
  <2> QED
    BY <1>1, <1>2, <2>1, <2>2, LocalInvs DEF SubmitLabels
<1>5. MutexInv'
  BY <1>1, <1>2, QuietKeepsMutexInv DEF OthersKept, Counting
<1>6. LenIsExact'
  BY DEF SchedulerInv, LenIsExact
<1>7. Held(t) = {} /\ Held(t)' = {task} /\ \A u \in Threads : u # t => Held(u)' = Held(u)
  BY <1>1, <1>2 DEF Held, OthersKept, Elements
<1>8. Moved(Contents, Contents', Places, <<"fate", "fresh">>, <<"thread", t>>, {task})
  <2>1. ASSUME NEW p \in Places \ {<<"fate", "fresh">>, <<"thread", t>>} PROVE Contents'[p] = Contents[p]
    BY <1>7, PlaceKinds, ContentsOf, ContentsAfter
  <2> QED
    BY <1>1, <1>7, <2>1, ContentsOf, ContentsAfter, DistinctPlaces DEF Moved
<1>9. NoTaskDuplicated' /\ NoTaskLost'
  <2>1. \A u \in Threads : NoRepeats(hand'[u])
    BY <1>2 DEF NoRepeats, OthersKept, SchedulerInv, NoTaskDuplicated
  <2> QED
    BY <1>8, <2>1, MoveKeepsPartition DEF SchedulerInv, NoTaskDuplicated
<1>10. PushedInv'
  BY <1>2, <1>7, SchedulerAssumption DEF SchedulerInv, PushedInv, OthersKept, Threads
<1>11. IdsInv'
  BY DEF SchedulerInv, IdsInv, IdsUnique
<1> QED
  BY <1>3, <1>4, <1>5, <1>6, <1>9, <1>10, <1>11 DEF SchedulerInv

\* The locals of a call are forgotten when it returns.
LEMMA ReturnFacts ==
  ASSUME TypeOK, NEW t \in Threads, Return(t)
  PROVE  /\ OthersKept(t)
         /\ pc'[t] = "idle" /\ hand'[t] = << >> /\ busiest'[t][1] = NoWorker
         /\ ~HoldsReadLock(t)' /\ Held(t)' = {}
         /\ \A u \in Threads : u # t => Held(u)' = Held(u)
         /\ pc' \in [Threads -> Labels] /\ hand' \in [Threads -> Seq(Tasks)]
         /\ at' \in [Threads -> Nat] /\ base' \in [Threads -> Nat]
         /\ busiest' \in [Threads -> (Nat \cup {NoWorker}) \X Nat]
<1> USE DEF TypeOK, Return, Go
<1>1. pc' \in [Threads -> Labels] /\ hand' \in [Threads -> Seq(Tasks)]
  BY DEF Labels
<1>2. at' \in [Threads -> Nat] /\ base' \in [Threads -> Nat]
  OBVIOUS
<1>3. busiest' \in [Threads -> (Nat \cup {NoWorker}) \X Nat] /\ busiest'[t][1] = NoWorker
  BY DEF NotBusy
<1>4. OthersKept(t) /\ pc'[t] = "idle" /\ hand'[t] = << >>
  BY DEF OthersKept
<1>5. ~HoldsReadLock(t)' /\ Held(t)' = {} /\ \A u \in Threads : u # t => Held(u)' = Held(u)
  BY <1>4 DEF HoldsReadLock, Held, OthersKept, Elements
<1> QED
  BY <1>1, <1>2, <1>3, <1>4, <1>5

\* submit returns None: its task moves from the caller, or from the call, to the
\* dropped ones.
LEMMA DropKeepsInv ==
  ASSUME SchedulerInv, NEW t \in Submitters, NEW task \in Tasks,
         pc[t] \notin {"submit_count", "submit_id"},
         ReturnNone(t, task),
         UNCHANGED <<queues, admin, submit_counter, next_task_id>>,
         \/ pc[t] = "idle" /\ task \in fresh /\ fresh' = fresh \ {task}
         \/ pc[t] # "idle" /\ task = hand[t][1] /\ fresh' = fresh
  PROVE  SchedulerInv'
<1> USE DEF queues, admin
<1>1. t \in Threads /\ TypeOK /\ Return(t) /\ dropped' = dropped \cup {task}
      /\ UNCHANGED <<delivered, ids, late>>
  BY DEF Threads, SchedulerInv, ReturnNone
<1>2. /\ OthersKept(t) /\ pc'[t] = "idle" /\ hand'[t] = << >> /\ busiest'[t][1] = NoWorker
      /\ ~HoldsReadLock(t)' /\ Held(t)' = {}
      /\ \A u \in Threads : u # t => Held(u)' = Held(u)
  BY <1>1, ReturnFacts
<1>3. TypeOK'
  <2>1. fresh' \subseteq Tasks /\ dropped' \subseteq Tasks
    BY <1>1 DEF TypeOK
  <2> QED
    BY <1>1, <2>1, ReturnFacts, Zenon DEF TypeOK
<1>4. ControlInv' /\ BusiestInv' /\ InBounds'
  <2>1. \A w \in WorkerIds : deque'[w] # << >> => w < num_workers
    BY Zenon DEF SchedulerInv, InBounds
  <2> QED
    BY <1>1, <1>2, <2>1, LocalInvs DEF SubmitLabels
<1>5. MutexInv'
  <2>1. pc[t] \notin Counting /\ pc'[t] \notin Counting
    BY <1>2, Zenon DEF SchedulerInv, ControlInv, SubmitLabels, Counting
  <2> QED
    BY <1>1, <1>2, <2>1, QuietKeepsMutexInv, Zenon DEF OthersKept
<1>6. LenIsExact'
  BY DEF SchedulerInv, LenIsExact
<1>7. Held(t) = IF pc[t] = "idle" THEN {} ELSE {task}
  <2>1. CASE pc[t] = "idle"
    BY <2>1 DEF SchedulerInv, ControlInv, Held, Elements
  <2>2. CASE pc[t] # "idle"
    <3>1. Len(hand[t]) = 1 /\ hand[t] \in Seq(Tasks)
      BY <1>1, <2>2 DEF SchedulerInv, ControlInv, TypeOK
    <3>2. Elements(hand[t]) = {hand[t][1]}
      BY <3>1 DEF Elements
    <3> QED
      BY <2>2, <3>2 DEF Held
  <2> QED
    BY <2>1, <2>2
<1>8. \E src \in Places : Moved(Contents, Contents', Places, src, <<"fate", "dropped">>, {task})
  <2>1. CASE pc[t] = "idle"
    <3>1. ASSUME NEW p \in Places \ {<<"fate", "fresh">>, <<"fate", "dropped">>} PROVE Contents'[p] = Contents[p]
      <4>1. \A u \in Threads : Held(u)' = Held(u)
        BY <1>1, <1>2, <1>7, <2>1, Zenon
      <4>2. deque' = deque /\ delivered' = delivered
        BY <1>1
      <4> QED
        BY <4>1, <4>2, PlaceKinds, ContentsOf, ContentsAfter
    <3>2. Moved(Contents, Contents', Places, <<"fate", "fresh">>, <<"fate", "dropped">>, {task})
      BY <1>1, <2>1, <3>1, ContentsOf, ContentsAfter DEF Moved
    <3> QED
      BY <3>2, ContentsOf
  <2>2. CASE pc[t] # "idle"
    <3>1. ASSUME NEW p \in Places \ {<<"thread", t>>, <<"fate", "dropped">>} PROVE Contents'[p] = Contents[p]
      BY <1>1, <1>2, <2>2, PlaceKinds, ContentsOf, ContentsAfter, Zenon
    <3>2. Moved(Contents, Contents', Places, <<"thread", t>>, <<"fate", "dropped">>, {task})
      BY <1>1, <1>2, <1>7, <2>2, <3>1, ContentsOf, ContentsAfter, DistinctPlaces, SMTT(30) DEF Moved
    <3> QED
      BY <1>1, <3>2, ContentsOf
  <2> QED
    BY <2>1, <2>2
<1>9. NoTaskDuplicated' /\ NoTaskLost'
  <2>1. \A u \in Threads : NoRepeats(hand'[u])
    BY <1>2 DEF NoRepeats, OthersKept, SchedulerInv, NoTaskDuplicated
  <2> QED
    BY <1>8, <2>1, MoveKeepsPartition, Zenon DEF SchedulerInv, NoTaskDuplicated
<1>10. PushedInv'
  BY <1>1, <1>2, SchedulerAssumption, SMTT(30) DEF SchedulerInv, PushedInv, OthersKept, Threads
<1>11. IdsInv'
  BY <1>1, Zenon DEF SchedulerInv, IdsInv, IdsUnique
<1> QED
  BY <1>3, <1>4, <1>5, <1>6, <1>9, <1>10, <1>11 DEF SchedulerInv

\* A step that locks the mutex of worker w and changes its deque to d.
LEMMA LockKeepsMutexInv ==
  ASSUME SchedulerInv, NEW t \in Threads, NEW w \in WorkerIds, NEW d \in Seq(Tasks),
         OthersKept(t), at'[t] = w, pc[t] \notin Counting, pc'[t] \in Counting,
         mutex[w] = NoThread, mutex' = [mutex EXCEPT ![w] = t],
         deque' = [deque EXCEPT ![w] = d], len' = len,
         Len(d) <= Capacity,
         pc'[t] = "submit_count" => Len(d) = len[w] + 1,
         pc'[t] = "take_count" => Len(d) + Len(hand'[t]) = len[w]
  PROVE  MutexInv' /\ LenIsExact'
<1>1. TypeOK /\ MutexInv /\ LenIsExact
  BY DEF SchedulerInv
<1>2. mutex'[w] = t /\ deque'[w] = d /\ t # NoThread
  BY <1>1, SchedulerAssumption, Zenon DEF TypeOK
<1>3. \A v \in WorkerIds : v # w => mutex'[v] = mutex[v] /\ deque'[v] = deque[v]
  BY <1>1, Zenon DEF TypeOK
<1>4. \A u \in Threads : u # t => pc'[u] = pc[u] /\ at'[u] = at[u] /\ hand'[u] = hand[u]
  BY Zenon DEF OthersKept
<1>5. \A u \in Threads : pc[u] \in Counting => at[u] \in WorkerIds /\ at[u] # w
  <2> SUFFICES ASSUME NEW u \in Threads, pc[u] \in Counting PROVE at[u] \in WorkerIds /\ at[u] # w
    OBVIOUS
  <2>1. HoldsReadLock(u) /\ mutex[at[u]] = u /\ u # NoThread
    BY <1>1, SchedulerAssumption DEF HoldsReadLock, Counting, MutexInv
  <2> QED
    BY <2>1, Indices
<1>6. \A u \in Threads : pc'[u] \in Counting => mutex'[at'[u]] = u
  BY <1>1, <1>2, <1>3, <1>4, <1>5 DEF MutexInv
<1>7. \A v \in WorkerIds : mutex'[v] # NoThread => pc'[mutex'[v]] \in Counting /\ at'[mutex'[v]] = v
  <2> SUFFICES ASSUME NEW v \in WorkerIds, mutex'[v] # NoThread, v # w
               PROVE  pc'[mutex'[v]] \in Counting /\ at'[mutex'[v]] = v
    BY <1>2, SMTT(30)
  <2>1. mutex'[v] = mutex[v] /\ mutex[v] \in Threads /\ pc[mutex[v]] \in Counting /\ at[mutex[v]] = v
    BY <1>1, <1>3, SMTT(30) DEF TypeOK, MutexInv
  <2> QED
    BY <1>4, <2>1
<1>8. \A u \in Threads :
        /\ pc'[u] = "submit_count" => Len(deque'[at'[u]]) = len'[at'[u]] + 1
        /\ pc'[u] = "take_count" => Len(deque'[at'[u]]) + Len(hand'[u]) = len'[at'[u]]
  <2> SUFFICES ASSUME NEW u \in Threads, pc'[u] \in Counting, u # t
               PROVE  /\ pc'[u] = "submit_count" => Len(deque'[at'[u]]) = len[at'[u]] + 1
                      /\ pc'[u] = "take_count" => Len(deque'[at'[u]]) + Len(hand'[u]) = len[at'[u]]
    BY <1>2, Zenon DEF Counting
  <2>1. at'[u] = at[u] /\ hand'[u] = hand[u] /\ pc'[u] = pc[u]
    BY <1>4, Zenon
  <2>2. deque'[at[u]] = deque[at[u]]
    BY <1>3, <1>5, <2>1, Zenon
  <2>3. /\ pc[u] = "submit_count" => Len(deque[at[u]]) = len[at[u]] + 1
        /\ pc[u] = "take_count" => Len(deque[at[u]]) + Len(hand[u]) = len[at[u]]
    BY <1>1, ZenonT(30) DEF MutexInv
  <2> QED
    BY <2>1, <2>2, <2>3, ZenonT(30)
<1>9. LenIsExact'
  BY <1>1, <1>2, <1>3 DEF LenIsExact
<1> QED
  BY <1>6, <1>7, <1>8, <1>9, Zenon DEF MutexInv

\* A step that makes the length of the deque exact and unlocks its mutex.
LEMMA UnlockKeepsMutexInv ==
  ASSUME SchedulerInv, NEW t \in Threads, pc[t] \in Counting, pc'[t] \notin Counting,
         OthersKept(t), deque' = deque, mutex' = [mutex EXCEPT ![at[t]] = NoThread],
         len' = [len EXCEPT ![at[t]] = Len(deque[at[t]])]
  PROVE  MutexInv' /\ LenIsExact'
<1>1. TypeOK /\ MutexInv /\ LenIsExact
  BY DEF SchedulerInv
<1>2. at[t] \in WorkerIds /\ mutex[at[t]] = t
  BY <1>1, Indices DEF HoldsReadLock, Counting, MutexInv
<1>3. mutex'[at[t]] = NoThread /\ len'[at[t]] = Len(deque[at[t]])
  BY <1>1, <1>2 DEF TypeOK
<1>4. \A v \in WorkerIds : v # at[t] => mutex'[v] = mutex[v] /\ len'[v] = len[v]
  BY <1>1 DEF TypeOK
<1>5. \A u \in Threads : u # t => pc'[u] = pc[u] /\ at'[u] = at[u] /\ hand'[u] = hand[u]
  BY DEF OthersKept
<1>6. \A u \in Threads : pc[u] \in Counting /\ u # t => at[u] \in WorkerIds /\ at[u] # at[t]
  <2> SUFFICES ASSUME NEW u \in Threads, pc[u] \in Counting, u # t PROVE at[u] \in WorkerIds /\ at[u] # at[t]
    OBVIOUS
  <2>1. HoldsReadLock(u) /\ mutex[at[u]] = u
    BY <1>1 DEF HoldsReadLock, Counting, MutexInv
  <2> QED
    BY <1>2, <2>1, Indices
<1>7. \A u \in Threads : pc'[u] \in Counting => mutex'[at'[u]] = u
  BY <1>1, <1>4, <1>5, <1>6, SMTT(30) DEF MutexInv
<1>8. \A v \in WorkerIds : mutex'[v] # NoThread => pc'[mutex'[v]] \in Counting /\ at'[mutex'[v]] = v
  <2> SUFFICES ASSUME NEW v \in WorkerIds, mutex'[v] # NoThread, v # at[t]
               PROVE  pc'[mutex'[v]] \in Counting /\ at'[mutex'[v]] = v
    BY <1>3
  <2>1. mutex'[v] = mutex[v] /\ mutex[v] \in Threads /\ pc[mutex[v]] \in Counting /\ at[mutex[v]] = v
    BY <1>1, <1>4 DEF TypeOK, MutexInv
  <2> QED
    BY <1>5, <2>1
<1>9. \A u \in Threads :
        /\ pc'[u] = "submit_count" => Len(deque'[at'[u]]) = len'[at'[u]] + 1
        /\ pc'[u] = "take_count" => Len(deque'[at'[u]]) + Len(hand'[u]) = len'[at'[u]]
  <2> SUFFICES ASSUME NEW u \in Threads, pc'[u] \in Counting, u # t
               PROVE  /\ pc'[u] = "submit_count" => Len(deque'[at'[u]]) = len'[at'[u]] + 1
                      /\ pc'[u] = "take_count" => Len(deque'[at'[u]]) + Len(hand'[u]) = len'[at'[u]]
    BY Zenon DEF Counting
  <2>1. len'[at'[u]] = len[at[u]] /\ at'[u] = at[u] /\ hand'[u] = hand[u] /\ pc'[u] = pc[u]
    BY <1>4, <1>5, <1>6
  <2> QED
    BY <1>1, <2>1, Zenon DEF MutexInv
<1>10. LenIsExact'
  BY <1>1, <1>2, <1>3, <1>4 DEF LenIsExact
<1> QED
  BY <1>7, <1>8, <1>9, <1>10, Zenon DEF MutexInv

\* A submitting thread inside its call holds the one task it was given.
LEMMA SubmitterHand ==
  ASSUME SchedulerInv, NEW t \in Submitters, pc[t] # "idle"
  PROVE  /\ t \in Threads /\ Len(hand[t]) = 1 /\ hand[t][1] \in Tasks
         /\ Elements(hand[t]) = {hand[t][1]}
<1>1. t \in Threads /\ Len(hand[t]) = 1 /\ hand[t] \in Seq(Tasks)
  BY DEF Threads, SchedulerInv, ControlInv, TypeOK
<1> QED
  BY <1>1, OneItem, Zenon

\* push moves the task from the call into the deque.
LEMMA SubmitPushKeepsInv ==
  ASSUME SchedulerInv, NEW t \in Submitters, SubmitPush(t)
  PROVE  SchedulerInv'
<1> DEFINE w == at[t]
           k == hand[t][1]
           d == Append(deque[w], k)
<1>1. /\ pc[t] = "submit_push" /\ mutex[w] = NoThread /\ Len(deque[w]) < Capacity
      /\ mutex' = [mutex EXCEPT ![w] = t] /\ deque' = [deque EXCEPT ![w] = d]
      /\ pc' = [pc EXCEPT ![t] = "submit_count"]
      /\ UNCHANGED <<len, active, num_workers, running, submit_counter, next_task_id,
                     base, at, busiest, hand, fresh, dropped, delivered, ids>>
  BY DEF SubmitPush, Go, admin, local
<1>2. /\ t \in Threads /\ TypeOK /\ k \in Tasks /\ Elements(hand[t]) = {k} /\ Len(hand[t]) = 1
      /\ w \in WorkerIds /\ w < num_workers /\ base[t] < num_workers
  <2>1. t \in Threads /\ HoldsReadLock(t) /\ TypeOK /\ pc[t] # "idle"
    BY <1>1 DEF Threads, HoldsReadLock, SchedulerInv
  <2>2. k \in Tasks /\ Elements(hand[t]) = {k} /\ Len(hand[t]) = 1
    BY <2>1, SubmitterHand
  <2>3. w \in WorkerIds /\ w < num_workers /\ base[t] < num_workers
    BY <2>1, Indices, LocalFacts
  <2> QED
    BY <2>1, <2>2, <2>3
<1>3. late' \subseteq Tasks
  BY <1>2 DEF SubmitPush, TypeOK
<1>4. /\ deque[w] \in Seq(Tasks) /\ d \in Seq(Tasks) /\ Len(d) = Len(deque[w]) + 1
      /\ Elements(d) = Elements(deque[w]) \cup {k}
      /\ k \notin Elements(deque[w]) /\ NoRepeats(deque[w]) => NoRepeats(d)
  BY <1>2, AppendElements DEF TypeOK
<1> HIDE DEF w, k, d
<1>5. OthersKept(t) /\ pc'[t] = "submit_count" /\ at'[t] = w /\ hand'[t] = hand[t]
  BY <1>1, <1>2 DEF OthersKept, TypeOK, w
<1>6. TypeOK'
  <2>1. /\ deque' \in [WorkerIds -> Seq(Tasks)] /\ mutex' \in [WorkerIds -> Threads \cup {NoThread}]
        /\ pc' \in [Threads -> Labels]
    BY <1>1, <1>2, <1>4 DEF TypeOK, Labels
  <2> QED
    BY <1>1, <1>2, <1>3, <2>1, Zenon DEF TypeOK
<1>7. MutexInv' /\ LenIsExact'
  <2>1. len[w] = Len(deque[w]) /\ Len(deque[w]) \in Nat /\ Capacity \in Nat
    <3>1. len[w] = Len(deque[w])
      BY <1>1, <1>2, Zenon DEF SchedulerInv, LenIsExact
    <3>2. Len(deque[w]) \in Nat /\ Capacity \in Nat
      BY <1>4, SchedulerAssumption
    <3> QED
      BY <3>1, <3>2
  <2>2. Len(d) <= Capacity /\ Len(d) = len[w] + 1
    BY <1>1, <1>4, <2>1
  <2>3. pc[t] \notin Counting /\ pc'[t] \in Counting /\ pc'[t] # "take_count" /\ len' = len
    BY <1>1, <1>5, Zenon DEF Counting
  <2> QED
    BY <1>1, <1>2, <1>4, <1>5, <2>2, <2>3, LockKeepsMutexInv, Zenon
<1>8. ControlInv' /\ BusiestInv' /\ InBounds'
  <2>1. \A v \in WorkerIds : deque'[v] # << >> => v < num_workers
    BY <1>1, <1>2, Zenon DEF SchedulerInv, InBounds, TypeOK
  <2>2. busiest'[t][1] # NoWorker => busiest'[t][1] < num_workers
    BY <1>1, <1>2, LocalFacts
  <2>3. at'[t] < num_workers /\ base'[t] < num_workers
    BY <1>1, <1>2, <1>5
  <2>4. t \in Submitters /\ pc'[t] \in SubmitLabels \cup {"idle"} /\ pc'[t] # "idle" /\ Len(hand'[t]) = 1
    BY <1>2, <1>5 DEF SubmitLabels
  <2> QED
    BY <1>1, <1>2, <1>5, <2>1, <2>2, <2>3, <2>4, LocalInvs, Zenon
<1>9. Held(t) = {k} /\ Held(t)' = {} /\ \A u \in Threads : u # t => Held(u)' = Held(u)
  BY <1>1, <1>2, <1>5 DEF Held, OthersKept
<1>10. /\ Elements(deque'[w]) = Elements(deque[w]) \cup {k}
       /\ \A v \in WorkerIds : v # w => deque'[v] = deque[v]
       /\ deque'[w] = d
  BY <1>1, <1>2, <1>4 DEF TypeOK
<1>11. Moved(Contents, Contents', Places, <<"thread", t>>, <<"queue", w>>, {k})
  <2>1. ASSUME NEW p \in Places \ {<<"thread", t>>, <<"queue", w>>} PROVE Contents'[p] = Contents[p]
    BY <1>1, <1>9, <1>10, PlaceKinds, ContentsOf, ContentsAfter, SMTT(30)
  <2> QED
    BY <1>2, <1>9, <1>10, <2>1, ContentsOf, ContentsAfter, DistinctPlaces, SMTT(30) DEF Moved
<1>12. NoTaskDuplicated' /\ NoTaskLost'
  <2>1. k \notin Elements(deque[w])
    <3>1. Contents[<<"thread", t>>] \cap Contents[<<"queue", w>>] = {}
      BY <1>2, ContentsOf, DistinctPlaces, Zenon DEF SchedulerInv, NoTaskDuplicated
    <3> QED
      BY <3>1, <1>2, <1>9, ContentsOf, Zenon
  <2>2. \A v \in WorkerIds : NoRepeats(deque'[v])
    BY <1>4, <1>10, <2>1 DEF SchedulerInv, NoTaskDuplicated
  <2>3. \A u \in Threads : NoRepeats(hand'[u])
    BY <1>1, Zenon DEF SchedulerInv, NoTaskDuplicated
  <2> QED
    BY <1>11, <2>2, <2>3, MoveKeepsPartition
<1>13. PushedInv'
  <2>1. \A u \in Consumers : u \in Threads /\ u # t /\ Held(u)' = Held(u)
    BY <1>9, SchedulerAssumption DEF Threads
  <2>2. \A v \in WorkerIds : Elements(deque[v]) \subseteq Elements(deque'[v])
    BY <1>10
  <2>3. \A u \in Submitters : u # t => pc'[u] = pc[u]
    BY <1>5 DEF OthersKept, Threads
  <2>4. \A j \in Tasks :
           (ids'[j] # NoId \/ \E u \in Submitters : pc'[u] \in {"submit_count", "submit_id"} /\ hand'[u][1] = j)
           => j = k \/ ids[j] # NoId \/ \E u \in Submitters : pc[u] \in {"submit_count", "submit_id"} /\ hand[u][1] = j
    BY <1>1, <2>3 DEF k
  <2>5. k \in Elements(deque'[w])
    BY <1>10
  <2> QED
    <3> SUFFICES ASSUME NEW j \in Tasks,
                        \/ ids'[j] # NoId
                        \/ \E u \in Submitters : pc'[u] \in {"submit_count", "submit_id"} /\ hand'[u][1] = j
                 PROVE  \/ j \in delivered'
                        \/ \E v \in WorkerIds : j \in Elements(deque'[v])
                        \/ \E u \in Consumers : j \in Held(u)'
      BY Zenon DEF PushedInv
    <3>1. CASE j = k
      BY <1>2, <2>5, <3>1, Zenon
    <3>2. CASE j # k
      <4>1. \/ j \in delivered
            \/ \E v \in WorkerIds : j \in Elements(deque[v])
            \/ \E u \in Consumers : j \in Held(u)
        BY <2>4, <3>2, Zenon DEF SchedulerInv, PushedInv
      <4> QED
        BY <1>1, <2>1, <2>2, <4>1, Zenon
    <3> QED
      BY <3>1, <3>2
<1>14. IdsInv'
  BY <1>1 DEF SchedulerInv, IdsInv, IdsUnique
<1> QED
  BY <1>6, <1>7, <1>8, <1>12, <1>13, <1>14 DEF SchedulerInv

\* The end of push: no task moves, the length catches up with the deque.
LEMMA SubmitCountKeepsInv ==
  ASSUME SchedulerInv, NEW t \in Submitters, SubmitCount(t)
  PROVE  SchedulerInv'
<1>1. /\ pc[t] = "submit_count"
      /\ len' = [len EXCEPT ![at[t]] = len[at[t]] + 1]
      /\ mutex' = [mutex EXCEPT ![at[t]] = NoThread]
      /\ pc' = [pc EXCEPT ![t] = "submit_id"]
      /\ UNCHANGED <<deque, active, num_workers, running, submit_counter, next_task_id,
                     base, at, busiest, hand, fresh, dropped, delivered, ids, late>>
  BY DEF SubmitCount, Go, admin, local, history
<1>2. t \in Threads /\ TypeOK /\ at[t] \in WorkerIds /\ at[t] < num_workers /\ base[t] < num_workers
      /\ Len(hand[t]) = 1
  <2>1. t \in Threads /\ HoldsReadLock(t)
    BY <1>1 DEF Threads, HoldsReadLock
  <2> QED
    BY <1>1, <2>1, SubmitterHand, Indices, LocalFacts DEF SchedulerInv
<1>3. OthersKept(t) /\ pc'[t] = "submit_id"
  BY <1>1, <1>2 DEF OthersKept, TypeOK
<1>4. MutexInv' /\ LenIsExact'
  <2>1. Len(deque[at[t]]) = len[at[t]] + 1
    BY <1>1, <1>2, Zenon DEF SchedulerInv, MutexInv
  <2> QED
    BY <1>1, <1>2, <1>3, <2>1, UnlockKeepsMutexInv, Zenon DEF Counting
<1>5. TypeOK'
  <2>1. /\ len' \in [WorkerIds -> Nat] /\ mutex' \in [WorkerIds -> Threads \cup {NoThread}]
        /\ pc' \in [Threads -> Labels]
    BY <1>1, <1>2 DEF TypeOK, Labels
  <2> QED
    BY <1>1, <1>2, <2>1, Zenon DEF TypeOK
<1>6. ControlInv' /\ BusiestInv' /\ InBounds'
  <2>1. /\ \A v \in WorkerIds : deque'[v] # << >> => v < num_workers
        /\ busiest'[t][1] # NoWorker => busiest'[t][1] < num_workers
        /\ at'[t] < num_workers /\ base'[t] < num_workers
    BY <1>1, <1>2, LocalFacts, Zenon DEF SchedulerInv, InBounds
  <2>2. pc'[t] \in SubmitLabels \cup {"idle"} /\ pc'[t] # "idle" /\ Len(hand'[t]) = 1
    BY <1>1, <1>2, <1>3 DEF SubmitLabels
  <2> QED
    BY <1>1, <1>2, <1>3, <2>1, <2>2, LocalInvs, Zenon
<1>7. \A u \in Threads : Held(u)' = Held(u)
  BY <1>1, <1>2, <1>3 DEF Held, OthersKept
<1>8. Contents' = Contents
  BY <1>1, <1>7, SMTT(30) DEF Contents, Places
<1>9. NoTaskDuplicated' /\ NoTaskLost'
  BY <1>1, <1>8, Partition, PartitionAfter, Zenon DEF SchedulerInv
<1>10. PushedInv'
  BY <1>1, <1>3, <1>7, SMTT(30) DEF SchedulerInv, PushedInv, Threads, OthersKept
<1>11. IdsInv'
  BY <1>1 DEF SchedulerInv, IdsInv, IdsUnique
<1> QED
  BY <1>4, <1>5, <1>6, <1>9, <1>10, <1>11 DEF SchedulerInv

\* The end of submit: the task, which is out of the call's reach, gets a new id.
LEMMA SubmitIdKeepsInv ==
  ASSUME SchedulerInv, NEW t \in Submitters, SubmitId(t)
  PROVE  SchedulerInv'
<1> DEFINE k == hand[t][1]
<1>1. /\ pc[t] = "submit_id" /\ ids' = [ids EXCEPT ![k] = next_task_id]
      /\ next_task_id' = next_task_id + 1 /\ Return(t)
      /\ UNCHANGED <<deque, len, mutex, active, num_workers, running, submit_counter,
                     fresh, dropped, delivered, late>>
  BY Zenon DEF SubmitId, queues, admin
<1>2. t \in Threads /\ TypeOK /\ k \in Tasks
  BY <1>1, SubmitterHand, Zenon DEF SchedulerInv
<1>3. /\ OthersKept(t) /\ pc'[t] = "idle" /\ hand'[t] = << >> /\ busiest'[t][1] = NoWorker
      /\ ~HoldsReadLock(t)' /\ Held(t)' = {}
      /\ \A u \in Threads : u # t => Held(u)' = Held(u)
  BY <1>1, <1>2, ReturnFacts, Zenon
<1>4. TypeOK'
  <2>1. ids' \in [Tasks -> Nat \cup {NoId}] /\ next_task_id' \in Nat
    BY <1>1, <1>2 DEF TypeOK
  <2> QED
    BY <1>1, <1>2, <2>1, ReturnFacts, Zenon DEF TypeOK
<1>5. ControlInv' /\ BusiestInv' /\ InBounds'
  <2>1. \A w \in WorkerIds : deque'[w] # << >> => w < num_workers
    BY <1>1, Zenon DEF SchedulerInv, InBounds
  <2> QED
    BY <1>1, <1>2, <1>3, <2>1, LocalInvs, Zenon DEF SubmitLabels
<1>6. MutexInv'
  BY <1>1, <1>2, <1>3, QuietKeepsMutexInv, Zenon DEF OthersKept, Counting
<1>7. LenIsExact'
  BY <1>1, Zenon DEF SchedulerInv, LenIsExact
<1>8. \A u \in Threads : Held(u)' = Held(u)
  BY <1>1, <1>3, Zenon DEF Held
<1>9. NoTaskDuplicated' /\ NoTaskLost'
  <2>1. Contents' = Contents
    BY <1>1, <1>8, SMTT(30) DEF Contents, Places
  <2>2. \A u \in Threads : NoRepeats(hand'[u])
    BY <1>3, SMTT(30) DEF NoRepeats, OthersKept, SchedulerInv, NoTaskDuplicated
  <2> QED
    BY <1>1, <2>1, <2>2, Partition, PartitionAfter, Zenon DEF SchedulerInv
<1>10. PushedInv'
  <2>1. \A j \in Tasks :
           (ids'[j] # NoId \/ \E u \in Submitters : pc'[u] \in {"submit_count", "submit_id"} /\ hand'[u][1] = j)
           => ids[j] # NoId \/ \E u \in Submitters : pc[u] \in {"submit_count", "submit_id"} /\ hand[u][1] = j
    BY <1>1, <1>2, <1>3, Zenon DEF TypeOK, OthersKept, Threads
  <2> QED
    BY <1>1, <1>8, <2>1, Zenon DEF SchedulerInv, PushedInv, Threads
<1>11. IdsInv'
  <2> HIDE DEF k
  <2>1. \A j \in Tasks : ids[j] # NoId => ids[j] \in Nat /\ ids[j] < next_task_id
    BY <1>2 DEF SchedulerInv, IdsInv, TypeOK
  <2>2. ids'[k] = next_task_id /\ \A j \in Tasks : j # k => ids'[j] = ids[j]
    BY <1>1, <1>2 DEF TypeOK
  <2>3. next_task_id \in Nat /\ IdsUnique
    BY <1>2 DEF TypeOK, SchedulerInv, IdsInv
  <2>4. IdsUnique'
    BY <2>1, <2>2, <2>3 DEF IdsUnique
  <2>5. \A j \in Tasks : ids'[j] # NoId => ids'[j] < next_task_id'
    BY <1>1, <2>1, <2>2, <2>3
  <2> QED
    BY <2>4, <2>5, Zenon DEF IdsInv
<1> QED
  BY <1>4, <1>5, <1>6, <1>7, <1>9, <1>10, <1>11, Zenon DEF SchedulerInv

=============================================================================
