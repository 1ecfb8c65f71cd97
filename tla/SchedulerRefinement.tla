------------------------- MODULE SchedulerRefinement -------------------------
(***************************************************************************)
(* Proof that Scheduler implements TaskPool, for any number of threads,    *)
(* tasks and workers and any capacity: every step of a call accepts a      *)
(* task, refuses one, hands some to a consumer, or changes nothing that    *)
(* the pool promises anything about.                                       *)
(***************************************************************************)
EXTENDS SchedulerProofs, FiniteSetTheorems

-----------------------------------------------------------------------------
(* Sizes *)

\* A deque without repeats has as many tasks as it is long.
LEMMA ElementsCount ==
  ASSUME NEW S, NEW s \in Seq(S), NoRepeats(s)
  PROVE  IsFiniteSet(Elements(s)) /\ Cardinality(Elements(s)) = Len(s)
<1>1. Len(s) \in Nat /\ DOMAIN s = 1 .. Len(s) /\ s \in [1 .. Len(s) -> S]
  OBVIOUS
<1>2. s \in [1 .. Len(s) -> Elements(s)]
  BY <1>1 DEF Elements
<1>3. s \in Bijection(1 .. Len(s), Elements(s))
  BY <1>1, <1>2 DEF Bijection, Injection, Surjection, IsInjective, NoRepeats, Elements
<1>4. ExistsBijection(1 .. Len(s), Elements(s))
  BY <1>3 DEF ExistsBijection
<1> QED
  BY <1>1, <1>4, FS_CountingElements, FS_NatBijection

\* All the deques together hold at most Capacity * MaxWorkers tasks.
LEMMA QueuesBounded ==
  ASSUME NEW d \in [WorkerIds -> Seq(Tasks)], \A w \in WorkerIds : Len(d[w]) <= Capacity
  PROVE  LET all == UNION {Elements(d[w]) : w \in WorkerIds}
         IN  IsFiniteSet(all) /\ Cardinality(all) \in Nat /\ Cardinality(all) <= Capacity * MaxWorkers
<1> DEFINE all == UNION {Elements(d[w]) : w \in WorkerIds}
           slots == WorkerIds \X (1 .. Capacity)
           used == {p \in slots : p[2] <= Len(d[p[1]])}
           item == [p \in used |-> d[p[1]][p[2]]]
<1>1. Capacity \in Nat /\ MaxWorkers \in Nat
  BY SchedulerAssumption
<1>2. IsFiniteSet(slots) /\ Cardinality(slots) = MaxWorkers * Capacity
  <2>1. IsFiniteSet(WorkerIds) /\ Cardinality(WorkerIds) = MaxWorkers
    BY <1>1, FS_Interval DEF WorkerIds
  <2>2. IsFiniteSet(1 .. Capacity) /\ Cardinality(1 .. Capacity) = Capacity
    BY <1>1, FS_Interval
  <2> QED
    BY <2>1, <2>2, FS_Product, Zenon
<1>3. IsFiniteSet(used) /\ Cardinality(used) <= MaxWorkers * Capacity
  BY <1>2, FS_Subset
<1>4. \A w \in WorkerIds, i \in 1 .. Capacity :
         i <= Len(d[w]) => i \in DOMAIN d[w]
  BY <1>1
<1>5. \A w \in WorkerIds : \A i \in DOMAIN d[w] : i \in 1 .. Capacity /\ i <= Len(d[w])
  BY <1>1
<1>6. item \in Surjection(used, all)
  <2>1. ASSUME NEW p \in used PROVE item[p] \in all
    <3>1. p[1] \in WorkerIds /\ p[2] \in DOMAIN d[p[1]]
      BY <1>4
    <3> QED
      BY <3>1 DEF Elements
  <2>2. ASSUME NEW k \in all PROVE \E p \in used : item[p] = k
    <3>1. PICK w \in WorkerIds : k \in Elements(d[w])
      OBVIOUS
    <3>2. PICK i \in DOMAIN d[w] : k = d[w][i]
      BY <3>1 DEF Elements
    <3>3. <<w, i>> \in used
      BY <1>5, <3>2
    <3>4. item[<<w, i>>] = k
      BY <3>2, <3>3
    <3> QED
      BY <3>3, <3>4
  <2> HIDE DEF used, all
  <2>3. item \in [used -> all]
    BY <2>1
  <2> HIDE DEF item
  <2> QED
    BY <2>2, <2>3 DEF Surjection
<1> HIDE DEF used, item, slots, all
<1>7. IsFiniteSet(all) /\ Cardinality(all) <= Cardinality(used)
  BY <1>3, <1>6, FS_Surjection
<1>8. Cardinality(all) \in Nat /\ Cardinality(used) \in Nat
  BY <1>3, <1>7, FS_CardinalityType
<1>9. MaxWorkers * Capacity = Capacity * MaxWorkers /\ MaxWorkers * Capacity \in Nat
  BY <1>1
<1> QED
  BY <1>3, <1>7, <1>8, <1>9 DEF all

-----------------------------------------------------------------------------
(* The pool's view of the scheduler *)

Waiting == UNION {Elements(deque[w]) : w \in WorkerIds}
InCalls == UNION {Held(t) : t \in Consumers}

\* A task is waiting, or in a call, if some deque, or some consumer, has it.
LEMMA Views ==
  /\ \A k : k \in Waiting <=> \E w \in WorkerIds : k \in Elements(deque[w])
  /\ \A k : k \in InCalls <=> \E t \in Consumers : k \in Held(t)
  BY Zenon DEF Waiting, InCalls

\* The same after a step.
LEMMA ViewsAfter ==
  /\ \A k : k \in Waiting' <=> \E w \in WorkerIds : k \in Elements(deque'[w])
  /\ \A k : k \in InCalls' <=> \E t \in Consumers : k \in Held(t)'
  BY Zenon DEF Waiting, InCalls, WorkerIds

\* TaskPool counts tasks as this module does.
LEMMA PoolCounts == \A S : Pool!Cardinality(S) = Cardinality(S)
  BY DEF Pool!Cardinality, Cardinality

\* A step that moves tasks at most from a call to the delivered ones is none of the pool's.
LEMMA Stutters ==
  ASSUME Waiting' = Waiting, delivered' \cup InCalls' = delivered \cup InCalls,
         dropped' = dropped
  PROVE  UNCHANGED Pool!poolVars
  BY DEF Pool!poolVars, Waiting, InCalls

\* A step that leaves the deques and what consumers hold alone.
LEMMA QuietStutters ==
  ASSUME UNCHANGED <<deque, dropped, delivered>>, \A t \in Consumers : Held(t)' = Held(t)
  PROVE  UNCHANGED Pool!poolVars
<1>1. \A k : k \in Waiting' <=> k \in Waiting
  BY Views, ViewsAfter, Zenon
<1>2. \A k : k \in InCalls' <=> k \in InCalls
  BY Views, ViewsAfter, Zenon
<1> QED
  BY <1>1, <1>2, Stutters

\* The task a submitting call was given is unknown to the pool until it is pushed.
LEMMA GivenIsUnknown ==
  ASSUME SchedulerInv, NEW k \in Tasks, NEW t \in Submitters, k \in fresh \/ k \in Held(t)
  PROVE  k \in Pool!Unknown
<1>1. PICK p \in Places : k \in Contents[p] /\ (p = <<"fate", "fresh">> \/ p = <<"thread", t>>)
  BY ContentsOf, Zenon DEF Threads
<1>2. \A q \in Places : q # p => k \notin Contents[q]
  BY <1>1, Zenon DEF SchedulerInv, NoTaskDuplicated
<1>3. \A w \in WorkerIds : k \notin Elements(deque[w])
  <2> SUFFICES ASSUME NEW w \in WorkerIds PROVE k \notin Elements(deque[w])
    OBVIOUS
  <2>1. <<"queue", w>> # p
    BY <1>1
  <2> QED
    BY <1>2, <2>1, ContentsOf, Zenon
<1>4. \A u \in Consumers : k \notin Held(u)
  <2> SUFFICES ASSUME NEW u \in Consumers PROVE k \notin Held(u)
    OBVIOUS
  <2>1. u \in Threads /\ u # t /\ <<"thread", u>> # p
    BY <1>1, SchedulerAssumption DEF Threads
  <2> QED
    BY <1>2, <2>1, ContentsOf, Zenon
<1>5. k \notin delivered /\ k \notin dropped
  BY <1>1, <1>2, ContentsOf
<1> QED
  BY <1>3, <1>4, <1>5 DEF Pool!Unknown

-----------------------------------------------------------------------------
(* The steps *)

\* submit returns None: the pool refuses the task.
LEMMA DropRefuses ==
  ASSUME SchedulerInv, NEW t \in Submitters, NEW task \in Tasks,
         task \in fresh \/ task \in Held(t),
         ReturnNone(t, task), deque' = deque
  PROVE  Pool!PoolNext
<1>1. t \in Threads /\ TypeOK /\ Return(t) /\ dropped' = dropped \cup {task} /\ delivered' = delivered
  BY DEF Threads, SchedulerInv, ReturnNone
<1>2. \A u \in Consumers : Held(u)' = Held(u)
  BY <1>1, ReturnFacts, SchedulerAssumption DEF Threads
<1>3. Waiting' = Waiting /\ InCalls' = InCalls
  <2>1. \A k : (k \in Waiting' <=> k \in Waiting) /\ (k \in InCalls' <=> k \in InCalls)
    BY <1>2, Views, ViewsAfter, Zenon
  <2> QED
    BY <2>1
<1>4. task \in Pool!Unknown
  BY GivenIsUnknown
<1>5. Pool!Refuse(task)
  BY <1>1, <1>3, <1>4 DEF Pool!Refuse, Waiting, InCalls
<1> QED
  BY <1>5 DEF Pool!PoolNext

\* push: the pool accepts the task, and has had a place for it.
LEMMA PushAccepts ==
  ASSUME SchedulerInv, NEW t \in Submitters, SubmitPush(t)
  PROVE  Pool!PoolNext
<1> DEFINE w == at[t]
           k == hand[t][1]
<1>1. /\ pc[t] = "submit_push" /\ deque' = [deque EXCEPT ![w] = Append(deque[w], k)]
      /\ pc' = [pc EXCEPT ![t] = "submit_count"]
      /\ UNCHANGED <<hand, dropped, delivered>>
  BY DEF SubmitPush, Go
<1>2. t \in Threads /\ w \in WorkerIds /\ TypeOK /\ k \in Tasks /\ Held(t) = {k}
  <2>1. t \in Threads /\ HoldsReadLock(t) /\ TypeOK
    BY <1>1 DEF Threads, HoldsReadLock, SchedulerInv
  <2> QED
    BY <1>1, <2>1, Indices, SubmitterHand DEF Held
<1>3. k \in Pool!Unknown
  BY <1>2, GivenIsUnknown
<1> HIDE DEF w, k
<1>4. /\ Elements(deque'[w]) = Elements(deque[w]) \cup {k}
      /\ \A v \in WorkerIds : v # w => deque'[v] = deque[v]
  <2>1. deque[w] \in Seq(Tasks) /\ deque'[w] = Append(deque[w], k)
    BY <1>1, <1>2 DEF TypeOK
  <2>2. Elements(deque'[w]) = Elements(deque[w]) \cup {k}
    BY <1>2, <2>1, AppendElements
  <2> QED
    BY <1>1, <1>2, <2>2 DEF TypeOK
<1>5. Waiting' = Waiting \cup {k}
  <2>1. \A j : j \in Waiting' <=> j \in Waiting \/ j = k
    BY <1>2, <1>4, Views, ViewsAfter
  <2> QED
    BY <2>1
<1>6. InCalls' = InCalls
  <2>1. \A u \in Consumers : Held(u)' = Held(u)
    BY <1>1, <1>2, SchedulerAssumption DEF Held, Threads, TypeOK
  <2>2. \A j : j \in InCalls' <=> j \in InCalls
    BY <2>1, Views, ViewsAfter, Zenon
  <2> QED
    BY <2>2
<1>7. Cardinality(Waiting) < Capacity * MaxWorkers
  <2>1. SchedulerInv'
    BY SubmitPushKeepsInv
  <2>2. IsFiniteSet(Waiting) /\ Cardinality(Waiting) \in Nat
    BY <1>2, QueuesBounded, Zenon DEF SchedulerInv, TypeOK, LenIsExact, Waiting
  <2>3. Cardinality(Waiting') <= Capacity * MaxWorkers
    <3>1. deque' \in [WorkerIds -> Seq(Tasks)] /\ \A v \in WorkerIds : Len(deque'[v]) <= Capacity
      BY <2>1 DEF SchedulerInv, TypeOK, LenIsExact, WorkerIds
    <3>2. Waiting' = UNION {Elements(deque'[v]) : v \in WorkerIds}
      BY DEF Waiting, WorkerIds
    <3> QED
      BY <3>1, <3>2, QueuesBounded, Zenon
  <2>4. k \notin Waiting
    BY <1>3 DEF Pool!Unknown, Waiting
  <2>5. Cardinality(Waiting') = Cardinality(Waiting) + 1
    BY <1>5, <2>2, <2>4, FS_AddElement
  <2>6. Capacity * MaxWorkers \in Nat
    BY SchedulerAssumption
  <2> QED
    BY <2>2, <2>3, <2>5, <2>6
<1>8. Pool!Cardinality(Waiting) < Capacity * MaxWorkers
  BY <1>7, PoolCounts, Zenon
<1>9. Pool!Accept(k)
  BY <1>1, <1>3, <1>5, <1>6, <1>8 DEF Pool!Accept, Waiting, InCalls
<1> QED
  BY <1>2, <1>9 DEF Pool!PoolNext

\* pop, steal and steal_half: the pool hands the tasks to the consumer.
LEMMA TakeHands ==
  ASSUME SchedulerInv, NEW t \in Consumers, PopTake(t) \/ StealTake(t) \/ BatchTake(t)
  PROVE  Pool!PoolNext
<1>1. PICK taken \in Seq(Tasks), rest \in Seq(Tasks) :
         /\ Take(t, taken, rest)
         /\ Cut(deque[at[t]], taken, rest)
         /\ Len(taken) = 1 \/ 2 * Len(taken) <= Len(deque[at[t]])
  BY TakesCut
<1> DEFINE w == at[t]
           S == Elements(taken)
<1>2. pc[t] \in {"pop", "steal", "batch"}
  BY Zenon DEF PopTake, StealTake, BatchTake
<1>3. t \in Threads /\ w \in WorkerIds /\ TypeOK /\ Held(t) = {}
  <2>1. t \in Threads /\ HoldsReadLock(t) /\ TypeOK /\ hand[t] = << >>
    BY <1>2 DEF Threads, HoldsReadLock, SchedulerInv, ControlInv
  <2>2. Elements(<< >>) = {}
    BY DEF Elements
  <2> QED
    BY <1>2, <2>1, <2>2, Indices DEF Held
<1>4. /\ deque' = [deque EXCEPT ![w] = rest] /\ hand' = [hand EXCEPT ![t] = taken]
      /\ pc' = [pc EXCEPT ![t] = "take_count"]
      /\ UNCHANGED <<dropped, delivered>>
  BY <1>1 DEF Take, Go, history
<1>5. /\ Elements(deque[w]) = S \cup Elements(rest) /\ S \cap Elements(rest) = {}
      /\ NoRepeats(taken) /\ NoRepeats(deque[w]) /\ deque[w] \in Seq(Tasks)
      /\ Len(taken) = 1 \/ 2 * Len(taken) <= Len(deque[w])
  BY <1>1, <1>3 DEF Cut, SchedulerInv, NoTaskDuplicated, TypeOK
<1> HIDE DEF w, S
<1>6. deque'[w] = rest /\ \A v \in WorkerIds : v # w => deque'[v] = deque[v]
  BY <1>3, <1>4 DEF TypeOK
<1>7. \A v \in WorkerIds : v # w => S \cap Elements(deque[v]) = {}
  <2> SUFFICES ASSUME NEW v \in WorkerIds, v # w PROVE S \cap Elements(deque[v]) = {}
    OBVIOUS
  <2>1. <<"queue", v>> # <<"queue", w>>
    OBVIOUS
  <2>2. Contents[<<"queue", v>>] \cap Contents[<<"queue", w>>] = {}
    BY <1>3, <2>1, ContentsOf, Zenon DEF SchedulerInv, NoTaskDuplicated
  <2>3. Elements(deque[v]) \cap Elements(deque[w]) = {}
    BY <1>3, <2>2, ContentsOf, Zenon
  <2> QED
    BY <1>5, <2>3
<1>8. S \subseteq Waiting
  BY <1>3, <1>5, Views
<1>9. Waiting' = Waiting \ S
  <2>1. ASSUME NEW k \in Waiting' PROVE k \in Waiting \ S
    BY <1>3, <1>5, <1>6, <1>7, <2>1, Views, ViewsAfter
  <2>2. ASSUME NEW k \in Waiting, k \notin S PROVE k \in Waiting'
    BY <1>3, <1>5, <1>6, <2>2, Views, ViewsAfter
  <2> QED
    BY <2>1, <2>2
<1>10. InCalls' = InCalls \cup S
  <2>1. /\ Held(t)' = S
        /\ \A u \in Consumers : u # t => Held(u)' = Held(u)
    BY <1>3, <1>4 DEF Held, Threads, TypeOK, S
  <2>2. \A k : k \in InCalls' <=> k \in InCalls \/ k \in S
    BY <1>3, <2>1, Views, ViewsAfter, Zenon
  <2> QED
    BY <2>2
<1>11. Cardinality(S) = 1 \/ 2 * Cardinality(S) <= Cardinality(Waiting)
  <2>1. Cardinality(S) = Len(taken) /\ Cardinality(Elements(deque[w])) = Len(deque[w])
    BY <1>5, ElementsCount DEF S
  <2>2. IsFiniteSet(Waiting) /\ Cardinality(Waiting) \in Nat
    BY <1>3, QueuesBounded, Zenon DEF SchedulerInv, TypeOK, LenIsExact, Waiting
  <2>3. Elements(deque[w]) \subseteq Waiting
    BY <1>3, Views
  <2>4. Cardinality(Elements(deque[w])) <= Cardinality(Waiting)
    BY <2>2, <2>3, FS_Subset
  <2>5. Len(taken) \in Nat /\ Len(deque[w]) \in Nat
    BY <1>5
  <2> QED
    BY <1>5, <2>1, <2>2, <2>4, <2>5
<1>12. Pool!Cardinality(S) = 1 \/ 2 * Pool!Cardinality(S) <= Pool!Cardinality(Waiting)
  BY <1>11, PoolCounts, Zenon
<1>13. Pool!Hand(S)
  BY <1>4, <1>8, <1>9, <1>10, <1>12 DEF Pool!Hand, Waiting, InCalls
<1> QED
  BY <1>8, <1>13 DEF Pool!PoolNext, Waiting

\* The return of pop, steal and steal_batch: the tasks were taken before.
LEMMA DeliverStutters ==
  ASSUME SchedulerInv, NEW t \in Consumers, TakeCount(t)
  PROVE  UNCHANGED Pool!poolVars
<1>1. /\ pc[t] = "take_count" /\ Return(t) /\ delivered' = delivered \cup Elements(hand[t])
      /\ UNCHANGED <<deque, dropped>>
  BY DEF TakeCount, Elements
<1>2. t \in Threads /\ TypeOK /\ Held(t) = Elements(hand[t])
  BY <1>1 DEF Threads, SchedulerInv, Held
<1>3. Held(t)' = {} /\ \A u \in Consumers : u # t => Held(u)' = Held(u)
  BY <1>1, <1>2, ReturnFacts DEF Threads
<1>4. \A k : k \in Waiting' <=> k \in Waiting
  BY <1>1, Views, ViewsAfter, Zenon
<1>5. \A k : k \in InCalls' \/ k \in delivered' <=> k \in InCalls \/ k \in delivered
  BY <1>1, <1>2, <1>3, Views, ViewsAfter, Zenon
<1> QED
  BY <1>1, <1>4, <1>5, Stutters

\* Steps that only look.
LEMMA ScanStutters ==
  ASSUME SchedulerInv, NEW t \in Threads, ScanStep(t)
  PROVE  UNCHANGED Pool!poolVars
<1>1. UNCHANGED <<deque, hand, dropped, delivered>>
  BY DEF ScanStep, queues, history
<1>2. \A u \in Threads : Held(u)' = Held(u)
  BY DEF ScanStep, Held, Carrying, SchedulerInv, TypeOK
<1> QED
  BY <1>1, <1>2, QuietStutters DEF Threads

\* Steps of submit that neither push nor drop its task.
LEMMA SubmitStutters ==
  ASSUME SchedulerInv, NEW t \in Submitters,
         (\E task \in Tasks : SubmitCall(t, task)) \/ SubmitCount(t) \/ SubmitId(t)
  PROVE  UNCHANGED Pool!poolVars
<1>1. t \in Threads /\ TypeOK /\ UNCHANGED <<deque, dropped, delivered>>
  BY DEF Threads, SchedulerInv, SubmitCall, SubmitCount, SubmitId, queues, history
<1>2. \A u \in Threads : u # t => pc'[u] = pc[u] /\ hand'[u] = hand[u]
  BY <1>1 DEF SubmitCall, SubmitCount, SubmitId, Go, Return, TypeOK
<1>3. \A u \in Consumers : u \in Threads /\ u # t
  BY SchedulerAssumption DEF Threads
<1> QED
  BY <1>1, <1>2, <1>3, QuietStutters, Zenon DEF Held

\* Every step of the scheduler is a step of the pool or changes nothing of it.
LEMMA NextRefines == SchedulerInv /\ [Next]_vars => [Pool!PoolNext]_Pool!poolVars
<1> SUFFICES ASSUME SchedulerInv, [Next]_vars
             PROVE  Pool!PoolNext \/ UNCHANGED Pool!poolVars
  OBVIOUS
<1>1. ASSUME UNCHANGED <<deque, pc, hand, dropped, delivered>> PROVE UNCHANGED Pool!poolVars
  BY <1>1, QuietStutters DEF Held
<1>2. CASE UNCHANGED vars
  BY <1>1, <1>2 DEF vars, queues, history
<1>3. ASSUME NEW t \in Submitters, NEW task \in Tasks, SubmitCall(t, task)
      PROVE  UNCHANGED Pool!poolVars
  BY <1>3, SubmitStutters
<1>4. ASSUME NEW t \in Submitters, NEW task \in Tasks, SubmitStopped(t, task) PROVE Pool!PoolNext
  BY <1>4, DropRefuses DEF SubmitStopped, queues
<1>5. ASSUME NEW t \in Submitters, SubmitStep(t)
      PROVE  Pool!PoolNext \/ UNCHANGED Pool!poolVars
  <2>1. t \in Threads
    BY DEF Threads
  <2>2. CASE SubmitEnter(t) \/ SubmitSeesActive(t) \/ SubmitSeesSpace(t) \/ SubmitNextWorker(t)
    BY <2>1, <2>2, SubmitScans, ScanStutters
  <2>3. CASE SubmitNoWorkers(t) \/ SubmitNoWorkerFound(t) \/ SubmitPushFails(t)
    <3>1. /\ pc[t] \notin {"idle", "submit_count", "submit_id"}
          /\ ReturnNone(t, hand[t][1]) /\ deque' = deque
      BY <2>3, Zenon DEF SubmitNoWorkers, SubmitNoWorkerFound, SubmitPushFails, Unsuitable, queues
    <3>2. hand[t][1] \in Tasks /\ hand[t][1] \in Held(t)
      BY <3>1, SubmitterHand DEF Held
    <3> QED
      BY <3>1, <3>2, DropRefuses
  <2>4. CASE SubmitPush(t)
    BY <2>4, PushAccepts
  <2>5. CASE SubmitCount(t) \/ SubmitId(t)
    BY <2>5, SubmitStutters
  <2> QED
    BY <1>5, <2>2, <2>3, <2>4, <2>5 DEF SubmitStep
<1>6. ASSUME NEW t \in Consumers, NEW w \in WorkerIds,
             PopCall(t, w) \/ StealCall(t, w) \/ BatchCall(t, w)
      PROVE  UNCHANGED Pool!poolVars
  BY <1>6, CallScans, ScanStutters DEF Threads
<1>7. ASSUME NEW t \in Consumers, NEW w \in WorkerIds, CallRefused(t, w)
      PROVE  UNCHANGED Pool!poolVars
  BY <1>1, <1>7 DEF CallRefused, vars, queues, history
<1>8. ASSUME NEW t \in Consumers, TakeStep(t)
      PROVE  Pool!PoolNext \/ UNCHANGED Pool!poolVars
  <2>1. t \in Threads
    BY DEF Threads
  <2>2. CASE \/ PopEmpty(t) \/ StealNone(t) \/ BatchTooFew(t)
             \/ StealSeesActive(t) \/ StealNextWorker(t)
             \/ BatchSeesActive(t) \/ BatchSkip(t) \/ BatchCompare(t)
    BY <2>1, <2>2, ConsumerScans, ScanStutters
  <2>3. CASE PopTake(t) \/ StealTake(t) \/ BatchTake(t)
    BY <2>3, TakeHands
  <2>4. CASE TakeCount(t)
    BY <2>4, DeliverStutters
  <2> QED
    BY <1>8, <2>2, <2>3, <2>4 DEF TakeStep
<1>9. CASE Stop \/ AddWorker \/ \E w \in WorkerIds : DeactivateWorker(w)
  BY <1>1, <1>9 DEF Stop, AddWorker, DeactivateWorker, queues, history
<1> QED
  BY <1>2, <1>3, <1>4, <1>5, <1>6, <1>7, <1>8, <1>9 DEF Next

\* A new scheduler is an empty pool.
LEMMA InitRefines == Init => Pool!PoolInit
<1> SUFFICES ASSUME Init PROVE Pool!PoolInit
  OBVIOUS
<1>1. \A w \in WorkerIds : Elements(deque[w]) = {}
  BY DEF Init, Elements
<1>2. \A t \in Consumers : Held(t) = {}
  BY DEF Init, Held, Elements, Threads
<1>3. delivered = {} /\ dropped = {}
  BY DEF Init
<1> QED
  BY <1>1, <1>2, <1>3 DEF Pool!PoolInit

\* The scheduler implements the pool: every call of submit, pop, steal and
\* steal_batch takes effect at one instant, whatever runs at the same time.
THEOREM RefinesPool == Spec => ImplementsTaskPool
  BY InitRefines, NextRefines, Invariance, PTL DEF Spec, ImplementsTaskPool, Pool!PoolSpec

=============================================================================
