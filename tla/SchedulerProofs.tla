--------------------------- MODULE SchedulerProofs ---------------------------
(***************************************************************************)
(* Proofs of the safety properties of Scheduler, for any number of         *)
(* threads, tasks and workers and any capacity: the steps that take tasks  *)
(* out of deques, and the theorems.                                        *)
(***************************************************************************)
EXTENDS SchedulerSubmits

\* pop, steal and steal_half move tasks from the deque to the call.
LEMMA TakeKeepsInv ==
  ASSUME SchedulerInv, NEW t \in Consumers, pc[t] \in {"pop", "steal", "batch"},
         mutex[at[t]] = NoThread,
         NEW taken \in Seq(Tasks), NEW rest \in Seq(Tasks),
         Len(rest) + Len(taken) = Len(deque[at[t]]),
         Elements(deque[at[t]]) = Elements(taken) \cup Elements(rest),
         NoRepeats(taken), NoRepeats(rest), Elements(taken) \cap Elements(rest) = {},
         Take(t, taken, rest)
  PROVE  SchedulerInv'
<1> DEFINE w == at[t]
<1>1. /\ mutex' = [mutex EXCEPT ![w] = t] /\ deque' = [deque EXCEPT ![w] = rest]
      /\ hand' = [hand EXCEPT ![t] = taken] /\ pc' = [pc EXCEPT ![t] = "take_count"]
      /\ UNCHANGED <<len, active, num_workers, running, submit_counter, next_task_id,
                     base, at, busiest, fresh, dropped, delivered, ids, late>>
  BY DEF Take, Go, admin, local, history
<1>2. /\ t \in Threads /\ TypeOK /\ hand[t] = << >>
      /\ w \in WorkerIds /\ w < num_workers /\ base[t] < num_workers
  <2>1. t \in Threads /\ HoldsReadLock(t) /\ TypeOK
    BY DEF Threads, HoldsReadLock, SchedulerInv
  <2>2. hand[t] = << >>
    BY DEF SchedulerInv, ControlInv
  <2>3. w \in WorkerIds /\ w < num_workers /\ base[t] < num_workers
    BY <2>1, Indices, LocalFacts
  <2> QED
    BY <2>1, <2>2, <2>3
<1>3. /\ mutex[w] = NoThread /\ Len(rest) + Len(taken) = Len(deque[w])
      /\ Elements(deque[w]) = Elements(taken) \cup Elements(rest)
  OBVIOUS
<1>4. OthersKept(t) /\ pc'[t] = "take_count" /\ at'[t] = w /\ hand'[t] = taken
  BY <1>1, <1>2 DEF OthersKept, TypeOK
<1> HIDE DEF w
<1>5. TypeOK'
  <2>1. /\ deque' \in [WorkerIds -> Seq(Tasks)] /\ mutex' \in [WorkerIds -> Threads \cup {NoThread}]
        /\ pc' \in [Threads -> Labels] /\ hand' \in [Threads -> Seq(Tasks)]
    BY <1>1, <1>2, Zenon DEF TypeOK, Labels
  <2> QED
    BY <1>1, <1>2, <2>1, Zenon DEF TypeOK
<1>6. MutexInv' /\ LenIsExact'
  <2>1. len[w] = Len(deque[w]) /\ Len(deque[w]) <= Capacity /\ Len(rest) \in Nat /\ Len(taken) \in Nat /\ Capacity \in Nat
    BY <1>2, <1>3, SchedulerAssumption DEF SchedulerInv, LenIsExact
  <2>2. Len(rest) <= Capacity /\ Len(rest) + Len(taken) = len[w]
    BY <1>3, <2>1
  <2>3. pc[t] \notin Counting /\ pc'[t] \in Counting /\ pc'[t] # "submit_count"
    BY <1>4 DEF Counting
  <2>4. Len(rest) + Len(hand'[t]) = len[w] /\ len' = len
    BY <1>1, <1>4, <2>2, Zenon
  <2> QED
    BY <1>1, <1>2, <1>3, <1>4, <2>2, <2>3, <2>4, LockKeepsMutexInv, Zenon
<1>7. ControlInv' /\ BusiestInv' /\ InBounds'
  <2>1. \A v \in WorkerIds : deque'[v] # << >> => v < num_workers
    BY <1>1, <1>2 DEF SchedulerInv, InBounds, TypeOK
  <2>2. busiest'[t][1] # NoWorker => busiest'[t][1] < num_workers
    BY <1>1, <1>2, LocalFacts
  <2>3. at'[t] < num_workers /\ base'[t] < num_workers
    BY <1>1, <1>2, <1>4
  <2>4. pc'[t] \in Labels \ SubmitLabels /\ pc'[t] # "idle"
    BY <1>4 DEF Labels, SubmitLabels
  <2> QED
    BY <1>1, <1>2, <1>4, <2>1, <2>2, <2>3, <2>4, LocalInvs
<1>8. Held(t) = {} /\ Held(t)' = Elements(taken) /\ \A u \in Threads : u # t => Held(u)' = Held(u)
  <2>1. Elements(<< >>) = {}
    BY DEF Elements
  <2> QED
    BY <1>2, <1>4, <2>1 DEF Held, OthersKept
<1>9. /\ deque'[w] = rest /\ Elements(deque'[w]) = Elements(deque[w]) \ Elements(taken)
      /\ \A v \in WorkerIds : v # w => deque'[v] = deque[v]
  BY <1>1, <1>2, <1>3 DEF TypeOK
<1>10. Moved(Contents, Contents', Places, <<"queue", w>>, <<"thread", t>>, Elements(taken))
  <2>1. ASSUME NEW p \in Places \ {<<"queue", w>>, <<"thread", t>>} PROVE Contents'[p] = Contents[p]
    BY <1>1, <1>8, <1>9, PlaceKinds, ContentsOf, ContentsAfter
  <2>2. /\ <<"queue", w>> \in Places /\ <<"thread", t>> \in Places /\ <<"queue", w>> # <<"thread", t>>
        /\ Contents[<<"queue", w>>] = Elements(deque[w]) /\ Contents[<<"thread", t>>] = {}
        /\ Contents'[<<"queue", w>>] = Elements(deque'[w]) /\ Contents'[<<"thread", t>>] = Elements(taken)
    BY <1>2, <1>8, ContentsOf, ContentsAfter, DistinctPlaces
  <2>3. Elements(taken) \subseteq Elements(deque[w])
    BY <1>3
  <2> QED
    BY <1>9, <2>1, <2>2, <2>3 DEF Moved
<1>11. NoTaskDuplicated' /\ NoTaskLost'
  <2>1. \A v \in WorkerIds : NoRepeats(deque'[v])
    BY <1>9 DEF SchedulerInv, NoTaskDuplicated
  <2>2. \A u \in Threads : NoRepeats(hand'[u])
    BY <1>4 DEF OthersKept, SchedulerInv, NoTaskDuplicated
  <2> QED
    BY <1>10, <2>1, <2>2, MoveKeepsPartition
<1>12. PushedInv'
  <2>1. \A u \in Submitters : u \in Threads /\ pc'[u] = pc[u] /\ hand'[u] = hand[u]
    BY <1>4, SchedulerAssumption DEF OthersKept, Threads
  <2>2. \A j \in Tasks :
           (\E v \in WorkerIds : j \in Elements(deque[v])) \/ (\E u \in Consumers : j \in Held(u))
           => (\E v \in WorkerIds : j \in Elements(deque'[v])) \/ (\E u \in Consumers : j \in Held(u)')
    BY <1>2, <1>8, <1>9 DEF Threads
  <2> QED
    BY <1>1, <2>1, <2>2 DEF SchedulerInv, PushedInv
<1>13. IdsInv'
  BY <1>1 DEF SchedulerInv, IdsInv, IdsUnique
<1> QED
  BY <1>5, <1>6, <1>7, <1>11, <1>12, <1>13 DEF SchedulerInv

\* The end of pop, steal and steal_half, and the return of the call: what it
\* holds is delivered.
LEMMA TakeCountKeepsInv ==
  ASSUME SchedulerInv, NEW t \in Consumers, TakeCount(t)
  PROVE  SchedulerInv'
<1>1. /\ pc[t] = "take_count" /\ Return(t)
      /\ len' = [len EXCEPT ![at[t]] = len[at[t]] - Len(hand[t])]
      /\ mutex' = [mutex EXCEPT ![at[t]] = NoThread]
      /\ delivered' = delivered \cup Elements(hand[t])
      /\ UNCHANGED <<deque, active, num_workers, running, submit_counter, next_task_id,
                     fresh, dropped, ids, late>>
  BY DEF TakeCount, admin, Elements
<1>2. t \in Threads /\ TypeOK /\ at[t] \in WorkerIds /\ hand[t] \in Seq(Tasks)
  <2>1. t \in Threads /\ HoldsReadLock(t) /\ TypeOK
    BY <1>1 DEF Threads, HoldsReadLock, SchedulerInv
  <2> QED
    BY <2>1, Indices, Zenon DEF TypeOK
<1>3. /\ OthersKept(t) /\ pc'[t] = "idle" /\ hand'[t] = << >> /\ busiest'[t][1] = NoWorker
      /\ ~HoldsReadLock(t)' /\ Held(t)' = {}
      /\ \A u \in Threads : u # t => Held(u)' = Held(u)
  BY <1>1, <1>2, ReturnFacts
<1>4. len[at[t]] - Len(hand[t]) = Len(deque[at[t]]) /\ Len(deque[at[t]]) \in Nat
  <2>1. Len(deque[at[t]]) + Len(hand[t]) = len[at[t]]
    BY <1>1, <1>2, Zenon DEF SchedulerInv, MutexInv
  <2>2. Len(deque[at[t]]) \in Nat /\ Len(hand[t]) \in Nat /\ len[at[t]] \in Nat
    BY <1>2 DEF TypeOK
  <2>3. \A x, y, z \in Nat : x + y = z => z - y = x
    OBVIOUS
  <2> QED
    BY <2>1, <2>2, <2>3, Zenon
<1>5. MutexInv' /\ LenIsExact'
  BY <1>1, <1>2, <1>3, <1>4, UnlockKeepsMutexInv, Zenon DEF Counting
<1>6. TypeOK'
  <2>1. len' \in [WorkerIds -> Nat] /\ mutex' \in [WorkerIds -> Threads \cup {NoThread}]
    BY <1>1, <1>2, <1>4 DEF TypeOK
  <2>2. delivered' \subseteq Tasks
    BY <1>1, <1>2 DEF TypeOK, Elements
  <2> QED
    BY <1>1, <1>2, <2>1, <2>2, ReturnFacts, Zenon DEF TypeOK
<1>7. ControlInv' /\ BusiestInv' /\ InBounds'
  <2>1. \A w \in WorkerIds : deque'[w] # << >> => w < num_workers
    BY <1>1 DEF SchedulerInv, InBounds
  <2>2. pc'[t] \in Labels \ SubmitLabels
    BY <1>3 DEF Labels, SubmitLabels
  <2> QED
    BY <1>1, <1>2, <1>3, <2>1, <2>2, LocalInvs
<1>8. Held(t) = Elements(hand[t])
  BY <1>1 DEF Held
<1>9. Moved(Contents, Contents', Places, <<"thread", t>>, <<"fate", "delivered">>, Elements(hand[t]))
  <2>1. ASSUME NEW p \in Places \ {<<"thread", t>>, <<"fate", "delivered">>} PROVE Contents'[p] = Contents[p]
    BY <1>1, <1>3, PlaceKinds, ContentsOf, ContentsAfter, ZenonT(30)
  <2>2. /\ <<"thread", t>> \in Places /\ <<"fate", "delivered">> \in Places
        /\ <<"thread", t>> # <<"fate", "delivered">>
        /\ Contents[<<"thread", t>>] = Elements(hand[t]) /\ Contents'[<<"thread", t>>] = {}
        /\ Contents[<<"fate", "delivered">>] = delivered
        /\ Contents'[<<"fate", "delivered">>] = delivered'
    BY <1>2, <1>3, <1>8, ContentsOf, ContentsAfter, DistinctPlaces
  <2> QED
    BY <1>1, <2>1, <2>2, Zenon DEF Moved
<1>10. NoTaskDuplicated' /\ NoTaskLost'
  <2>1. \A w \in WorkerIds : NoRepeats(deque'[w])
    BY <1>1 DEF SchedulerInv, NoTaskDuplicated
  <2>2. \A u \in Threads : NoRepeats(hand'[u])
    BY <1>3 DEF NoRepeats, OthersKept, SchedulerInv, NoTaskDuplicated
  <2> QED
    BY <1>9, <2>1, <2>2, MoveKeepsPartition
<1>11. PushedInv'
  <2>1. \A u \in Submitters : u \in Threads /\ pc'[u] = pc[u] /\ hand'[u] = hand[u]
    BY <1>3, SchedulerAssumption, Zenon DEF OthersKept, Threads
  <2>2. \A j \in Tasks :
           j \in delivered \/ (\E u \in Consumers : j \in Held(u))
           => j \in delivered' \/ (\E u \in Consumers : j \in Held(u)')
    BY <1>1, <1>3, <1>8, Zenon DEF Threads
  <2> QED
    BY <1>1, <2>1, <2>2 DEF SchedulerInv, PushedInv
<1>12. IdsInv'
  BY <1>1, Zenon DEF SchedulerInv, IdsInv, IdsUnique
<1> QED
  BY <1>5, <1>6, <1>7, <1>10, <1>11, <1>12 DEF SchedulerInv

\* A sequence is cut into what is taken and what is left, without repeats.
Cut(s, taken, rest) ==
    /\ Len(rest) + Len(taken) = Len(s)
    /\ Elements(s) = Elements(taken) \cup Elements(rest)
    /\ NoRepeats(taken) /\ NoRepeats(rest)
    /\ Elements(taken) \cap Elements(rest) = {}

\* The items pop, steal and steal_half remove and leave are those of the deque.
\* They remove one item, or no more than they leave.
LEMMA TakesCut ==
  ASSUME SchedulerInv, NEW t \in Consumers, PopTake(t) \/ StealTake(t) \/ BatchTake(t)
  PROVE  \E taken \in Seq(Tasks), rest \in Seq(Tasks) :
            /\ Take(t, taken, rest)
            /\ Cut(deque[at[t]], taken, rest)
            /\ Len(taken) = 1 \/ 2 * Len(taken) <= Len(deque[at[t]])
<1> DEFINE d == deque[at[t]]
<1>1. d \in Seq(Tasks) /\ NoRepeats(d) /\ Len(d) \in Nat
  <2>1. t \in Threads /\ HoldsReadLock(t) /\ TypeOK
    BY Zenon DEF Threads, HoldsReadLock, SchedulerInv, PopTake, StealTake, BatchTake
  <2>2. at[t] \in WorkerIds
    BY <2>1, Indices
  <2>3. deque[at[t]] \in Seq(Tasks)
    BY <2>1, <2>2 DEF TypeOK
  <2>4. NoRepeats(deque[at[t]])
    BY <2>2, Zenon DEF SchedulerInv, NoTaskDuplicated
  <2>5. \A s \in Seq(Tasks) : Len(s) \in Nat
    OBVIOUS
  <2> QED
    BY <2>3, <2>4, <2>5, Zenon
<1>2. ASSUME NEW m \in 0 .. Len(d), NEW taken, NEW rest, Take(t, taken, rest),
             Len(taken) = 1 \/ 2 * Len(taken) <= Len(d),
             \/ taken = SubSeq(d, 1, m) /\ rest = SubSeq(d, m + 1, Len(d))
             \/ rest = SubSeq(d, 1, m) /\ taken = SubSeq(d, m + 1, Len(d))
      PROVE  \E x \in Seq(Tasks), y \in Seq(Tasks) :
                Take(t, x, y) /\ Cut(d, x, y) /\ (Len(x) = 1 \/ 2 * Len(x) <= Len(d))
  <2> DEFINE a == SubSeq(d, 1, m)
             b == SubSeq(d, m + 1, Len(d))
  <2>1. /\ a \in Seq(Tasks) /\ b \in Seq(Tasks) /\ Len(a) \in Nat /\ Len(b) \in Nat
        /\ Len(a) + Len(b) = Len(d)
        /\ Elements(d) = Elements(a) \cup Elements(b)
        /\ NoRepeats(a) /\ NoRepeats(b) /\ Elements(a) \cap Elements(b) = {}
    <3>1. \A s \in Seq(Tasks) : Len(s) \in Nat
      OBVIOUS
    <3> QED
      BY <1>1, <1>2, <3>1, SplitElements, Zenon
  <2>2. (taken = a /\ rest = b) \/ (rest = a /\ taken = b)
    BY <1>2
  <2> HIDE DEF a, b, d
  <2>3. taken \in Seq(Tasks) /\ rest \in Seq(Tasks) /\ Cut(d, taken, rest)
    BY <2>1, <2>2 DEF Cut
  <2> QED
    BY <1>2, <2>3, Zenon
<1>3. CASE PopTake(t)
  <2>1. d # << >> /\ Take(t, <<d[Len(d)]>>, SubSeq(d, 1, Len(d) - 1))
    BY <1>3 DEF PopTake
  <2> HIDE DEF d
  <2>2. /\ Len(d) - 1 \in 0 .. Len(d) /\ (Len(d) - 1) + 1 = Len(d)
        /\ <<d[Len(d)]>> = SubSeq(d, Len(d), Len(d))
    BY <1>1, <2>1, Ends, Zenon
  <2>3. Len(<<d[Len(d)]>>) = 1
    OBVIOUS
  <2> QED
    BY <1>2, <2>1, <2>2, <2>3, Zenon DEF d
<1>4. CASE StealTake(t)
  <2>1. d # << >> /\ Take(t, <<d[1]>>, SubSeq(d, 2, Len(d)))
    BY <1>4 DEF StealTake
  <2> HIDE DEF d
  <2>2. 1 \in 0 .. Len(d) /\ <<d[1]>> = SubSeq(d, 1, 1)
    BY <1>1, <2>1, Ends, Zenon
  <2>3. 1 + 1 = 2 /\ Len(<<d[1]>>) = 1
    OBVIOUS
  <2>4. Take(t, SubSeq(d, 1, 1), SubSeq(d, 1 + 1, Len(d))) /\ Len(SubSeq(d, 1, 1)) = 1
    BY <2>1, <2>2, <2>3, Zenon
  <2> QED
    BY <1>2, <2>2, <2>4, Zenon DEF d
<1>5. CASE BatchTake(t)
  <2> DEFINE half == Len(d) \div 2
  <2>1. Take(t, SubSeq(d, 1, half), SubSeq(d, half + 1, Len(d)))
    BY <1>5, Zenon DEF BatchTake
  <2>2. half \in 0 .. Len(d) /\ 2 * half <= Len(d)
    <3>1. \A n \in Nat : n \div 2 \in 0 .. n /\ 2 * (n \div 2) <= n
      OBVIOUS
    <3> HIDE DEF d
    <3> QED
      BY <1>1, <3>1
  <2> HIDE DEF half, d
  <2>3. Len(SubSeq(d, 1, half)) = half
    BY <1>1, <2>2
  <2> QED
    BY <1>2, <2>1, <2>2, <2>3, Zenon DEF d
<1> QED
  BY <1>3, <1>4, <1>5

\* Taking tasks out of a deque preserves the invariant.
LEMMA TakesKeepInv ==
  ASSUME SchedulerInv, NEW t \in Consumers, PopTake(t) \/ StealTake(t) \/ BatchTake(t)
  PROVE  SchedulerInv'
<1>1. mutex[at[t]] = NoThread /\ pc[t] \in {"pop", "steal", "batch"}
  BY Zenon DEF PopTake, StealTake, BatchTake
<1> QED
  BY <1>1, TakesCut, TakeKeepsInv, Zenon DEF Cut

-----------------------------------------------------------------------------
(* The theorems *)

\* stop, add_worker and deactivate_worker touch no task: flags change, and a
\* worker appears, only while no call uses the vector of workers.
LEMMA AdminKeepsInv ==
  ASSUME SchedulerInv, Stop \/ AddWorker \/ \E w \in WorkerIds : DeactivateWorker(w)
  PROVE  SchedulerInv'
<1>1. /\ UNCHANGED <<deque, len, mutex, submit_counter, next_task_id, pc, base, at, busiest,
                     hand, fresh, dropped, delivered, ids, late>>
      /\ num_workers' = num_workers \/ (num_workers < MaxWorkers /\ num_workers' = num_workers + 1)
  BY DEF Stop, AddWorker, DeactivateWorker, queues, local, history
<1>2. TypeOK /\ num_workers \in 0 .. MaxWorkers /\ MaxWorkers \in Nat
  BY SchedulerAssumption DEF SchedulerInv, TypeOK
<1>3. num_workers' \in 0 .. MaxWorkers /\ \A n \in Nat : n < num_workers => n < num_workers'
  BY <1>1, <1>2
<1>4. TypeOK'
  <2>1. active' \in [WorkerIds -> BOOLEAN] /\ running' \in BOOLEAN
    BY <1>2, Zenon DEF Stop, AddWorker, DeactivateWorker, TypeOK
  <2> QED
    BY <1>1, <1>2, <1>3, <2>1 DEF TypeOK
<1>5. ControlInv' /\ MutexInv' /\ LenIsExact'
  BY <1>1, Zenon DEF SchedulerInv, ControlInv, MutexInv, LenIsExact
<1>6. BusiestInv'
  <2>1. \A t \in Threads : busiest[t][1] # NoWorker => busiest[t][1] \in Nat
    BY <1>2, Zenon DEF TypeOK
  <2> QED
    BY <1>1, <1>3, <2>1, Zenon DEF SchedulerInv, BusiestInv
<1>7. InBounds'
  <2>1. \A t \in Threads : at[t] \in Nat /\ base[t] \in Nat
    BY <1>2 DEF TypeOK
  <2>2. \A w \in WorkerIds : w \in Nat
    BY <1>2 DEF WorkerIds
  <2> QED
    BY <1>1, <1>3, <2>1, <2>2, Zenon DEF SchedulerInv, InBounds, HoldsReadLock
<1>8. \A t \in Threads : Held(t)' = Held(t)
  BY <1>1 DEF Held
<1>9. Contents' = Contents
  BY <1>1, <1>8 DEF Contents, Places
<1>10. NoTaskDuplicated' /\ NoTaskLost'
  BY <1>1, <1>9, Partition, PartitionAfter, Zenon DEF SchedulerInv
<1>11. PushedInv' /\ IdsInv'
  BY <1>1, <1>8 DEF SchedulerInv, PushedInv, IdsInv, IdsUnique, Threads
<1> QED
  BY <1>4, <1>5, <1>6, <1>7, <1>10, <1>11 DEF SchedulerInv

\* A new scheduler satisfies the invariant.
LEMMA InitInv == Init => SchedulerInv
<1> SUFFICES ASSUME Init PROVE SchedulerInv
  OBVIOUS
<1> USE DEF Init
<1>1. TypeOK
  <2>1. num_workers \in 0 .. MaxWorkers /\ busiest \in [Threads -> (Nat \cup {NoWorker}) \X Nat]
    BY SchedulerAssumption DEF NotBusy
  <2>2. pc \in [Threads -> Labels]
    BY DEF Labels
  <2> QED
    BY <2>1, <2>2 DEF TypeOK
<1>2. ControlInv
  BY DEF ControlInv, Threads, Labels, SubmitLabels
<1>3. MutexInv /\ LenIsExact /\ BusiestInv
  BY SchedulerAssumption DEF MutexInv, LenIsExact, BusiestInv, Counting, NotBusy
<1>4. InBounds
  BY DEF InBounds, HoldsReadLock
<1>5. /\ \A w \in WorkerIds : NoRepeats(deque[w]) /\ Elements(deque[w]) = {}
      /\ \A t \in Threads : NoRepeats(hand[t]) /\ Held(t) = {}
  BY DEF NoRepeats, Elements, Held
<1>6. \A p \in Places : Contents[p] = IF p = <<"fate", "fresh">> THEN Tasks ELSE {}
  BY <1>5, PlaceKinds, ContentsOf, DistinctPlaces, Zenon
<1>7. NoTaskDuplicated
  BY <1>5, <1>6, Zenon DEF NoTaskDuplicated
<1>8. NoTaskLost
  BY <1>6, ContentsOf DEF NoTaskLost
<1>9. PushedInv /\ IdsInv
  BY DEF PushedInv, IdsInv, IdsUnique, Threads
<1> QED
  BY <1>1, <1>2, <1>3, <1>4, <1>7, <1>8, <1>9 DEF SchedulerInv

\* Every step of every call preserves the invariant.
LEMMA NextInv == SchedulerInv /\ [Next]_vars => SchedulerInv'
<1> SUFFICES ASSUME SchedulerInv, [Next]_vars PROVE SchedulerInv'
  OBVIOUS
<1>1. CASE UNCHANGED vars
  <2>1. UNCHANGED <<deque, len, mutex, active, num_workers, running, submit_counter, next_task_id,
                    pc, base, at, busiest, hand, fresh, dropped, delivered, ids, late>>
    BY <1>1, Zenon DEF vars, queues, admin, local, history
  <2>2. TypeOK' /\ ControlInv' /\ MutexInv' /\ BusiestInv' /\ LenIsExact' /\ InBounds'
    BY <2>1, Zenon DEF SchedulerInv, TypeOK, ControlInv, MutexInv, BusiestInv, LenIsExact, InBounds, HoldsReadLock
  <2>3. \A t \in Threads : Held(t)' = Held(t)
    BY <2>1, Zenon DEF Held
  <2>4. Contents' = Contents
    BY <2>1, <2>3 DEF Contents, Places
  <2>5. NoTaskDuplicated' /\ NoTaskLost'
    BY <2>1, <2>4, Partition, PartitionAfter DEF SchedulerInv
  <2>6. PushedInv' /\ IdsInv'
    BY <2>1, <2>3, Zenon DEF SchedulerInv, PushedInv, IdsInv, IdsUnique, Threads
  <2> QED
    BY <2>2, <2>5, <2>6 DEF SchedulerInv
<1>2. ASSUME NEW t \in Submitters, NEW task \in Tasks, SubmitCall(t, task) PROVE SchedulerInv'
  BY <1>2, SubmitCallKeepsInv
<1>3. ASSUME NEW t \in Submitters, NEW task \in Tasks, SubmitStopped(t, task) PROVE SchedulerInv'
  BY <1>3, DropKeepsInv DEF SubmitStopped
<1>4. ASSUME NEW t \in Submitters, SubmitStep(t) PROVE SchedulerInv'
  <2>1. t \in Threads
    BY DEF Threads
  <2>2. CASE SubmitEnter(t) \/ SubmitSeesActive(t) \/ SubmitSeesSpace(t) \/ SubmitNextWorker(t)
    BY <2>1, <2>2, SubmitScans, ScanKeepsInv
  <2>3. CASE SubmitNoWorkers(t) \/ SubmitNoWorkerFound(t) \/ SubmitPushFails(t)
    <3>1. /\ pc[t] \notin {"idle", "submit_count", "submit_id"} /\ ReturnNone(t, hand[t][1])
          /\ UNCHANGED <<queues, admin, submit_counter, next_task_id>> /\ fresh' = fresh
      BY <2>3, Zenon DEF SubmitNoWorkers, SubmitNoWorkerFound, SubmitPushFails, Unsuitable
    <3>2. hand[t][1] \in Tasks
      BY <3>1, SubmitterHand
    <3> QED
      BY <3>1, <3>2, DropKeepsInv
  <2>4. CASE SubmitPush(t) \/ SubmitCount(t) \/ SubmitId(t)
    BY <2>4, SubmitPushKeepsInv, SubmitCountKeepsInv, SubmitIdKeepsInv
  <2> QED
    BY <1>4, <2>2, <2>3, <2>4 DEF SubmitStep
<1>5. ASSUME NEW t \in Consumers, NEW w \in WorkerIds, PopCall(t, w) \/ StealCall(t, w) \/ BatchCall(t, w)
      PROVE  SchedulerInv'
  BY <1>5, CallScans, ScanKeepsInv DEF Threads
<1>6. ASSUME NEW t \in Consumers, NEW w \in WorkerIds, CallRefused(t, w) PROVE SchedulerInv'
  BY <1>1, <1>6 DEF CallRefused
<1>7. ASSUME NEW t \in Consumers, TakeStep(t) PROVE SchedulerInv'
  <2>1. t \in Threads
    BY DEF Threads
  <2>2. CASE \/ PopEmpty(t) \/ StealNone(t) \/ BatchTooFew(t)
             \/ StealSeesActive(t) \/ StealNextWorker(t)
             \/ BatchSeesActive(t) \/ BatchSkip(t) \/ BatchCompare(t)
    BY <2>1, <2>2, ConsumerScans, ScanKeepsInv
  <2>3. CASE PopTake(t) \/ StealTake(t) \/ BatchTake(t)
    BY <2>3, TakesKeepInv
  <2>4. CASE TakeCount(t)
    BY <2>4, TakeCountKeepsInv
  <2> QED
    BY <1>7, <2>2, <2>3, <2>4 DEF TakeStep
<1>8. CASE Stop \/ AddWorker \/ \E w \in WorkerIds : DeactivateWorker(w)
  BY <1>8, AdminKeepsInv
<1> QED
  BY <1>1, <1>2, <1>3, <1>4, <1>5, <1>6, <1>7, <1>8 DEF Next

\* The inductive invariant holds in every reachable state of the scheduler.
THEOREM Invariance == Spec => []SchedulerInv
  BY InitInv, NextInv, PTL DEF Spec

\* Every variable keeps its Rust type: no deque length wraps below zero.
THEOREM TypeCorrect == Spec => []TypeOK
<1>1. SchedulerInv => TypeOK
  BY DEF SchedulerInv
<1> QED
  BY <1>1, Invariance, PTL

\* No interleaving of submit, pop, steal and steal_batch duplicates a task.
THEOREM NeverDuplicated == Spec => []NoTaskDuplicated
<1>1. SchedulerInv => NoTaskDuplicated
  BY DEF SchedulerInv
<1> QED
  BY <1>1, Invariance, PTL

\* No task is lost between its submission and its delivery.
THEOREM NeverLost == Spec => []NoTaskLost
<1>1. SchedulerInv => NoTaskLost
  BY DEF SchedulerInv
<1> QED
  BY <1>1, Invariance, PTL

\* submit never returns Some for a task it then drops.
THEOREM AcceptedKept == Spec => []AcceptedIsKept
<1>1. SchedulerInv => AcceptedIsKept
  BY DEF SchedulerInv, PushedInv, AcceptedIsKept
<1> QED
  BY <1>1, Invariance, PTL

\* The lock-free lengths are exact between pushes and takes, and no deque ever
\* holds more than queue_capacity tasks.
THEOREM LengthsExact == Spec => []LenIsExact
<1>1. SchedulerInv => LenIsExact
  BY DEF SchedulerInv
<1> QED
  BY <1>1, Invariance, PTL

\* No two tasks get the same TaskId.
THEOREM UniqueIds == Spec => []IdsUnique
<1>1. SchedulerInv => IdsUnique
  BY DEF SchedulerInv, IdsInv
<1> QED
  BY <1>1, Invariance, PTL

\* No call indexes past the vector of workers, although add_worker changes it.
THEOREM IndicesInBounds == Spec => []InBounds
<1>1. SchedulerInv => InBounds
  BY DEF SchedulerInv
<1> QED
  BY <1>1, Invariance, PTL

=============================================================================
