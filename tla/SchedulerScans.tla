---------------------------- MODULE SchedulerScans ----------------------------
(***************************************************************************)
(* First part of the proof that Scheduler keeps its invariant: sequences,  *)
(* places, and the steps that only look at shared state.                   *)
(***************************************************************************)
EXTENDS Scheduler, TLAPS

-----------------------------------------------------------------------------
(* Sequences: what push, pop, steal and steal_half do to the items of a deque *)

\* push_back adds one item; it keeps the items distinct if the item is new.
LEMMA AppendElements ==
  ASSUME NEW S, NEW s \in Seq(S), NEW x \in S
  PROVE  /\ Elements(Append(s, x)) = Elements(s) \cup {x}
         /\ x \notin Elements(s) /\ NoRepeats(s) => NoRepeats(Append(s, x))
<1> DEFINE r == Append(s, x)
<1>1. /\ DOMAIN r = 1 .. Len(s) + 1 /\ DOMAIN s = 1 .. Len(s) /\ Len(s) \in Nat
      /\ \A i \in 1 .. Len(s) : r[i] = s[i]
      /\ r[Len(s) + 1] = x
  OBVIOUS
<1>2. \A i \in 1 .. Len(s) + 1 : i \in 1 .. Len(s) \/ i = Len(s) + 1
  BY <1>1
<1> HIDE DEF r
<1>3. Elements(r) = Elements(s) \cup {x}
  BY <1>1, <1>2 DEF Elements
<1>4. x \notin Elements(s) /\ NoRepeats(s) => NoRepeats(r)
  BY <1>1, <1>2 DEF Elements, NoRepeats
<1> QED
  BY <1>3, <1>4 DEF r

\* Cutting a deque in two distributes its items over the parts, without repeats.
LEMMA SplitElements ==
  ASSUME NEW S, NEW s \in Seq(S), NEW m \in 0 .. Len(s)
  PROVE  LET a == SubSeq(s, 1, m)
             b == SubSeq(s, m + 1, Len(s))
         IN  /\ a \in Seq(S) /\ b \in Seq(S)
             /\ Len(a) = m /\ Len(a) + Len(b) = Len(s)
             /\ Elements(s) = Elements(a) \cup Elements(b)
             /\ NoRepeats(s) => /\ NoRepeats(a) /\ NoRepeats(b)
                                /\ Elements(a) \cap Elements(b) = {}
<1> DEFINE a == SubSeq(s, 1, m)
           b == SubSeq(s, m + 1, Len(s))
<1>1. /\ a \in Seq(S) /\ Len(a) = m
      /\ \A i \in 1 .. m : a[i] = s[i]
  OBVIOUS
<1>2. /\ b \in Seq(S) /\ Len(b) = Len(s) - m
      /\ \A i \in 1 .. Len(s) - m : b[i] = s[m + i]
  OBVIOUS
<1>3. DOMAIN a = 1 .. m /\ DOMAIN b = 1 .. Len(s) - m /\ DOMAIN s = 1 .. Len(s)
  BY <1>1, <1>2
<1> HIDE DEF a, b
<1>4. \A i \in 1 .. Len(s) : i \in 1 .. m \/ (i - m \in 1 .. Len(s) - m /\ m + (i - m) = i)
  OBVIOUS
<1>5. Elements(s) = Elements(a) \cup Elements(b)
  <2>1. ASSUME NEW i \in 1 .. Len(s) PROVE s[i] \in Elements(a) \cup Elements(b)
    <3>1. CASE i \in 1 .. m
      BY <3>1, <1>1, <1>3 DEF Elements
    <3>2. CASE i \notin 1 .. m
      <4>1. PICK j \in 1 .. Len(s) - m : m + j = i
        BY <3>2, <1>4
      <4>2. b[j] = s[i]
        BY <4>1, <1>2, Zenon
      <4> QED
        BY <4>1, <4>2, <1>3 DEF Elements
    <3> QED
      BY <3>1, <3>2
  <2>2. ASSUME NEW i \in 1 .. m PROVE a[i] \in Elements(s)
    BY <1>1, <1>3 DEF Elements
  <2>3. ASSUME NEW i \in 1 .. Len(s) - m PROVE b[i] \in Elements(s)
    <3>1. m + i \in 1 .. Len(s)
      OBVIOUS
    <3> QED
      BY <3>1, <1>2, <1>3, Zenon DEF Elements
  <2> QED
    BY <2>1, <2>2, <2>3, <1>3, Zenon DEF Elements
<1>6. NoRepeats(s) => NoRepeats(a) /\ NoRepeats(b) /\ Elements(a) \cap Elements(b) = {}
  <2> SUFFICES ASSUME NoRepeats(s)
               PROVE  NoRepeats(a) /\ NoRepeats(b) /\ Elements(a) \cap Elements(b) = {}
    OBVIOUS
  <2>1. \A i \in 1 .. m : i \in 1 .. Len(s)
    OBVIOUS
  <2>2. \A i \in 1 .. Len(s) - m : m + i \in 1 .. Len(s) /\ i \in Nat
    OBVIOUS
  <2>3. NoRepeats(a)
    BY <2>1, <1>1, <1>3 DEF NoRepeats
  <2>4. NoRepeats(b)
    <3> SUFFICES ASSUME NEW i \in 1 .. Len(s) - m, NEW j \in 1 .. Len(s) - m, b[i] = b[j]
                 PROVE  i = j
      BY <1>3 DEF NoRepeats
    <3>1. s[m + i] = s[m + j]
      BY <1>2, Zenon
    <3>2. m + i = m + j
      BY <3>1, <2>2, <1>3 DEF NoRepeats
    <3> QED
      BY <3>2
  <2>5. ASSUME NEW i \in 1 .. m, NEW j \in 1 .. Len(s) - m PROVE a[i] # b[j]
    <3>1. i # m + j
      OBVIOUS
    <3>2. s[i] # s[m + j]
      BY <3>1, <2>1, <2>2, <1>3 DEF NoRepeats
    <3> QED
      BY <3>2, <1>1, <1>2
  <2> QED
    BY <2>3, <2>4, <2>5, <1>3 DEF Elements
<1>7. Len(a) + Len(b) = Len(s)
  BY <1>1, <1>2
<1> QED
  BY <1>1, <1>2, <1>5, <1>6, <1>7, Zenon DEF a, b

\* What a deque of one item, and the two ends of one that is not empty, are.
LEMMA OneItem ==
  ASSUME NEW S, NEW s \in Seq(S), Len(s) = 1
  PROVE  s[1] \in S /\ Elements(s) = {s[1]}
<1>1. DOMAIN s = {1} /\ s[1] \in S
  OBVIOUS
<1> QED
  BY <1>1 DEF Elements

LEMMA Ends ==
  ASSUME NEW S, NEW s \in Seq(S), s # << >>
  PROVE  /\ Len(s) - 1 \in 0 .. Len(s) /\ (Len(s) - 1) + 1 = Len(s)
         /\ <<s[Len(s)]>> = SubSeq(s, Len(s), Len(s))
         /\ 1 \in 0 .. Len(s) /\ <<s[1]>> = SubSeq(s, 1, 1)
  OBVIOUS

-----------------------------------------------------------------------------
(* Places: moving tasks from one place to another keeps them apart *)

Apart(C, P) == \A p, q \in P : p # q => C[p] \cap C[q] = {}
Cover(C, P, S) == \A k \in S : \E p \in P : k \in C[p]

\* D is C with the tasks M moved from src to dst.
Moved(C, D, P, src, dst, M) ==
    /\ src \in P /\ dst \in P /\ src # dst
    /\ M \subseteq C[src]
    /\ D[src] = C[src] \ M
    /\ D[dst] = C[dst] \cup M
    /\ \A p \in P \ {src, dst} : D[p] = C[p]

\* Moving tasks neither duplicates nor loses one.
LEMMA MoveLemma ==
  ASSUME NEW P, NEW S, NEW C, NEW D, NEW src, NEW dst, NEW M,
         Moved(C, D, P, src, dst, M)
  PROVE  /\ Apart(C, P) => Apart(D, P)
         /\ Cover(C, P, S) => Cover(D, P, S)
<1>1. \A p \in P : D[p] = IF p = src THEN C[p] \ M ELSE IF p = dst THEN C[p] \cup M ELSE C[p]
  BY DEF Moved
<1>2. ASSUME Apart(C, P) PROVE Apart(D, P)
  <2> SUFFICES ASSUME NEW p \in P, NEW q \in P, p # q, NEW k \in D[p], k \in D[q]
               PROVE  FALSE
    BY DEF Apart
  <2>1. \A r \in P, r2 \in P : r # r2 => ~(k \in C[r] /\ k \in C[r2])
    BY <1>2 DEF Apart
  <2> QED
    BY <2>1, <1>1 DEF Moved
<1>3. ASSUME Cover(C, P, S) PROVE Cover(D, P, S)
  <2> SUFFICES ASSUME NEW k \in S PROVE \E p \in P : k \in D[p]
    BY DEF Cover
  <2>1. PICK p \in P : k \in C[p]
    BY <1>3 DEF Cover
  <2> QED
    BY <2>1, <1>1 DEF Moved
<1> QED
  BY <1>2, <1>3

-----------------------------------------------------------------------------
(* Facts every step needs *)

Carrying == {"submit_count", "submit_id", "take_count"}

\* A thread inside a call uses indices of existing workers.
LEMMA Indices ==
  ASSUME SchedulerInv, NEW t \in Threads, HoldsReadLock(t)
  PROVE  /\ num_workers \in Nat \ {0}
         /\ at[t] \in WorkerIds /\ at[t] \in 0 .. num_workers - 1
         /\ base[t] \in 0 .. num_workers - 1
         /\ NextAt(t) \in 0 .. num_workers - 1
<1>1. at[t] \in Nat /\ base[t] \in Nat /\ num_workers \in 0 .. MaxWorkers
  BY DEF SchedulerInv, TypeOK
<1>2. at[t] < num_workers /\ base[t] < num_workers
  BY DEF SchedulerInv, InBounds
<1>3. MaxWorkers \in Nat
  BY SchedulerAssumption
<1>4. num_workers \in Nat \ {0} /\ at[t] \in 0 .. num_workers - 1 /\ base[t] \in 0 .. num_workers - 1
  BY <1>1, <1>2, <1>3
<1>5. at[t] \in WorkerIds
  BY <1>1, <1>2, <1>3 DEF WorkerIds
<1>6. NextAt(t) \in 0 .. num_workers - 1
  BY <1>4 DEF NextAt
<1> QED
  BY <1>4, <1>5, <1>6

\* The contents of the places, one kind at a time, before and after a step.
LEMMA ContentsOf ==
  /\ \A w \in WorkerIds : <<"queue", w>> \in Places /\ Contents[<<"queue", w>>] = Elements(deque[w])
  /\ \A t \in Threads : <<"thread", t>> \in Places /\ Contents[<<"thread", t>>] = Held(t)
  /\ <<"fate", "fresh">> \in Places /\ Contents[<<"fate", "fresh">>] = fresh
  /\ <<"fate", "dropped">> \in Places /\ Contents[<<"fate", "dropped">>] = dropped
  /\ <<"fate", "delivered">> \in Places /\ Contents[<<"fate", "delivered">>] = delivered
  BY DEF Contents, Places

\* The same for the contents after a step.
LEMMA ContentsAfter ==
  /\ \A w \in WorkerIds : Contents'[<<"queue", w>>] = Elements(deque'[w])
  /\ \A t \in Threads : Contents'[<<"thread", t>>] = Held(t)'
  /\ Contents'[<<"fate", "fresh">>] = fresh'
  /\ Contents'[<<"fate", "dropped">>] = dropped'
  /\ Contents'[<<"fate", "delivered">>] = delivered'
  BY DEF Contents, Places

\* A place is a deque, a call, or one of the three fates of a task.
LEMMA PlaceKinds ==
  ASSUME NEW p \in Places
  PROVE  \/ \E w \in WorkerIds : p = <<"queue", w>>
         \/ \E t \in Threads : p = <<"thread", t>>
         \/ p \in {<<"fate", "fresh">>, <<"fate", "dropped">>, <<"fate", "delivered">>}
  BY DEF Places

\* Deques, calls and fates are different places.
LEMMA DistinctPlaces ==
  ASSUME NEW w \in WorkerIds, NEW t \in Threads, NEW f \in {"fresh", "dropped", "delivered"}
  PROVE  /\ <<"queue", w>> # <<"thread", t>>
         /\ <<"queue", w>> # <<"fate", f>>
         /\ <<"thread", t>> # <<"fate", f>>
  OBVIOUS

\* The two properties about tasks say that the places are apart and cover them all.
LEMMA Partition ==
  /\ NoTaskDuplicated <=> /\ \A w \in WorkerIds : NoRepeats(deque[w])
                          /\ \A t \in Threads : NoRepeats(hand[t])
                          /\ Apart(Contents, Places)
  /\ NoTaskLost <=> Cover(Contents, Places, Tasks)
  BY DEF NoTaskDuplicated, NoTaskLost, Apart, Cover

\* The same for the places after a step.
LEMMA PartitionAfter ==
  /\ NoTaskDuplicated' <=> /\ \A w \in WorkerIds : NoRepeats(deque'[w])
                           /\ \A t \in Threads : NoRepeats(hand'[t])
                           /\ Apart(Contents', Places)
  /\ NoTaskLost' <=> Cover(Contents', Places, Tasks)
  BY DEF NoTaskDuplicated, NoTaskLost, Apart, Cover, Places, WorkerIds, Threads

\* A step of t that neither holds nor takes a mutex leaves the mutexes in order.
LEMMA QuietKeepsMutexInv ==
  ASSUME SchedulerInv, NEW t \in Threads,
         UNCHANGED <<deque, len, mutex>>,
         pc[t] \notin Counting, pc'[t] \notin Counting,
         \A u \in Threads : u # t => pc'[u] = pc[u] /\ at'[u] = at[u] /\ hand'[u] = hand[u]
  PROVE  MutexInv'
<1>1. \A u \in Threads : pc'[u] \in Counting => u # t
  OBVIOUS
<1>2. \A w \in WorkerIds : mutex[w] # NoThread => mutex[w] \in Threads /\ mutex[w] # t
  BY DEF SchedulerInv, MutexInv, TypeOK
<1>3. \A u \in Threads : pc'[u] \in Counting => mutex'[at'[u]] = u
  BY <1>1 DEF SchedulerInv, MutexInv
<1>4. \A w \in WorkerIds : mutex'[w] # NoThread => pc'[mutex'[w]] \in Counting /\ at'[mutex'[w]] = w
  BY <1>2 DEF SchedulerInv, MutexInv
<1>5. \A u \in Threads :
        /\ pc'[u] = "submit_count" => Len(deque'[at'[u]]) = len'[at'[u]] + 1
        /\ pc'[u] = "take_count" => Len(deque'[at'[u]]) + Len(hand'[u]) = len'[at'[u]]
  <2> SUFFICES ASSUME NEW u \in Threads, pc'[u] \in Counting
               PROVE  /\ pc'[u] = "submit_count" => Len(deque[at[u]]) = len[at[u]] + 1
                      /\ pc'[u] = "take_count" => Len(deque[at[u]]) + Len(hand[u]) = len[at[u]]
    BY <1>1, Zenon DEF Counting
  <2> QED
    BY <1>1, Zenon DEF SchedulerInv, MutexInv
<1> QED
  BY <1>3, <1>4, <1>5, Zenon DEF MutexInv

-----------------------------------------------------------------------------
(* Steps that move no task and touch no deque: a thread looks at the next   *)
(* worker, enters a call, or returns with nothing.                          *)

ScanStep(t) ==
    /\ UNCHANGED <<queues, admin, hand, next_task_id, history>>
    /\ submit_counter' \in Nat
    /\ pc[t] \notin Carrying
    /\ \/ t \in Submitters /\ pc[t] # "idle" /\ pc'[t] \in SubmitLabels
       \/ t \in Consumers /\ pc'[t] \in Labels \ SubmitLabels
    /\ pc'[t] \notin Carrying
    /\ pc' = [pc EXCEPT ![t] = pc'[t]]
    /\ at' = [at EXCEPT ![t] = at'[t]] /\ at'[t] \in Nat
    /\ base' = [base EXCEPT ![t] = base'[t]] /\ base'[t] \in Nat
    /\ busiest' = [busiest EXCEPT ![t] = busiest'[t]]
    /\ busiest'[t] \in (Nat \cup {NoWorker}) \X Nat
    /\ HoldsReadLock(t)' => at'[t] < num_workers /\ base'[t] < num_workers
    /\ busiest'[t][1] # NoWorker => pc'[t] # "idle" /\ busiest'[t][1] < num_workers

\* Looking at workers preserves the invariant.
LEMMA ScanKeepsInv ==
  ASSUME SchedulerInv, NEW t \in Threads, ScanStep(t)
  PROVE  SchedulerInv'
<1> USE DEF ScanStep, queues, admin, history
<1>0. TypeOK
  BY DEF SchedulerInv
<1>1. TypeOK'
  <2>1. pc'[t] \in Labels
    BY DEF Labels, SubmitLabels
  <2>2. pc' \in [Threads -> Labels]
    BY <1>0, <2>1, Zenon DEF TypeOK
  <2>3. at' \in [Threads -> Nat] /\ base' \in [Threads -> Nat]
    BY <1>0, Zenon DEF TypeOK
  <2>4. busiest' \in [Threads -> (Nat \cup {NoWorker}) \X Nat]
    BY <1>0, Zenon DEF TypeOK
  <2> QED
    BY <1>0, <2>2, <2>3, <2>4 DEF TypeOK
<1>2. \A u \in Threads : u # t => pc'[u] = pc[u] /\ at'[u] = at[u] /\ base'[u] = base[u] /\ busiest'[u] = busiest[u]
  BY DEF SchedulerInv, TypeOK
<1>3. ControlInv'
  <2>1. \A u \in Submitters : u # t =>
          /\ pc'[u] \in SubmitLabels \cup {"idle"}
          /\ pc'[u] = "idle" => hand'[u] = << >>
          /\ pc'[u] \in SubmitLabels => Len(hand'[u]) = 1
    BY <1>2, Zenon DEF SchedulerInv, ControlInv, Threads
  <2>2. \A u \in Consumers : u # t =>
          pc'[u] \in Labels \ SubmitLabels /\ (pc'[u] # "take_count" => hand'[u] = << >>)
    BY <1>2, Zenon DEF SchedulerInv, ControlInv, Threads
  <2>3. t \in Submitters =>
          /\ pc'[t] \in SubmitLabels \cup {"idle"}
          /\ pc'[t] = "idle" => hand'[t] = << >>
          /\ pc'[t] \in SubmitLabels => Len(hand'[t]) = 1
    BY SchedulerAssumption DEF SchedulerInv, ControlInv, Carrying, SubmitLabels, Labels
  <2>4. t \in Consumers =>
          pc'[t] \in Labels \ SubmitLabels /\ (pc'[t] # "take_count" => hand'[t] = << >>)
    BY SchedulerAssumption DEF SchedulerInv, ControlInv, Carrying, SubmitLabels, Labels
  <2> QED
    BY <2>1, <2>2, <2>3, <2>4, Zenon DEF ControlInv
<1>4. MutexInv'
  BY <1>2, QuietKeepsMutexInv, Zenon DEF Counting, Carrying
<1>5. BusiestInv'
  BY <1>2 DEF SchedulerInv, BusiestInv
<1>6. LenIsExact'
  BY DEF SchedulerInv, LenIsExact
<1>7. InBounds'
  BY <1>2 DEF SchedulerInv, InBounds, HoldsReadLock
<1>8. \A u \in Threads : Held(u)' = Held(u)
  BY <1>2 DEF Held, Carrying
<1>9. Contents' = Contents
  BY <1>8 DEF Contents, Places
<1>10. NoTaskDuplicated' /\ NoTaskLost'
  BY <1>9, Partition, PartitionAfter DEF SchedulerInv
<1>11. PushedInv'
  BY <1>2, <1>8 DEF SchedulerInv, PushedInv, Threads, Carrying
<1>12. IdsInv'
  BY DEF SchedulerInv, IdsInv, IdsUnique
<1> QED
  BY <1>1, <1>3, <1>4, <1>5, <1>6, <1>7, <1>10, <1>11, <1>12 DEF SchedulerInv

\* A step is a ScanStep if the new values of the thread's locals are well formed.
LEMMA ScanIntro ==
  ASSUME TypeOK, NEW t \in Threads, NEW label,
         NEW a \in Nat, NEW b \in Nat, NEW z \in (Nat \cup {NoWorker}) \X Nat,
         UNCHANGED <<queues, admin, hand, next_task_id, history>>,
         submit_counter' \in Nat,
         pc' = [pc EXCEPT ![t] = label],
         at' = [at EXCEPT ![t] = a],
         base' = [base EXCEPT ![t] = b],
         busiest' = [busiest EXCEPT ![t] = z],
         pc[t] \notin Carrying,
         label \notin Carrying,
         \/ t \in Submitters /\ pc[t] # "idle" /\ label \in SubmitLabels
         \/ t \in Consumers /\ label \in Labels \ SubmitLabels,
         label \notin {"idle", "submit"} => a < num_workers /\ b < num_workers,
         z[1] # NoWorker => label # "idle" /\ z[1] < num_workers
  PROVE  ScanStep(t)
<1>1. pc'[t] = label /\ at'[t] = a /\ base'[t] = b /\ busiest'[t] = z
  BY DEF TypeOK
<1> QED
  BY <1>1, Zenon DEF ScanStep, HoldsReadLock

\* What is known of the locals of a thread.
LEMMA LocalFacts ==
  ASSUME SchedulerInv, NEW t \in Threads
  PROVE  /\ TypeOK
         /\ at[t] \in Nat /\ base[t] \in Nat /\ busiest[t] \in (Nat \cup {NoWorker}) \X Nat
         /\ at = [at EXCEPT ![t] = at[t]] /\ base = [base EXCEPT ![t] = base[t]]
         /\ busiest = [busiest EXCEPT ![t] = busiest[t]]
         /\ busiest[t][1] # NoWorker => pc[t] # "idle" /\ busiest[t][1] < num_workers
         /\ num_workers \in Nat /\ submit_counter \in Nat
<1>1. TypeOK /\ BusiestInv
  BY DEF SchedulerInv
<1>2. num_workers \in Nat
  BY <1>1, SchedulerAssumption DEF TypeOK
<1> QED
  BY <1>1, <1>2 DEF TypeOK, BusiestInv

\* submit's search for a worker only looks.
LEMMA SubmitScans ==
  ASSUME SchedulerInv, NEW t \in Submitters,
         SubmitEnter(t) \/ SubmitSeesActive(t) \/ SubmitSeesSpace(t) \/ SubmitNextWorker(t)
  PROVE  ScanStep(t)
<1>1. t \in Threads
  BY DEF Threads
<1> USE <1>1 DEF Go, LookAt, local
<1>2. CASE SubmitEnter(t)
  <2> DEFINE a == submit_counter % num_workers
  <2>1. a \in Nat /\ a < num_workers /\ submit_counter + 1 \in Nat
    BY <1>2, LocalFacts DEF SubmitEnter
  <2>2. a \in Nat /\ a < num_workers /\ submit_counter' \in Nat
    BY <1>2, <2>1 DEF SubmitEnter
  <2> HIDE DEF a
  <2>3. /\ pc[t] = "submit" /\ pc' = [pc EXCEPT ![t] = "submit_active"]
        /\ at' = [at EXCEPT ![t] = a] /\ base' = [base EXCEPT ![t] = a]
        /\ busiest' = [busiest EXCEPT ![t] = busiest[t]]
        /\ UNCHANGED <<queues, admin, hand, next_task_id, history>>
    BY <1>2, LocalFacts DEF SubmitEnter, a
  <2> QED
    BY <2>2, <2>3, LocalFacts, ScanIntro, Zenon DEF SubmitLabels, Carrying
<1>3. ASSUME NEW label \in {"submit_len", "submit_push"},
             pc[t] \in {"submit_active", "submit_len"},
             pc' = [pc EXCEPT ![t] = label],
             UNCHANGED <<queues, admin, submit_counter, next_task_id, local, hand, history>>
      PROVE  ScanStep(t)
  <2>1. HoldsReadLock(t)
    BY <1>3 DEF HoldsReadLock
  <2>2. at[t] < num_workers /\ base[t] < num_workers
    BY <2>1, Indices, LocalFacts
  <2>3. /\ at' = [at EXCEPT ![t] = at[t]] /\ base' = [base EXCEPT ![t] = base[t]]
        /\ busiest' = [busiest EXCEPT ![t] = busiest[t]]
        /\ submit_counter' \in Nat
    BY <1>3, LocalFacts
  <2>4. label # "idle" /\ label \in SubmitLabels /\ label \notin Carrying /\ pc[t] \notin Carrying /\ pc[t] # "idle"
    BY <1>3 DEF SubmitLabels, Carrying
  <2>5. UNCHANGED <<queues, admin, hand, next_task_id, history>> /\ pc' = [pc EXCEPT ![t] = label]
    BY <1>3
  <2> QED
    BY <2>2, <2>3, <2>4, <2>5, LocalFacts, ScanIntro, Zenon
<1>4. CASE SubmitSeesActive(t)
  BY <1>3, <1>4 DEF SubmitSeesActive
<1>5. CASE SubmitSeesSpace(t)
  BY <1>3, <1>5 DEF SubmitSeesSpace
<1>6. CASE SubmitNextWorker(t)
  <2>1. HoldsReadLock(t) /\ pc[t] \in {"submit_active", "submit_len"}
    BY <1>6 DEF SubmitNextWorker, Unsuitable, HoldsReadLock
  <2>2. NextAt(t) \in Nat /\ NextAt(t) < num_workers /\ base[t] < num_workers
    BY <2>1, Indices, LocalFacts
  <2>3. /\ pc' = [pc EXCEPT ![t] = "submit_active"]
        /\ at' = [at EXCEPT ![t] = NextAt(t)] /\ base' = [base EXCEPT ![t] = base[t]]
        /\ busiest' = [busiest EXCEPT ![t] = busiest[t]]
        /\ submit_counter' \in Nat
        /\ UNCHANGED <<queues, admin, hand, next_task_id, history>>
    BY <1>6, LocalFacts DEF SubmitNextWorker
  <2> QED
    BY <2>1, <2>2, <2>3, LocalFacts, ScanIntro, Zenon DEF SubmitLabels, Carrying
<1> QED
  BY <1>2, <1>4, <1>5, <1>6

\* A consumer that returns while it has taken nothing only forgets its locals.
LEMMA EmptyReturnScans ==
  ASSUME SchedulerInv, NEW t \in Consumers, pc[t] # "take_count", Return(t),
         UNCHANGED <<queues, admin, submit_counter, next_task_id, history>>
  PROVE  ScanStep(t)
<1>1. t \in Threads /\ hand[t] = << >> /\ pc[t] \notin Carrying
  BY DEF Threads, SchedulerInv, ControlInv, Carrying, SubmitLabels
<1>2. hand' = hand
  BY <1>1 DEF Return, SchedulerInv, TypeOK
<1>3. /\ pc' = [pc EXCEPT ![t] = "idle"] /\ at' = [at EXCEPT ![t] = 0]
      /\ base' = [base EXCEPT ![t] = 0] /\ busiest' = [busiest EXCEPT ![t] = NotBusy]
      /\ submit_counter' \in Nat
      /\ UNCHANGED <<queues, admin, hand, next_task_id, history>>
  BY <1>1, <1>2, LocalFacts DEF Return, Go
<1>4. NotBusy \in (Nat \cup {NoWorker}) \X Nat /\ NotBusy[1] = NoWorker
  BY DEF NotBusy
<1>5. "idle" \in Labels \ SubmitLabels /\ "idle" \notin Carrying
  BY DEF Labels, SubmitLabels, Carrying
<1> QED
  BY <1>1, <1>3, <1>4, <1>5, LocalFacts, ScanIntro, Zenon

\* A consumer that goes on searching only changes its locals.
LEMMA SearchScans ==
  ASSUME SchedulerInv, NEW t \in Consumers, pc[t] # "take_count",
         NEW label \in {"pop", "steal_active", "steal", "batch_active", "batch_len", "batch"},
         NEW a \in Nat, NEW b \in Nat, NEW z \in (Nat \cup {NoWorker}) \X Nat,
         a < num_workers, b < num_workers,
         z[1] # NoWorker => z[1] < num_workers,
         pc' = [pc EXCEPT ![t] = label],
         at' = [at EXCEPT ![t] = a],
         base' = [base EXCEPT ![t] = b],
         busiest' = [busiest EXCEPT ![t] = z],
         UNCHANGED <<queues, admin, submit_counter, hand, next_task_id, history>>
  PROVE  ScanStep(t)
<1>1. t \in Threads /\ pc[t] \notin Carrying
  BY DEF Threads, SchedulerInv, ControlInv, Carrying, SubmitLabels
<1>2. label \in Labels \ SubmitLabels /\ label \notin Carrying /\ label # "idle"
  BY DEF Labels, SubmitLabels, Carrying
<1>3. submit_counter' \in Nat /\ UNCHANGED <<queues, admin, hand, next_task_id, history>>
  BY <1>1, LocalFacts
<1> QED
  BY <1>1, <1>2, <1>3, LocalFacts, ScanIntro, Zenon

\* Entering pop, steal or steal_batch.
LEMMA CallScans ==
  ASSUME SchedulerInv, NEW t \in Consumers, NEW w \in WorkerIds,
         PopCall(t, w) \/ StealCall(t, w) \/ BatchCall(t, w)
  PROVE  ScanStep(t)
<1>1. t \in Threads /\ num_workers \in Nat /\ w \in Nat
  BY LocalFacts, SchedulerAssumption DEF Threads, WorkerIds
<1>2. PICK label \in {"pop", "steal_active", "batch_active"}, first \in {w, (w + 1) % num_workers, 0} :
        Call(t, w, label, first)
  BY DEF PopCall, StealCall, BatchCall
<1>3. w < num_workers /\ pc[t] = "idle"
  BY <1>2 DEF Call
<1>4. first \in Nat /\ first < num_workers
  BY <1>1, <1>2, <1>3
<1>5. /\ pc' = [pc EXCEPT ![t] = label] /\ at' = [at EXCEPT ![t] = first]
      /\ base' = [base EXCEPT ![t] = w] /\ busiest' = [busiest EXCEPT ![t] = busiest[t]]
      /\ UNCHANGED <<queues, admin, submit_counter, hand, next_task_id, history>>
  BY <1>1, <1>2, LocalFacts DEF Call, Go, LookAt
<1> QED
  BY <1>1, <1>2, <1>3, <1>4, <1>5, LocalFacts, SearchScans, Zenon

\* One round of steal_batch's search for the busiest worker.
LEMMA BatchNextScans ==
  ASSUME SchedulerInv, NEW t \in Consumers, pc[t] \in {"batch_active", "batch_len"},
         NEW z \in (Nat \cup {NoWorker}) \X Nat, z[1] # NoWorker => z[1] < num_workers,
         BatchNext(t, z)
  PROVE  ScanStep(t)
<1>1. t \in Threads /\ HoldsReadLock(t) /\ pc[t] # "take_count"
  BY DEF Threads, HoldsReadLock
<1>2. /\ at[t] \in Nat /\ at[t] + 1 \in Nat /\ base[t] \in Nat /\ num_workers \in Nat
      /\ base[t] < num_workers
  BY <1>1, Indices, LocalFacts
<1>3. UNCHANGED <<queues, admin, submit_counter, next_task_id, history>>
  BY Zenon DEF BatchNext
<1>4. CASE Return(t)
  BY <1>1, <1>3, <1>4, EmptyReturnScans
<1>5. ASSUME NEW label \in {"batch_active", "batch"}, NEW a \in Nat, a < num_workers,
             LookAt(t, a), busiest' = [busiest EXCEPT ![t] = z], Go(t, label),
             UNCHANGED <<base, hand>>
      PROVE  ScanStep(t)
  <2>1. /\ pc' = [pc EXCEPT ![t] = label] /\ at' = [at EXCEPT ![t] = a]
        /\ base' = [base EXCEPT ![t] = base[t]]
        /\ UNCHANGED <<queues, admin, submit_counter, hand, next_task_id, history>>
    BY <1>1, <1>3, <1>5, LocalFacts, Zenon DEF LookAt, Go
  <2> QED
    BY <1>1, <1>2, <1>5, <2>1, SearchScans, Zenon
<1>6. CASE /\ at[t] + 1 < num_workers
           /\ LookAt(t, at[t] + 1)
           /\ busiest' = [busiest EXCEPT ![t] = z]
           /\ Go(t, "batch_active")
           /\ UNCHANGED <<base, hand>>
  BY <1>2, <1>5, <1>6, Zenon
<1>7. CASE /\ z[1] # NoWorker
           /\ LookAt(t, z[1])
           /\ busiest' = [busiest EXCEPT ![t] = z]
           /\ Go(t, "batch")
           /\ UNCHANGED <<base, hand>>
  BY <1>2, <1>5, <1>7
<1> QED
  BY <1>4, <1>6, <1>7 DEF BatchNext

\* The searches of pop, steal and steal_batch only look.
LEMMA ConsumerScans ==
  ASSUME SchedulerInv, NEW t \in Consumers,
         \/ PopEmpty(t) \/ StealNone(t) \/ BatchTooFew(t)
         \/ StealSeesActive(t) \/ StealNextWorker(t)
         \/ BatchSeesActive(t) \/ BatchSkip(t) \/ BatchCompare(t)
  PROVE  ScanStep(t)
<1>1. t \in Threads
  BY Zenon DEF Threads
<1>2. CASE PopEmpty(t) \/ StealNone(t) \/ BatchTooFew(t)
  BY <1>2, EmptyReturnScans, Zenon DEF PopEmpty, StealNone, BatchTooFew, ReturnNothing, NothingToSteal
<1>3. ASSUME NEW label \in {"steal", "batch_len"}, pc[t] \in {"steal_active", "batch_active"},
             Go(t, label),
             UNCHANGED <<queues, admin, submit_counter, next_task_id, local, hand, history>>
      PROVE  ScanStep(t)
  <2>1. HoldsReadLock(t) /\ pc[t] # "take_count"
    BY <1>3 DEF HoldsReadLock
  <2>2. at[t] < num_workers /\ base[t] < num_workers
    BY <1>1, <2>1, Indices, LocalFacts
  <2>3. /\ pc' = [pc EXCEPT ![t] = label]
        /\ at' = [at EXCEPT ![t] = at[t]] /\ base' = [base EXCEPT ![t] = base[t]]
        /\ busiest' = [busiest EXCEPT ![t] = busiest[t]]
        /\ UNCHANGED <<queues, admin, submit_counter, hand, next_task_id, history>>
    BY <1>1, <1>3, LocalFacts, Zenon DEF local, Go
  <2> QED
    BY <1>1, <2>1, <2>2, <2>3, LocalFacts, SearchScans, Zenon
<1>4. CASE StealSeesActive(t)
  BY <1>3, <1>4, Zenon DEF StealSeesActive
<1>5. CASE BatchSeesActive(t)
  BY <1>3, <1>5 DEF BatchSeesActive
<1>6. CASE StealNextWorker(t)
  <2>1. HoldsReadLock(t) /\ pc[t] # "take_count"
    BY <1>6, Zenon DEF HoldsReadLock, StealNextWorker, NothingToSteal
  <2>2. NextAt(t) \in Nat /\ NextAt(t) < num_workers /\ base[t] < num_workers
    BY <1>1, <2>1, Indices, LocalFacts
  <2>3. /\ pc' = [pc EXCEPT ![t] = "steal_active"]
        /\ at' = [at EXCEPT ![t] = NextAt(t)] /\ base' = [base EXCEPT ![t] = base[t]]
        /\ busiest' = [busiest EXCEPT ![t] = busiest[t]]
        /\ UNCHANGED <<queues, admin, submit_counter, hand, next_task_id, history>>
    BY <1>1, <1>6, LocalFacts DEF StealNextWorker, Go, LookAt
  <2> QED
    BY <1>1, <2>1, <2>2, <2>3, LocalFacts, SearchScans, Zenon
<1>7. CASE BatchSkip(t)
  BY <1>1, <1>7, LocalFacts, BatchNextScans, Zenon DEF BatchSkip
<1>8. CASE BatchCompare(t)
  <2> DEFINE z == IF len[at[t]] > busiest[t][2] THEN <<at[t], len[at[t]]>> ELSE busiest[t]
  <2>1. HoldsReadLock(t) /\ pc[t] = "batch_len"
    BY <1>8, Zenon DEF HoldsReadLock, BatchCompare
  <2>2. at[t] \in WorkerIds /\ at[t] < num_workers /\ at[t] \in Nat /\ len[at[t]] \in Nat
    BY <1>1, <2>1, Indices, LocalFacts DEF TypeOK
  <2>3. z \in (Nat \cup {NoWorker}) \X Nat /\ (z[1] # NoWorker => z[1] < num_workers)
    BY <1>1, <2>2, LocalFacts, Zenon
  <2>4. BatchNext(t, z)
    BY <1>8, Zenon DEF BatchCompare
  <2> QED
    BY <2>1, <2>3, <2>4, BatchNextScans, Zenon
<1> QED
  BY <1>2, <1>4, <1>5, <1>6, <1>7, <1>8

=============================================================================
