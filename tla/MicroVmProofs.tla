---------------------------- MODULE MicroVmProofs ----------------------------
(***************************************************************************)
(* Proofs of the properties of MicroVm, for any finite set of threads, any *)
(* limits and any number of calls.  The inductive invariant adds that a VM *)
(* that exists has a vCPU, which create has checked, and that only a VM    *)
(* that exists is being run.                                               *)
(***************************************************************************)
EXTENDS MicroVm, FiniteSetTheorems, TLAPS

\* A VM that was created has a vCPU, and one that was not has no run.
HasVcpu == IF vm_state = "Absent" THEN Inside(RunLabels) = {} ELSE vcpus > 0

VmInv == VmTypeOK /\ HasVcpu /\ ActiveHasRunner /\ RunningHasRunner /\ ExitsCounted

allVmVars == <<callVars, vmVars>>

\* The runs whose exit is not counted yet.
Uncounted == Inside(RunLabels \ {"run_ends"})

-----------------------------------------------------------------------------
\* A step of t moves only t.
LEMMA GoFacts ==
  ASSUME VmTypeOK, NEW t \in Threads, NEW label \in RunLabels \cup {"idle"},
         pc' = [pc EXCEPT ![t] = label]
  PROVE  /\ pc' \in [Threads -> RunLabels \cup {"idle"}]
         /\ pc'[t] = label
         /\ \A u \in Threads : u # t => pc'[u] = pc[u]
  BY DEF VmTypeOK

\* A set of threads is finite, so that its size is a number.
LEMMA InsideFinite ==
  ASSUME NEW labels
  PROVE  IsFiniteSet(Inside(labels)) /\ Cardinality(Inside(labels)) \in Nat
<1>1. Inside(labels) \subseteq Threads
  BY DEF Inside
<1> QED
  BY <1>1, VmAssumption, FS_Subset, FS_CardinalityType

\* Nothing but new, empty objects.
LEMMA InitInv ==
  ASSUME \E calls \in Nat : CallsInit(calls), VmInit
  PROVE  VmInv
<1>1. pc = [t \in Threads |-> "idle"]
  BY DEF CallsInit
<1>2. Uncounted = {}
  BY <1>1 DEF Uncounted, Inside, RunLabels
<1>3. VmTypeOK
  <2>1. pc \in [Threads -> RunLabels \cup {"idle"}]
    BY <1>1
  <2>2. 0 \in 0 .. MAX_VCPUS /\ 0 \in 0 .. MAX_MEMORY_SLOTS
    BY VmAssumption
  <2> QED
    BY <2>1, <2>2 DEF VmInit, VmTypeOK
<1>4. HasVcpu /\ ActiveHasRunner /\ RunningHasRunner
  BY <1>1 DEF VmInit, HasVcpu, ActiveHasRunner, RunningHasRunner, is_active, Inside, RunLabels
<1>5. ExitsCounted
  BY <1>2, FS_EmptySet DEF VmInit, ExitsCounted, Uncounted
<1> QED
  BY <1>3, <1>4, <1>5 DEF VmInv

\* A call that returns at once leaves every run where it is.
LEMMA CallOnceFacts ==
  ASSUME VmInv, NEW t \in Threads, CallOnce(t)
  PROVE  /\ pc' \in [Threads -> RunLabels \cup {"idle"}]
         /\ \A labels \in SUBSET RunLabels : Inside(labels)' = Inside(labels)
<1>1. pc[t] = "idle" /\ pc' = [pc EXCEPT ![t] = "idle"] /\ pc \in [Threads -> RunLabels \cup {"idle"}]
  BY DEF VmInv, VmTypeOK, CallOnce, Begin
<1>2. pc' = pc
  BY <1>1
<1> QED
  BY <1>1, <1>2 DEF Inside

\* Such a call that keeps vCPU flag and counts, and makes the VM active only when
\* it was, keeps the invariant.
LEMMA CallOnceKeepsInv ==
  ASSUME VmInv, NEW t \in Threads, CallOnce(t),
         vm_state' \in {"Absent", "Created", "Running", "Paused", "Stopped"},
         vcpus' \in 0 .. MAX_VCPUS, regions' \in 0 .. MAX_MEMORY_SLOTS, jail_active' \in BOOLEAN,
         UNCHANGED <<vcpu_running, exit_count, begun>>,
         IF vm_state' = "Absent" THEN vm_state = "Absent" ELSE vcpus' > 0,
         is_active(vm_state') => is_active(vm_state)
  PROVE  VmInv'
<1>1. /\ pc' \in [Threads -> RunLabels \cup {"idle"}]
      /\ \A labels \in SUBSET RunLabels : Inside(labels)' = Inside(labels)
  BY CallOnceFacts
<1>2. VmTypeOK' /\ HasVcpu'
  BY <1>1 DEF VmInv, VmTypeOK, HasVcpu, RunLabels
<1>3. Inside(RunLabels)' = Inside(RunLabels) /\ Inside({"vcpu_off"})' = Inside({"vcpu_off"})
      /\ Inside(RunLabels \ {"run_ends"})' = Inside(RunLabels \ {"run_ends"})
  BY <1>1 DEF RunLabels
<1>4. ActiveHasRunner'
  <2>1. is_active(vm_state') => vcpus' > 0
    BY <1>2 DEF HasVcpu, is_active
  <2> QED
    BY <1>3, <2>1 DEF VmInv, ActiveHasRunner
<1>5. RunningHasRunner' /\ ExitsCounted'
  BY <1>3 DEF VmInv, RunningHasRunner, ExitsCounted
<1> QED
  BY <1>2, <1>4, <1>5 DEF VmInv

\* create, add_memory_region, pause, resume, stop, a refused run and the jailer.
LEMMA CallsKeepInv ==
  ASSUME VmInv, NEW t \in Threads,
         \/ \E settings \in VmSettings : VmCreate(t, VmConfig(settings))
         \/ AddMemoryRegion(t) \/ Pause(t) \/ Resume(t) \/ VmStop(t)
         \/ RunStarts(t) /\ ~can_start(vm_state)
         \/ \E active \in BOOLEAN : Jail(t, active)
  PROVE  VmInv'
<1> USE DEF VmInv, VmTypeOK, HasVcpu
<1>1. ASSUME NEW settings \in VmSettings, VmCreate(t, VmConfig(settings)) PROVE VmInv'
  <2> DEFINE c == VmConfig(settings)
  <2>1. c.vcpus \in Nat
    BY VmAssumption DEF VmConfig, DefaultVmConfig
  <2> HIDE DEF c
  <2>2. /\ CallOnce(t) /\ vm_state = "Absent"
        /\ vm_state' = IF validate(c) THEN "Created" ELSE "Absent"
        /\ vcpus' = IF validate(c) THEN c.vcpus ELSE 0
        /\ UNCHANGED <<vcpu_running, regions, exit_count, jail_active, begun>>
    BY <1>1 DEF VmCreate, c
  <2>3. vcpus' \in 0 .. MAX_VCPUS /\ (vm_state' # "Absent" => vcpus' > 0)
    BY <2>1, <2>2, VmAssumption DEF validate
  <2>4. ~is_active(vm_state')
    BY <2>2 DEF is_active
  <2> QED
    BY <2>2, <2>3, <2>4, CallOnceKeepsInv
<1>2. CASE AddMemoryRegion(t)
  <2>1. regions' \in 0 .. MAX_MEMORY_SLOTS
    BY <1>2, VmAssumption DEF AddMemoryRegion
  <2> QED
    BY <1>2, <2>1, CallOnceKeepsInv DEF AddMemoryRegion
<1>3. CASE Pause(t)
  BY <1>3, CallOnceKeepsInv DEF Pause, Switch, is_active
<1>4. CASE Resume(t)
  BY <1>4, CallOnceKeepsInv DEF Resume, Switch, is_active
<1>5. CASE VmStop(t)
  BY <1>5, CallOnceKeepsInv DEF VmStop, Switch, is_active
<1>6. CASE RunStarts(t) /\ ~can_start(vm_state)
  BY <1>6, CallOnceKeepsInv DEF RunStarts
<1>7. ASSUME NEW active \in BOOLEAN, Jail(t, active) PROVE VmInv'
  BY <1>7, CallOnceKeepsInv DEF Jail
<1> QED
  BY <1>1, <1>2, <1>3, <1>4, <1>5, <1>6, <1>7

\* A run that starts is the runner of the VM and will count one exit.
LEMMA RunStartsKeepsInv ==
  ASSUME VmInv, NEW t \in Threads, RunStarts(t), can_start(vm_state)
  PROVE  VmInv'
<1>1. /\ pc[t] = "idle" /\ pc' = [pc EXCEPT ![t] = "vcpu_on"] /\ "vcpu_on" \in RunLabels
      /\ vm_state' = "Running" /\ begun' = begun + 1 /\ vm_state # "Absent"
      /\ UNCHANGED <<vcpus, vcpu_running, regions, exit_count, jail_active>>
  BY DEF RunStarts, Begin, RunLabels
<1>2. /\ pc' \in [Threads -> RunLabels \cup {"idle"}] /\ pc'[t] = "vcpu_on"
      /\ \A u \in Threads : u # t => pc'[u] = pc[u]
  BY <1>1, GoFacts DEF VmInv
<1>3. VmTypeOK' /\ HasVcpu'
  BY <1>1, <1>2 DEF VmInv, VmTypeOK, HasVcpu
<1>4. ActiveHasRunner'
  BY <1>1, <1>2, <1>3 DEF ActiveHasRunner, Inside, HasVcpu
<1>5. RunningHasRunner'
  <2>1. Inside({"vcpu_off"})' = Inside({"vcpu_off"})
    BY <1>1, <1>2 DEF Inside
  <2> QED
    BY <1>1, <2>1 DEF VmInv, RunningHasRunner
<1>6. ExitsCounted'
  <2>1. Uncounted' = Uncounted \cup {t} /\ t \notin Uncounted
    BY <1>1, <1>2 DEF Uncounted, Inside, RunLabels
  <2>2. Cardinality(Uncounted') = Cardinality(Uncounted) + 1 /\ Cardinality(Uncounted) \in Nat
    BY <2>1, InsideFinite, FS_AddElement DEF Uncounted
  <2> QED
    BY <1>1, <2>2 DEF VmInv, VmTypeOK, ExitsCounted, Uncounted
<1> QED
  BY <1>3, <1>4, <1>5, <1>6 DEF VmInv

\* A run on its way stays one until its last block.
LEMMA VcpuKeepsInv ==
  ASSUME VmInv, NEW t \in Threads, VcpuOn(t) \/ VcpuOff(t)
  PROVE  VmInv'
<1>1. PICK label \in {"vcpu_off", "count_exit"} :
        /\ pc[t] \in {"vcpu_on", "vcpu_off"} /\ pc' = [pc EXCEPT ![t] = label]
        /\ UNCHANGED <<vm_state, vcpus, regions, exit_count, jail_active, begun>>
  BY DEF VcpuOn, VcpuOff, Go
<1>2. /\ pc' \in [Threads -> RunLabels \cup {"idle"}] /\ pc'[t] = label
      /\ \A u \in Threads : u # t => pc'[u] = pc[u]
  BY <1>1, GoFacts DEF VmInv, RunLabels
<1>3. vcpu_running' \in BOOLEAN /\ (vcpu_running' => pc'[t] = "vcpu_off")
  <2>1. CASE VcpuOn(t)
    <3>1. pc'[t] = "vcpu_off"
      BY <2>1 DEF VcpuOn, Go, VmInv, VmTypeOK
    <3>2. vcpu_running' \in BOOLEAN
      <4>1. vcpus \in Nat
        BY VmAssumption DEF VmInv, VmTypeOK
      <4>2. (vcpus > 0) \in BOOLEAN
        BY <4>1
      <4> QED
        BY <2>1, <4>2, Zenon DEF VcpuOn
    <3> QED
      BY <3>1, <3>2
  <2>2. CASE VcpuOff(t)
    BY <2>2 DEF VcpuOff
  <2> QED
    BY <2>1, <2>2
<1>4. Inside(RunLabels)' = Inside(RunLabels) /\ Uncounted' = Uncounted
  BY <1>1, <1>2 DEF Uncounted, Inside, RunLabels
<1>5. VmTypeOK' /\ HasVcpu'
  BY <1>1, <1>2, <1>3, <1>4 DEF VmInv, VmTypeOK, HasVcpu
<1>6. ActiveHasRunner' /\ ExitsCounted'
  BY <1>1, <1>4 DEF VmInv, ActiveHasRunner, ExitsCounted, Uncounted
<1>7. RunningHasRunner'
  BY <1>3 DEF RunningHasRunner, Inside
<1> QED
  BY <1>5, <1>6, <1>7 DEF VmInv

\* The exit is counted once.
LEMMA CountKeepsInv ==
  ASSUME VmInv, NEW t \in Threads, CountExit(t)
  PROVE  VmInv'
<1>1. /\ pc[t] = "count_exit" /\ pc' = [pc EXCEPT ![t] = "run_ends"] /\ exit_count' = exit_count + 1
      /\ UNCHANGED <<vm_state, vcpus, vcpu_running, regions, jail_active, begun>>
  BY DEF CountExit, Go
<1>2. /\ pc' \in [Threads -> RunLabels \cup {"idle"}] /\ pc'[t] = "run_ends"
      /\ \A u \in Threads : u # t => pc'[u] = pc[u]
  BY <1>1, GoFacts DEF VmInv, RunLabels
<1>3. Inside(RunLabels)' = Inside(RunLabels) /\ Inside({"vcpu_off"})' = Inside({"vcpu_off"})
  BY <1>1, <1>2 DEF Inside, RunLabels
<1>4. VmTypeOK' /\ HasVcpu'
  BY <1>1, <1>2, <1>3 DEF VmInv, VmTypeOK, HasVcpu
<1>5. ActiveHasRunner' /\ RunningHasRunner'
  BY <1>1, <1>3 DEF VmInv, ActiveHasRunner, RunningHasRunner
<1>6. ExitsCounted'
  <2>1. Uncounted' = Uncounted \ {t} /\ t \in Uncounted
    BY <1>1, <1>2 DEF Uncounted, Inside, RunLabels
  <2>2. Cardinality(Uncounted') = Cardinality(Uncounted) - 1 /\ Cardinality(Uncounted) \in Nat
    BY <2>1, InsideFinite, FS_RemoveElement DEF Uncounted
  <2> QED
    BY <1>1, <2>2 DEF VmInv, VmTypeOK, ExitsCounted, Uncounted
<1> QED
  BY <1>4, <1>5, <1>6 DEF VmInv

\* The last block of a run stops the VM, so that it needs no runner.
LEMMA RunEndsKeepsInv ==
  ASSUME VmInv, NEW t \in Threads, RunEnds(t)
  PROVE  VmInv'
<1>1. /\ pc[t] = "run_ends" /\ pc' = [pc EXCEPT ![t] = "idle"] /\ vm_state' = "Stopped"
      /\ UNCHANGED <<vcpus, vcpu_running, regions, exit_count, jail_active, begun>>
  BY DEF RunEnds, Return, Go
<1>2. /\ pc' \in [Threads -> RunLabels \cup {"idle"}] /\ pc'[t] = "idle"
      /\ \A u \in Threads : u # t => pc'[u] = pc[u]
  BY <1>1, GoFacts DEF VmInv
<1>3. VmTypeOK'
  BY <1>1, <1>2 DEF VmInv, VmTypeOK
<1>4. Inside({"vcpu_off"})' = Inside({"vcpu_off"}) /\ Uncounted' = Uncounted
  BY <1>1, <1>2 DEF Uncounted, Inside, RunLabels
<1>5. ActiveHasRunner' /\ RunningHasRunner' /\ ExitsCounted'
  BY <1>1, <1>4 DEF VmInv, ActiveHasRunner, RunningHasRunner, ExitsCounted, Uncounted, is_active
<1>6. HasVcpu'
  BY <1>1 DEF VmInv, HasVcpu, Inside, RunLabels
<1> QED
  BY <1>3, <1>5, <1>6 DEF VmInv

\* Every step keeps the invariant.
LEMMA NextKeepsInv ==
  ASSUME VmInv, [VmNext]_allVmVars
  PROVE  VmInv'
<1>1. CASE UNCHANGED allVmVars
  BY <1>1 DEF allVmVars, callVars, vmVars, VmInv, VmTypeOK, HasVcpu, ActiveHasRunner,
              RunningHasRunner, ExitsCounted, Inside
<1>2. ASSUME NEW t \in Threads, VmCall(t) PROVE VmInv'
  BY <1>2, CallsKeepInv, RunStartsKeepsInv DEF VmCall
<1>3. ASSUME NEW t \in Threads, VmStep(t) PROVE VmInv'
  BY <1>3, VcpuKeepsInv, CountKeepsInv, RunEndsKeepsInv DEF VmStep
<1> QED
  BY <1>1, <1>2, <1>3 DEF VmNext

-----------------------------------------------------------------------------
\* The MicroVM is well typed: vCPUs and memory regions keep to their limits.
THEOREM VmTypeCorrect == VmSpec => []VmTypeOK
  BY InitInv, NextKeepsInv, PTL DEF VmSpec, allVmVars, VmInv

\* Whatever is_active calls active has a run on its way that will stop it.
THEOREM VmActiveHasRunner == VmSpec => []ActiveHasRunner
  BY InitInv, NextKeepsInv, PTL DEF VmSpec, allVmVars, VmInv

\* The flag of a vCPU is set only inside a run.
THEOREM VmRunningHasRunner == VmSpec => []RunningHasRunner
  BY InitInv, NextKeepsInv, PTL DEF VmSpec, allVmVars, VmInv

\* Exits are counted exactly, however runs overlap.
THEOREM VmExitsCounted == VmSpec => []ExitsCounted
  BY InitInv, NextKeepsInv, PTL DEF VmSpec, allVmVars, VmInv

\* No call, and no run that was on its way, takes a stopped VM up again.
THEOREM VmStoppedIsFinal == VmSpec => StoppedIsFinal
<1>1. ASSUME [VmNext]_allVmVars PROVE [vm_state = "Stopped" => vm_state' = "Stopped"]_vm_state
  <2> SUFFICES ASSUME vm_state = "Stopped" PROVE vm_state' = "Stopped"
    OBVIOUS
  <2>1. CASE UNCHANGED allVmVars
    BY <2>1 DEF allVmVars, vmVars
  <2>2. ASSUME NEW t \in Threads, VmCall(t) PROVE vm_state' = "Stopped"
    BY <2>2 DEF VmCall, VmCreate, AddMemoryRegion, RunStarts, can_start, Pause, Resume, VmStop, Switch, Jail
  <2>3. ASSUME NEW t \in Threads, VmStep(t) PROVE vm_state' = "Stopped"
    BY <2>3 DEF VmStep, VcpuOn, VcpuOff, CountExit, RunEnds
  <2> QED
    BY <1>1, <2>1, <2>2, <2>3 DEF VmNext
<1> QED
  BY <1>1, PTL DEF VmSpec, allVmVars, StoppedIsFinal
===============================================================================
