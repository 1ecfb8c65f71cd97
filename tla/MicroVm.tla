------------------------------- MODULE MicroVm -------------------------------
(***************************************************************************)
(* The MicroVM of src/vmm.rs: creation from a configuration, run, pause,   *)
(* resume and stop on the state behind its lock, the flag of the first     *)
(* vCPU, which is the one run drives, the memory slots and the jailer.     *)
(* Every method takes the state's lock for one comparison and one          *)
(* assignment, so that each such block is a step.                          *)
(***************************************************************************)
EXTENDS Calls, FiniteSets

CONSTANTS
    MAX_VCPUS,           \* 254
    MAX_MEMORY_SLOTS,    \* 32
    VmSettings           \* what a program sets with the builder before it creates a VM

ASSUME VmAssumption ==
    /\ IsFiniteSet(Threads)
    /\ MAX_MEMORY_SLOTS \in Nat
    /\ MAX_VCPUS \in Nat
    /\ \A s \in VmSettings : \A field \in DOMAIN s : s[field] \in Nat

VARIABLES
    vm_state,
    vcpus,           \* the number of vCPUs, 0 before the VM exists
    vcpu_running,    \* running of the first vCPU
    regions,         \* the number of memory regions
    exit_count,
    jail_active,
    begun            \* history: the calls of run that started the VM

vmVars == <<vm_state, vcpus, vcpu_running, regions, exit_count, jail_active, begun>>

VmInit ==
    /\ vm_state = "Absent"
    /\ vcpus = 0
    /\ vcpu_running = FALSE
    /\ regions = 0
    /\ exit_count = 0
    /\ jail_active = FALSE
    /\ begun = 0

can_start(s) == s \in {"Created", "Paused"}
is_active(s) == s \in {"Running", "Paused"}

DefaultVmConfig == [vcpus |-> 1, memory_mb |-> 128]

\* VmConfigBuilder: a field that is not set keeps its default.
VmConfig(settings) ==
    [field \in DOMAIN DefaultVmConfig |->
        IF field \in DOMAIN settings THEN settings[field] ELSE DefaultVmConfig[field]]

validate(c) == c.vcpus # 0 /\ c.vcpus <= MAX_VCPUS /\ c.memory_mb # 0

\* MicroVm::create, which validates what VmConfigBuilder::build has validated.
VmCreate(t, c) ==
    /\ vm_state = "Absent"
    /\ CallOnce(t)
    /\ vm_state' = IF validate(c) THEN "Created" ELSE "Absent"
    /\ vcpus' = IF validate(c) THEN c.vcpus ELSE 0
    /\ UNCHANGED <<vcpu_running, regions, exit_count, jail_active, begun>>

\* add_memory_region: OutOfMemory when every slot is taken.
AddMemoryRegion(t) ==
    /\ vm_state # "Absent" /\ Exclusive
    /\ CallOnce(t)
    /\ regions' = IF regions >= MAX_MEMORY_SLOTS THEN regions ELSE regions + 1
    /\ UNCHANGED <<vm_state, vcpus, vcpu_running, exit_count, jail_active, begun>>

------------------------------------------------------------------------------
(* run *)

\* Fault: whatever is not running may be started.
RunStartsStopped(t) ==
    /\ vm_state # "Absent"
    /\ \/ /\ vm_state # "Running"
          /\ Begin(t, "vcpu_on")
          /\ vm_state' = "Running"
          /\ begun' = begun + 1
       \/ /\ vm_state = "Running"
          /\ CallOnce(t)
          /\ UNCHANGED <<vm_state, begun>>
    /\ UNCHANGED <<vcpus, vcpu_running, regions, exit_count, jail_active>>

\* The first block: InvalidRequest, or the VM is running.
RunStarts(t) ==
    /\ vm_state # "Absent"
    /\ \/ /\ can_start(vm_state)
          /\ Begin(t, "vcpu_on")
          /\ vm_state' = "Running"
          /\ begun' = begun + 1
       \/ /\ ~can_start(vm_state)
          /\ CallOnce(t)
          /\ UNCHANGED <<vm_state, begun>>
    /\ UNCHANGED <<vcpus, vcpu_running, regions, exit_count, jail_active>>

\* Vcpu::run of vcpus.first().
VcpuOn(t) ==
    /\ pc[t] = "vcpu_on"
    /\ vcpu_running' = (vcpus > 0)
    /\ Go(t, "vcpu_off")
    /\ UNCHANGED <<vm_state, vcpus, regions, exit_count, jail_active, begun>>

VcpuOff(t) ==
    /\ pc[t] = "vcpu_off"
    /\ vcpu_running' = FALSE
    /\ Go(t, "count_exit")
    /\ UNCHANGED <<vm_state, vcpus, regions, exit_count, jail_active, begun>>

CountExit(t) ==
    /\ pc[t] = "count_exit"
    /\ exit_count' = exit_count + 1
    /\ Go(t, "run_ends")
    /\ UNCHANGED <<vm_state, vcpus, vcpu_running, regions, jail_active, begun>>

\* Fault: a VM that was paused meanwhile stays paused.
RunEndsIfRunning(t) ==
    /\ pc[t] = "run_ends"
    /\ vm_state' = IF vm_state = "Running" THEN "Stopped" ELSE vm_state
    /\ Return(t)
    /\ UNCHANGED <<vcpus, vcpu_running, regions, exit_count, jail_active, begun>>

\* The last block does not look at the state it replaces.
RunEnds(t) ==
    /\ pc[t] = "run_ends"
    /\ vm_state' = "Stopped"
    /\ Return(t)
    /\ UNCHANGED <<vcpus, vcpu_running, regions, exit_count, jail_active, begun>>

------------------------------------------------------------------------------
\* pause, resume and stop: from one of the states to another, or InvalidRequest.
Switch(t, from, to) ==
    /\ vm_state # "Absent"
    /\ CallOnce(t)
    /\ vm_state' = IF vm_state \in from THEN to ELSE vm_state
    /\ UNCHANGED <<vcpus, vcpu_running, regions, exit_count, jail_active, begun>>

Pause(t) == Switch(t, {"Running"}, "Paused")

\* Fault: whatever is not running is resumed.
ResumeAny(t) == Switch(t, {"Created", "Paused", "Stopped"}, "Running")

Resume(t) == Switch(t, {"Paused"}, "Running")
VmStop(t) == Switch(t, {"Created", "Running", "Paused", "Stopped"}, "Stopped")

\* Jailer::enter and exit.
Jail(t, active) ==
    /\ CallOnce(t)
    /\ jail_active' = active
    /\ UNCHANGED <<vm_state, vcpus, vcpu_running, regions, exit_count, begun>>

VmCall(t) ==
    \/ \E settings \in VmSettings : VmCreate(t, VmConfig(settings))
    \/ AddMemoryRegion(t) \/ RunStarts(t)
    \/ Pause(t) \/ Resume(t) \/ VmStop(t)
    \/ \E active \in BOOLEAN : Jail(t, active)

VmStep(t) == VcpuOn(t) \/ VcpuOff(t) \/ CountExit(t) \/ RunEnds(t)

VmNext == \E t \in Threads : VmCall(t) \/ VmStep(t)

VmSpec == (\E calls \in Nat : CallsInit(calls)) /\ VmInit /\ [][VmNext]_<<callVars, vmVars>>

------------------------------------------------------------------------------
(* Properties *)

RunLabels == {"vcpu_on", "vcpu_off", "count_exit", "run_ends"}

\* Every variable of the MicroVM holds a value of its Rust type, and the
\* memory regions never outgrow the slots.
VmTypeOK ==
    /\ vm_state \in {"Absent", "Created", "Running", "Paused", "Stopped"}
    /\ vcpus \in 0 .. MAX_VCPUS
    /\ vcpu_running \in BOOLEAN
    /\ regions \in 0 .. MAX_MEMORY_SLOTS
    /\ exit_count \in Nat
    /\ jail_active \in BOOLEAN
    /\ begun \in Nat
    /\ pc \in [Threads -> RunLabels \cup {"idle"}]

\* is_active tells the truth: a VM that is running or paused has a run in
\* progress that will stop it, whatever pauses, resumes, stops and further runs
\* of other threads come between the two blocks of run; and it has a vCPU.
ActiveHasRunner ==
    is_active(vm_state) => Inside(RunLabels) # {} /\ vcpus > 0

\* The vCPU's flag is set only while a run is between its two stores.
RunningHasRunner == vcpu_running => Inside({"vcpu_off"}) # {}

\* Exits are counted exactly: one for each run that started the VM and has got
\* past its vCPU, however runs overlap.
ExitsCounted ==
    exit_count + Cardinality(Inside(RunLabels \ {"run_ends"})) = begun

\* A VM that has stopped is never started, paused or resumed again: neither by a
\* call nor by a run that was on its way when stop was called.
StoppedIsFinal == [][vm_state = "Stopped" => vm_state' = "Stopped"]_vm_state

==============================================================================
