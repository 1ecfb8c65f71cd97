------------------------------ MODULE MCPlatform ------------------------------
(***************************************************************************)
(* The devices and data types beside the scheduler, pool, executor and     *)
(* failure handling, for TLC.  None of them calls another, so a behaviour  *)
(* is about one of them, which part names: its threads call the methods of *)
(* that object and the others stay as they were made.  The pure parts,     *)
(* which have no state, are checked on the inputs that probe takes.        *)
(***************************************************************************)
EXTENDS MicroVm, Zram, VirtioVsock, VirtioBlock, Gpu, TaskRouting, Retry, BlockTypes, Layouts, Wire, Kernels

CONSTANT MaxCalls    \* bound on the calls of a behaviour, for each part

VARIABLES part, probe

allVars == <<callVars, vmVars, zramVars, queueVars, vsockVars, blockVars, gpuVars, routeVars,
             retryVars, part, probe>>

\* Two threads; what is small here is what makes the limits reachable.
MCVmSettings == {<<>>, [vcpus |-> MAX_VCPUS + 1], [vcpus |-> 2, memory_mb |-> 0], [vcpus |-> 0]}

\* Pages of eight bytes: zero, filled, compressible, incompressible with equal ends, short.
MCPageData ==
    {[i \in 1 .. 8 |-> 0], [i \in 1 .. 8 |-> 1], [i \in 1 .. 8 |-> IF i < 5 THEN 1 ELSE 0],
     [i \in 1 .. 9 |-> IF i \in {1, 8} THEN 1 ELSE 2], [i \in 1 .. 7 |-> 0]}
MCCompressedLen(data) == IF data[8] = 0 THEN 6 ELSE 7

MCMaxCalls == [vm |-> 8, zram |-> 3, queue |-> 6, vsock |-> 5, block |-> 6, gpu |-> 4, route |-> 5,
               retry |-> 0, pure |-> 0]
MCRemotes == {[cid |-> 2, port |-> 1]}
MCTxData == {<<1>>}
MCBlockConfigs == {[capacity |-> 1, read_only |-> FALSE], [capacity |-> 1, read_only |-> TRUE]}
MCBlockData == {<<1, 2>>, <<3>>}
MCGpuLimits == [max_buffer_size |-> 2, max_compute_workgroups_per_dimension |-> 3]
MCGpuUsages == {{"COPY_SRC"}, {"COPY_DST"}, {"MAP_WRITE", "COPY_DST"}}
MCGpuData == {<<1, 1>>, <<1>>, <<1, 1, 1>>}
MCWorkgroups == {<<1, 3, 1>>, <<1, 1, 4>>}
MCRetryPolicies ==
    {[max_retries |-> r, initial_delay |-> d, max_delay |-> m, backoff_factor |-> f] :
        r \in {0, 3, 7}, d \in {1, 3}, m \in {5, 12}, f \in {1, 2, 3}}
------------------------------------------------------------------------------
(* The inputs of the pure parts *)

Text(n) == [i \in 1 .. n |-> 1]

Names == {Text(n) : n \in {0, 1, Width16 - 1, Width16, Width16 + 1}}

Payloads ==
    ({"Heartbeat"} \X {heartbeat(1, BYTE ^ 5, 3, load, BYTE - 1) : load \in {0, BYTE - 1}})
    \cup ({"TaskResult"} \X
           [task_id : {BYTE ^ 7}, state : Range(TaskStates), duration_ms : {0},
            exit_code : {None, Some(0), Some(-1)}, error : {None, Some(<<>>), Some(<<1, 2>>)}])
    \cup ({"Register"} \X
           [worker_id : {7}, backend : Range(Backends), num_workers : {Width16 - 1}, name : Names])
    \cup {<<"TaskCancel", 5>>, <<"Error", <<1>>>>, <<"Error", <<>>>>, <<"Shutdown", <<>>>>, <<"Ack", <<>>>>}

AllCaps == {caps \in SUBSET (X86Features \cup {"neon"}) : Detectable(caps)}

RequestOf(op, sector) ==
    set_bio_vec(set_sector_range(request(9, 1, RequestOps[op + 1]), sector, U32 - 1), bio_vec(U64 - 1, 1, 3))

Probes ==
    ({"address"} \X Addresses)
    \cup ({"dma"} \X [phys : Addresses, virt : {0, 1}, size : {0, 1, PAGE_SIZE, PAGE_SIZE + 1}])
    \cup ({"request"} \X (0 .. Len(RequestOps) - 1) \X {0, 31, 32, 33} \X (0 .. 3) \X {0, 7, -5})
    \cup ({"tags"} \X [nr_hw_queues : 0 .. BLK_MQ_MAX_HW_QUEUES + 1, queue_depth : 0 .. BLK_MQ_MAX_DEPTH + 1])
    \cup UNION {{"flags"} \X {bits} \X SUBSET DOMAIN bits :
                  bits \in {AllocFlags, Protection, RequestFlags, SqeFlags, CqeFlags, UblkFeatures, VirtqDescFlags}}
    \cup ({"flags"} \X {BufferUsageBits} \X SUBSET DOMAIN BufferUsageBits)
    \cup ({"block header"} \X DOMAIN RequestCodes)
    \cup ({"error"} \X KernelErrors)
    \cup {<<"wire", p[1], p[2], rest>> : p \in Payloads, rest \in {<<>>, <<0, 0>>}}
    \cup ({"header"} \X (Range(PacketTypes) \cup {"Invalid"}))
    \cup ({"vector"} \X AllCaps \X {0, 1, 3, 4, 7, 8, 9, 15, 16, 17, 25})
    \cup {<<"layouts">>}
    \cup ({"matrix"} \X (1 .. 5) \X (1 .. 5) \X (1 .. 5))

\* The pure parts agree with what they stand for: addresses, page frames and
\* buffers (memory.rs), descriptors and layouts (ublk.rs, blk_mq.rs, io_uring.rs), errno
\* codes (error.rs), messages (transport.rs), headers (virtio.rs), kernels (simd.rs).
PureParts ==
    part = "pure" =>
        CASE probe[1] = "address" -> AddressArithmetic(probe[2])
          [] probe[1] = "dma" -> PageCountCovers(probe[2])
          [] probe[1] = "request" -> RequestServed(RequestOf(probe[2], probe[3]), probe[2], probe[4], probe[5])
          [] probe[1] = "tags" -> TagsCounted(probe[2])
          [] probe[1] = "flags" -> FlagsIndependent(probe[2], probe[3])
          [] probe[1] = "block header" -> BlockHeaderUnpacks(probe[2], 5)
          [] probe[1] = "error" -> ErrorSurvives(probe[2])
          [] probe[1] = "wire" -> WireRoundTrips(probe[2], probe[3], probe[4])
          [] probe[1] = "layouts" -> LayoutsMatch
          [] probe[1] = "header" -> HeaderUnpacks(host_addr(1), [cid |-> 3, port |-> 0], probe[2])
          [] probe[1] = "vector" -> VectorKernels(probe[2], probe[3])
          [] probe[1] = "matrix" -> MatrixKernels(probe[2], probe[3], probe[4])
------------------------------------------------------------------------------
Init ==
    /\ VmInit /\ ZramInit /\ QueueInit /\ VsockInit /\ BlockInit /\ GpuInit
    /\ RouteInit /\ RetryInit
    /\ \/ part \in {"vm", "zram", "queue", "vsock", "block", "gpu", "route", "retry"} /\ probe = <<>>
       \/ part = "pure" /\ probe \in Probes
    /\ CallsInit(MaxCalls[part])

\* Everything but the variables of one part.
OthersVm == UNCHANGED <<zramVars, queueVars, vsockVars, blockVars, gpuVars, routeVars, retryVars, part, probe>>
OthersZram == UNCHANGED <<vmVars, queueVars, vsockVars, blockVars, gpuVars, routeVars, retryVars, part, probe>>
OthersQueue == UNCHANGED <<vmVars, zramVars, vsockVars, blockVars, gpuVars, routeVars, retryVars, part, probe>>
OthersVsock == UNCHANGED <<vmVars, zramVars, blockVars, gpuVars, routeVars, retryVars, part, probe>>
OthersBlock == UNCHANGED <<vmVars, zramVars, vsockVars, gpuVars, routeVars, retryVars, part, probe>>
OthersGpu == UNCHANGED <<vmVars, zramVars, queueVars, vsockVars, blockVars, routeVars, retryVars, part, probe>>
OthersRoute == UNCHANGED <<vmVars, zramVars, queueVars, vsockVars, blockVars, gpuVars, retryVars, part, probe>>
OthersRetry ==
    UNCHANGED <<callVars, vmVars, zramVars, queueVars, vsockVars, blockVars, gpuVars, routeVars, part, probe>>

\* A thread calls a method.  The queue is one on its own, without a device.
Call(t) ==
    \/ part = "vm" /\ VmCall(t) /\ OthersVm
    \/ part = "zram" /\ ZramCall(t) /\ OthersZram
    \/ part = "queue" /\ CallOnce(t) /\ NewQueues({"queue"}) /\ OthersQueue
    \/ part = "queue" /\ QueueCall(t) /\ OthersQueue
    \/ part = "vsock" /\ VsockCall(t) /\ OthersVsock
    \/ part = "block" /\ BlockCall(t) /\ OthersBlock
    \/ part = "gpu" /\ GpuCall(t) /\ OthersGpu
    \/ part = "route" /\ RouteCall(t) /\ OthersRoute

\* A call goes on.
Continue(t) ==
    /\ pc[t] # "idle"
    /\ \/ part = "vm" /\ VmStep(t) /\ OthersVm
       \/ part = "zram" /\ ZramStep(t) /\ OthersZram
       \/ part = "vsock" /\ VsockStep(t) /\ OthersVsock
       \/ part = "block" /\ BlockStep(t) /\ OthersBlock
       \/ part = "route" /\ RouteStep(t) /\ OthersRoute

Backoff == part = "retry" /\ RetryNext /\ OthersRetry

Next == (\E t \in Threads : Call(t) \/ Continue(t)) \/ Backoff

\* A call that has begun goes on; a waiting caller sees time pass and wakes.
Fairness ==
    /\ \A t \in Threads : WF_allVars(Continue(t))
    /\ WF_allVars(part = "retry" /\ (RetryTick \/ RetryWakes) /\ OthersRetry)

Spec == Init /\ [][Next]_allVars /\ Fairness
------------------------------------------------------------------------------
(* Properties *)

\* What is read is what was stored: from the compressed pages of zram while
\* pages are written, discarded and reset, and from the block device while
\* sectors are written.
ReadsIntact == PageReadsIntact /\ StoredAsWritten /\ ResetClears /\ BlockReadsIntact /\ WritesStayInside

\* Counters and identifiers agree with what they count, with the calls that are
\* under way taken into account: exits of the VM, pages of zram, descriptors of
\* a queue, acknowledged bytes, buffers of the compute device.
CountersAgree == ExitsCounted /\ StatsCoverTable /\ DescriptorsKept /\ ForwardCountExact /\ BuffersKept

\* Flags tell the truth while calls interleave: a ready device has its queues, a
\* read-only one is not written, the stream belongs to a write, a vCPU that runs has
\* a run, and a task goes to an executor that takes it.
FlagsHold == ReadyHasQueues /\ ReadOnlyKept /\ StreamHeldByWrite /\ RunningHasRunner /\ RoutedRight /\ TaskKept

\* Every call returns, and every backoff ends.
CallsReturn ==
    /\ \A t \in Threads : pc[t] # "idle" ~> pc[t] = "idle"
    /\ BackoffEnds
==============================================================================
