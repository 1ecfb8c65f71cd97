----------------------------- MODULE VirtioBlock -----------------------------
(***************************************************************************)
(* The block device of src/virtio.rs: a vector of bytes behind a           *)
(* reader-writer lock, read and written by several threads while its       *)
(* controller activates and deactivates it.  The copies under the lock go  *)
(* byte by byte.  A sector has SECTOR_SIZE bytes.                          *)
(***************************************************************************)
EXTENDS VirtQueue, KernelTypes

CONSTANTS
    BlockConfigs,    \* the configurations: [capacity, read_only]
    BlockData,       \* what is written, and the lengths that are read
    Sectors          \* the sectors asked for

ASSUME BlockAssumption ==
    /\ BlockConfigs \subseteq [capacity : Nat, read_only : BOOLEAN]
    /\ \A c \in BlockConfigs : c.capacity * SECTOR_SIZE < U64

VARIABLES
    blk,          \* the configuration of the device, once it exists
    storage,
    readers,      \* the threads that hold the storage's lock for reading
    writer,       \* those that hold it for writing
    reads,
    writes,
    bcall,        \* the call of each thread: sector, data or buffer, bytes copied so far
    committed     \* history: the storage as the last finished write left it

blockVars == <<blk, storage, readers, writer, reads, writes, bcall, committed>>

BlockQueues == <<"queue">>

NoTransfer == [sector |-> 0, data |-> <<>>, at |-> 0]

BlockInit ==
    /\ blk = [capacity |-> 0, read_only |-> FALSE]
    /\ storage = <<>> /\ committed = <<>>
    /\ readers = {} /\ writer = {}
    /\ reads = 0 /\ writes = 0
    /\ bcall = [t \in Threads |-> NoTransfer]

BlockNew(t, config) ==
    /\ CallOnce(t)
    /\ NewQueues(Range(BlockQueues))
    /\ blk' = config
    /\ storage' = [i \in 1 .. config.capacity * SECTOR_SIZE |-> 0]
    /\ committed' = storage'
    /\ UNCHANGED <<readers, writer, reads, writes, bcall>>

offset(sector) == (sector * SECTOR_SIZE) % U64

InStorage(call) == (offset(call.sector) + Len(call.data)) % U64 <= Len(storage)

\* The bytes of a call in the storage, as far as it has copied.
Slice(of, call) == SubSeq(of, offset(call.sector) + 1, offset(call.sector) + call.at)
------------------------------------------------------------------------------
(* read *)

BlockRead(t, sector, len) ==
    /\ Queues # {}
    /\ IF ready["device"]
       THEN /\ Begin(t, "read_lock")
            /\ bcall' = [bcall EXCEPT ![t] = [sector |-> sector, data |-> [i \in 1 .. len |-> 0], at |-> 0]]
       ELSE CallOnce(t) /\ UNCHANGED bcall
    /\ UNCHANGED <<blk, storage, readers, writer, reads, writes, committed, queueVars>>

Done(t) == bcall' = [bcall EXCEPT ![t] = NoTransfer] /\ Return(t)

\* Fault: no lock for a read.
ReadLockFree(t) ==
    /\ pc[t] = "read_lock"
    /\ IF InStorage(bcall[t])
       THEN readers' = readers \cup {t} /\ Go(t, "copy_out") /\ UNCHANGED bcall
       ELSE Done(t) /\ UNCHANGED readers
    /\ UNCHANGED <<blk, storage, writer, reads, writes, committed, queueVars>>

\* The lock, then InvalidArgument or on to the copy.
ReadLock(t) ==
    /\ pc[t] = "read_lock" /\ writer = {}
    /\ IF InStorage(bcall[t])
       THEN readers' = readers \cup {t} /\ Go(t, "copy_out") /\ UNCHANGED bcall
       ELSE Done(t) /\ UNCHANGED readers
    /\ UNCHANGED <<blk, storage, writer, reads, writes, committed, queueVars>>

CopyOut(t) ==
    LET c == bcall[t] IN
    /\ pc[t] = "copy_out" /\ c.at < Len(c.data)
    /\ bcall' = [bcall EXCEPT ![t].data[c.at + 1] = storage[offset(c.sector) + c.at + 1],
                              ![t].at = c.at + 1]
    /\ UNCHANGED <<blk, storage, readers, writer, reads, writes, committed, queueVars, callVars>>

ReadDone(t) ==
    /\ pc[t] = "copy_out" /\ bcall[t].at = Len(bcall[t].data)
    /\ reads' = reads + 1
    /\ readers' = readers \ {t}
    /\ Done(t)
    /\ UNCHANGED <<blk, storage, writer, writes, committed, queueVars>>
------------------------------------------------------------------------------
(* write *)

\* DeviceNotReady, NotSupported on a read-only device, or on to the lock.
BlockWrite(t, sector, data) ==
    /\ Queues # {}
    /\ IF ready["device"] /\ ~blk.read_only
       THEN /\ Begin(t, "write_lock_storage")
            /\ bcall' = [bcall EXCEPT ![t] = [sector |-> sector, data |-> data, at |-> 0]]
       ELSE CallOnce(t) /\ UNCHANGED bcall
    /\ UNCHANGED <<blk, storage, readers, writer, reads, writes, committed, queueVars>>

WriteLockStorage(t) ==
    /\ pc[t] = "write_lock_storage" /\ writer = {} /\ readers = {}
    /\ IF InStorage(bcall[t])
       THEN writer' = {t} /\ Go(t, "copy_in") /\ UNCHANGED bcall
       ELSE Done(t) /\ UNCHANGED writer
    /\ UNCHANGED <<blk, storage, readers, reads, writes, committed, queueVars>>

CopyIn(t) ==
    LET c == bcall[t] IN
    /\ pc[t] = "copy_in" /\ c.at < Len(c.data)
    /\ storage' = [storage EXCEPT ![offset(c.sector) + c.at + 1] = c.data[c.at + 1]]
    /\ bcall' = [bcall EXCEPT ![t].at = c.at + 1]
    /\ UNCHANGED <<blk, readers, writer, reads, writes, committed, queueVars, callVars>>

\* Fault: the lock is not released.
WriteDoneKeepsLock(t) ==
    /\ pc[t] = "copy_in" /\ bcall[t].at = Len(bcall[t].data)
    /\ writes' = writes + 1
    /\ committed' = storage
    /\ Done(t)
    /\ UNCHANGED <<blk, storage, readers, writer, reads, queueVars>>

WriteDone(t) ==
    /\ pc[t] = "copy_in" /\ bcall[t].at = Len(bcall[t].data)
    /\ writes' = writes + 1
    /\ writer' = {}
    /\ committed' = storage
    /\ Done(t)
    /\ UNCHANGED <<blk, storage, readers, reads, queueVars>>

\* flush only asks for the device's flag.
Flush(t) == Queues # {} /\ CallOnce(t) /\ UNCHANGED <<blockVars, queueVars>>

BlockCall(t) ==
    \/ \E c \in BlockConfigs : BlockNew(t, c)
    \/ Activate(t, BlockQueues) /\ UNCHANGED blockVars
    \/ Deactivate(t, BlockQueues) /\ UNCHANGED blockVars
    \/ \E s \in Sectors, data \in BlockData : BlockRead(t, s, Len(data)) \/ BlockWrite(t, s, data)
    \/ Flush(t)

BlockStep(t) ==
    \/ ReadLock(t) \/ CopyOut(t) \/ ReadDone(t)
    \/ WriteLockStorage(t) \/ CopyIn(t) \/ WriteDone(t)
    \/ StoreReady(t) /\ UNCHANGED blockVars
------------------------------------------------------------------------------
(* Request headers *)

RequestCodes == [In |-> 0, Out |-> 1, Flush |-> 4, Discard |-> 11, WriteZeroes |-> 13]

\* From<u32>: a number that is no request is taken for a read.
request_type(n) ==
    IF \E ty \in DOMAIN RequestCodes : RequestCodes[ty] = n
    THEN CHOOSE ty \in DOMAIN RequestCodes : RequestCodes[ty] = n
    ELSE "In"

request_header(ty, sector) == [request_type |-> RequestCodes[ty], reserved |-> 0, sector |-> sector]
------------------------------------------------------------------------------
(* Properties *)

\* No read sees half a write, and none reads bytes of another sector: what a
\* read has copied is, to the byte, the storage as the last finished write left
\* it, however reads, writes and the controller's stores interleave.
BlockReadsIntact ==
    /\ \A t \in Inside({"copy_out"}) :
          SubSeq(bcall[t].data, 1, bcall[t].at) = Slice(committed, bcall[t])
    /\ writer = {} => storage = committed

\* Bytes a write does not name stay as they are, and the storage keeps its length.
WritesStayInside ==
    \A t \in Inside({"copy_in"}) :
        \A i \in DOMAIN storage :
            i \notin offset(bcall[t].sector) + 1 .. offset(bcall[t].sector) + bcall[t].at
                => storage[i] = committed[i]

\* A header names the request it was made for.
BlockHeaderUnpacks(ty, sector) ==
    LET h == request_header(ty, sector) IN request_type(h.request_type) = ty /\ h.sector = sector

\* A read-only device is never written.
ReadOnlyKept == blk.read_only => writes = 0 /\ writer = {}

==============================================================================
