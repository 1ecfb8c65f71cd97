----------------------------- MODULE VirtioVsock -----------------------------
(***************************************************************************)
(* The vsock device of src/virtio.rs: its queues, the connections it       *)
(* keeps, one connection a program owns, and the addresses and packet      *)
(* headers.  connect asks for the device's flag before it takes the lock   *)
(* on the connections, so that a step of another thread may come between.  *)
(***************************************************************************)
EXTENDS VirtQueue, KernelTypes

CONSTANTS
    Remotes,      \* the remote addresses a program connects to
    TxData        \* the pieces of data it queues

VARIABLES
    connections,    \* the remotes the device has a connection to
    target,         \* the remote of each thread's connect
    tx_buffer,      \* of the connection the program owns
    fwd_cnt,
    acked           \* history: the bytes acknowledged

vsockVars == <<connections, target, tx_buffer, fwd_cnt, acked>>

VsockQueues == <<"rx_queue", "tx_queue", "event_queue">>

VsockInit ==
    /\ connections = {}
    /\ target = [t \in Threads |-> <<>>]
    /\ tx_buffer = <<>> /\ fwd_cnt = 0 /\ acked = 0

VsockNew(t) ==
    /\ CallOnce(t)
    /\ NewQueues(Range(VsockQueues))
    /\ UNCHANGED vsockVars

\* connect: DeviceNotReady, or on to the lock.
Connect(t, remote) ==
    /\ Queues # {}
    /\ IF ready["device"]
       THEN Begin(t, "insert") /\ target' = [target EXCEPT ![t] = <<remote>>]
       ELSE CallOnce(t) /\ UNCHANGED target
    /\ UNCHANGED <<connections, tx_buffer, fwd_cnt, acked, queueVars>>

\* The new connection replaces the one to the same remote, if there is one.
ConnectInsert(t) ==
    /\ pc[t] = "insert"
    /\ connections' = connections \cup {target[t][1]}
    /\ target' = [target EXCEPT ![t] = <<>>]
    /\ Return(t)
    /\ UNCHANGED <<tx_buffer, fwd_cnt, acked, queueVars>>

\* VsockConnection::queue_tx and acknowledge, on a connection of the program's own.
QueueTx(t, data) ==
    /\ Exclusive /\ CallOnce(t)
    /\ tx_buffer' = tx_buffer \o data
    /\ UNCHANGED <<connections, target, fwd_cnt, acked, queueVars>>

\* Fault: the sum wraps.
AcknowledgeWraps(t, bytes) ==
    /\ Exclusive /\ CallOnce(t)
    /\ fwd_cnt' = (fwd_cnt + bytes) % U32
    /\ acked' = acked + bytes
    /\ UNCHANGED <<connections, target, tx_buffer, queueVars>>

Acknowledge(t, bytes) ==
    /\ Exclusive /\ CallOnce(t)
    /\ fwd_cnt' = IF fwd_cnt + bytes >= U32 THEN U32 - 1 ELSE fwd_cnt + bytes
    /\ acked' = acked + bytes
    /\ UNCHANGED <<connections, target, tx_buffer, queueVars>>

VsockCall(t) ==
    \/ VsockNew(t)
    \/ Activate(t, VsockQueues) /\ UNCHANGED vsockVars
    \/ Deactivate(t, VsockQueues) /\ UNCHANGED vsockVars
    \/ \E r \in Remotes : Connect(t, r)
    \/ \E data \in TxData : QueueTx(t, data)
    \/ \E bytes \in {1, U32 - 1} : Acknowledge(t, bytes)

VsockStep(t) ==
    \/ ConnectInsert(t)
    \/ StoreReady(t) /\ UNCHANGED vsockVars
------------------------------------------------------------------------------
(* Addresses and packet headers *)

HOST_CID == 2

host_addr(port) == [cid |-> HOST_CID, port |-> port]

is_host(a) == a.cid = HOST_CID

\* VsockPacketType, by its number.
PacketTypes == <<"Request", "Response", "Rst", "Shutdown", "Rw", "CreditUpdate", "CreditRequest">>

packet_code(ty) == IF ty = "Invalid" THEN 0 ELSE CHOOSE n \in DOMAIN PacketTypes : PacketTypes[n] = ty

packet_type(n) == IF n \in DOMAIN PacketTypes THEN PacketTypes[n] ELSE "Invalid"

packet_header(src, dst, ty) ==
    [src_cid |-> src.cid, dst_cid |-> dst.cid, src_port |-> src.port, dst_port |-> dst.port,
     len |-> 0, packet_type |-> packet_code(ty), op |-> 0, flags |-> 0, buf_alloc |-> 0, fwd_cnt |-> 0]

get_type(h) == packet_type(h.packet_type)
header_src(h) == [cid |-> h.src_cid, port |-> h.src_port]
header_dst(h) == [cid |-> h.dst_cid, port |-> h.dst_port]
------------------------------------------------------------------------------
(* Properties *)

\* The forward count is the number of bytes acknowledged, up to the largest u32:
\* it never goes back.
ForwardCountExact == fwd_cnt = IF acked >= U32 THEN U32 - 1 ELSE acked

\* A header gives back the addresses and the type it was made from.
HeaderUnpacks(src, dst, ty) ==
    LET h == packet_header(src, dst, ty) IN
    /\ get_type(h) = ty /\ header_src(h) = src /\ header_dst(h) = dst
    /\ is_host(header_src(h)) <=> src = host_addr(src.port)

==============================================================================
