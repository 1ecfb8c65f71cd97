------------------------------ MODULE VirtQueue ------------------------------
(***************************************************************************)
(* The queues of a virtio device (src/virtio.rs): the pending descriptors  *)
(* behind their mutex, the used index, and the ready flags of the queues   *)
(* and of the device, which activate and deactivate store one after the    *)
(* other.  The devices, modules VirtioVsock and VirtioBlock, extend this   *)
(* one.                                                                    *)
(***************************************************************************)
EXTENDS Calls, FiniteSetsExt, SequencesExt

CONSTANTS
    Controller,    \* the thread that activates and deactivates the device
    Descriptors    \* the descriptor indices a driver adds

ASSUME QueueAssumption == Controller \in Threads

VARIABLES
    ready,        \* a function from the device's queues, and "device", to BOOLEAN
    stores,       \* the stores to ready that activate or deactivate has still to do
    pending,      \* the pending descriptors of each queue
    used_idx,     \* last_used_idx of each queue
    held,         \* the descriptor each thread has popped and not marked used, as <<queue, index>>
    added         \* history: the number of descriptors added to each queue

queueVars == <<ready, stores, pending, used_idx, held, added>>

Queues == DOMAIN pending

\* The flags of a VirtqDesc and the numbers of their bits.
VirtqDescFlags == [F_NEXT |-> 0, F_WRITE |-> 1, F_INDIRECT |-> 2]

\* No device yet; NewQueues(names) is VirtQueue::new for each of its queues.
QueueInit ==
    /\ ready = [q \in {"device"} |-> FALSE]
    /\ stores = <<>>
    /\ pending = [q \in {} |-> <<>>]
    /\ used_idx = [q \in {} |-> 0]
    /\ held = [t \in Threads |-> <<>>]
    /\ added = [q \in {} |-> 0]

NewQueues(names) ==
    /\ Queues = {}
    /\ ready' = [q \in names \cup {"device"} |-> FALSE]
    /\ pending' = [q \in names |-> <<>>]
    /\ used_idx' = [q \in names |-> 0]
    /\ added' = [q \in names |-> 0]
    /\ UNCHANGED <<stores, held>>

\* activate and deactivate, called by the one thread that controls the device.
\* order is the queues' order in the code.
Activate(t, order) ==
    /\ t = Controller /\ Queues # {}
    /\ Begin(t, "store")
    /\ stores' = [i \in 1 .. Len(order) + 1 |-> <<(order \o <<"device">>)[i], TRUE>>]
    /\ UNCHANGED <<ready, pending, used_idx, held, added>>

\* Fault: the device's flag is cleared last.
DeactivateQueuesFirst(t, order) ==
    /\ t = Controller /\ Queues # {}
    /\ Begin(t, "store")
    /\ stores' = [i \in 1 .. Len(order) + 1 |-> <<(order \o <<"device">>)[i], FALSE>>]
    /\ UNCHANGED <<ready, pending, used_idx, held, added>>

Deactivate(t, order) ==
    /\ t = Controller /\ Queues # {}
    /\ Begin(t, "store")
    /\ stores' = [i \in 1 .. Len(order) + 1 |-> <<(<<"device">> \o order)[i], FALSE>>]
    /\ UNCHANGED <<ready, pending, used_idx, held, added>>

StoreReady(t) ==
    /\ pc[t] = "store"
    /\ ready' = [ready EXCEPT ![Head(stores)[1]] = Head(stores)[2]]
    /\ stores' = Tail(stores)
    /\ Go(t, IF Len(stores) > 1 THEN "store" ELSE "idle")
    /\ UNCHANGED <<pending, used_idx, held, added>>

AddPending(t, q, d) ==
    /\ CallOnce(t)
    /\ pending' = [pending EXCEPT ![q] = Append(@, d)]
    /\ added' = [added EXCEPT ![q] = @ + 1]
    /\ UNCHANGED <<ready, stores, used_idx, held>>

\* Fault: the last descriptor stays in the queue.
PopPendingKeeps(t, q) ==
    /\ held[t] = <<>>
    /\ CallOnce(t)
    /\ held' = IF pending[q] = <<>> THEN held ELSE [held EXCEPT ![t] = <<q, Last(pending[q])>>]
    /\ UNCHANGED <<ready, stores, pending, used_idx, added>>

\* pop_pending takes the descriptor that was added last; None leaves all as it is.
PopPending(t, q) ==
    /\ held[t] = <<>>
    /\ CallOnce(t)
    /\ IF pending[q] = <<>>
       THEN UNCHANGED <<pending, held>>
       ELSE /\ held' = [held EXCEPT ![t] = <<q, Last(pending[q])>>]
            /\ pending' = [pending EXCEPT ![q] = Front(@)]
    /\ UNCHANGED <<ready, stores, used_idx, added>>

\* mark_used, called by the thread that popped the descriptor.
MarkUsed(t) ==
    /\ held[t] # <<>>
    /\ CallOnce(t)
    /\ used_idx' = [used_idx EXCEPT ![held[t][1]] = @ + 1]
    /\ held' = [held EXCEPT ![t] = <<>>]
    /\ UNCHANGED <<ready, stores, pending, added>>

\* notify, and the other methods that only ask whether the device is ready.
Notify(t, q) == CallOnce(t) /\ UNCHANGED queueVars

QueueCall(t) ==
    \/ \E q \in Queues :
          \/ \E d \in Descriptors : AddPending(t, q, d)
          \/ PopPending(t, q) \/ Notify(t, q)
    \/ MarkUsed(t)
------------------------------------------------------------------------------
(* Properties *)

\* A device that says it is ready has all its queues ready, at every moment of
\* activate and deactivate.
ReadyHasQueues ==
    ready["device"] => \A q \in Queues : ready[q]

\* No descriptor is lost or handed out twice: each one added is pending, in the
\* hands of one thread, or counted by used_idx.
DescriptorsKept ==
    \A q \in Queues :
        added[q] = Len(pending[q]) + used_idx[q]
                     + Cardinality({t \in Threads : held[t] # <<>> /\ held[t][1] = q})

==============================================================================
