------------------------------ MODULE Layouts ------------------------------
(***************************************************************************)
(* The memory layout of the structures that cross to the kernel or to a    *)
(* device: a #[repr(C)] structure is the sequence of the sizes of its      *)
(* fields, in bytes.  Offsets and sizes follow the C rules, and are        *)
(* compared with the tables in the comments of src/ublk.rs and             *)
(* src/io_uring.rs, the SIZE constants of src/virtio.rs and the size field *)
(* of the ioctl numbers of src/ublk.rs.                                    *)
(***************************************************************************)
EXTENDS Integers, SequencesExt

\* #[repr(C)]: a field starts at the next multiple of its size.
NextMultiple(n, size) == ((n + size - 1) \div size) * size

Placed(fields) ==
    FoldLeft(LAMBDA l, size : LET o == NextMultiple(l.end, size)
                              IN  [offsets |-> Append(l.offsets, o), end |-> o + size],
             [offsets |-> <<>>, end |-> 0], fields)

offsets_of(fields) == Placed(fields).offsets

\* The whole is a multiple of its largest field.
size_of(fields) == NextMultiple(Placed(fields).end, Max(Range(fields)))

-----------------------------------------------------------------------------
UblkCtrlCmd == <<4, 2, 2, 8, 8, 2, 2, 4>>
UblkIoDesc == <<4, 4, 8, 8>>
UblkIoCmd == <<2, 2, 4, 8>>
IoUringSqe == <<1, 1, 2, 4, 8, 8, 4, 4, 8, 2, 2, 4, 8, 8>>
IoUringCqe == <<8, 4, 4>>
VirtqDesc == <<8, 4, 2, 2>>
VirtqUsedElem == <<4, 4>>
VsockPacketHeader == <<8, 8, 4, 4, 4, 2, 2, 4, 4, 4>>
BlockRequestHeader == <<4, 4, 8>>

\* The bits of an ioctl number: direction and size in its upper half, type and
\* number in its lower half.
CtrlOpcodes ==
    [ADD_DEV |-> <<49184, 29956>>, DEL_DEV |-> <<49184, 29957>>, START_DEV |-> <<49184, 29958>>,
     STOP_DEV |-> <<49184, 29959>>, SET_PARAMS |-> <<49184, 29960>>, GET_PARAMS |-> <<32800, 29961>>,
     GET_QUEUE_AFFINITY |-> <<32800, 29962>>, GET_DEV_INFO |-> <<32800, 29963>>]
IoOpcodes ==
    [FETCH_REQ |-> <<49168, 29984>>, COMMIT_AND_FETCH_REQ |-> <<49168, 29985>>,
     NEED_GET_DATA |-> <<49168, 29986>>]

ioctl_dir(op) == op[1] \div 2 ^ 14
ioctl_size(op) == op[1] % 2 ^ 14
ioctl_type(op) == op[2] \div 256

-----------------------------------------------------------------------------
(* Properties *)

\* The layouts that the comments give: offset by offset, and in all.
Documented ==
    {<<UblkCtrlCmd, <<0, 4, 6, 8, 16, 24, 26, 28>>, 32>>,
     <<UblkIoDesc, <<0, 4, 8, 16>>, 24>>,
     <<UblkIoCmd, <<0, 2, 4, 8>>, 16>>,
     <<IoUringSqe, <<0, 1, 2, 4, 8, 16, 24, 28, 32, 40, 42, 44, 48, 56>>, 64>>,
     <<IoUringCqe, <<0, 8, 12>>, 16>>,
     <<BlockRequestHeader, <<0, 4, 8>>, 16>>}

Shared == {UblkCtrlCmd, UblkIoDesc, UblkIoCmd, IoUringSqe, IoUringCqe, VirtqDesc, VirtqUsedElem,
           VsockPacketHeader, BlockRequestHeader}

\* Structures that are shared have no hole between two fields; they lie as their
\* documentation says; an ioctl number carries the size of the structure it goes
\* with, so that the kernel copies all of it, and says that the kernel writes to
\* it; no two commands share a number.  VsockPacketHeader::SIZE is where its
\* fields end, four bytes before the end of the structure.
LayoutsMatch ==
    /\ \A s \in Shared : Placed(s).end = FoldSeq(+, 0, s)
    /\ \A d \in Documented : offsets_of(d[1]) = d[2] /\ size_of(d[1]) = d[3]
    /\ Placed(VsockPacketHeader).end = 44 /\ size_of(VsockPacketHeader) = 48
    /\ \A c \in DOMAIN CtrlOpcodes : ioctl_size(CtrlOpcodes[c]) = size_of(UblkCtrlCmd)
    /\ \A c \in DOMAIN IoOpcodes : ioctl_size(IoOpcodes[c]) = size_of(UblkIoCmd)
    /\ \A op \in Range(CtrlOpcodes) \cup Range(IoOpcodes) : ioctl_dir(op) \in {2, 3} /\ ioctl_type(op) = 117
    /\ Cardinality({op[2] % 256 : op \in Range(CtrlOpcodes) \cup Range(IoOpcodes)})
         = Cardinality(DOMAIN CtrlOpcodes) + Cardinality(DOMAIN IoOpcodes)

=============================================================================
