----------------------------- MODULE KernelTypes -----------------------------
(***************************************************************************)
(* The arithmetic of the kernel types: addresses, page frames, DMA buffers *)
(* and flag words of src/memory.rs, and the errno codes of src/error.rs.   *)
(* They are pure functions, so they are operators.  U64 and U32 stand for  *)
(* 2^64 and 2^32 and the other sizes for their values in the code, so that *)
(* TLC reaches the ends of the ranges.  A sum or product that overflows is *)
(* what the release profile makes of it, the value modulo U64; a debug     *)
(* build panics instead.                                                   *)
(***************************************************************************)
EXTENDS Integers, Sequences, FiniteSetsExt

CONSTANTS
    U64,                     \* 2^64
    U32,                     \* 2^32
    PAGE_SIZE,               \* 4096
    SECTOR_SIZE              \* 512

ASSUME SizesAssumption ==
    /\ {PAGE_SIZE, SECTOR_SIZE} \subseteq Nat \ {0}
    /\ U32 \in Nat \ {0}
    /\ U64 \in Nat /\ \E n \in 1 .. U64 : U64 = n * PAGE_SIZE

Addresses == 0 .. U64 - 1

------------------------------------------------------------------------------
(* src/memory.rs *)

is_page_aligned(a) == a % PAGE_SIZE = 0
page_align_down(a) == a - (a % PAGE_SIZE)

\* Fault: an address on a boundary is moved to the next one.
page_align_up_always(a) == page_align_down((a + PAGE_SIZE) % U64)

page_align_up(a) == page_align_down((a + PAGE_SIZE - 1) % U64)
page_offset(a) == a % PAGE_SIZE

wrapping_add(a, n) == (a + n) % U64
wrapping_sub(a, n) == (a - n) % U64
is_in_range(a, start, end) == a >= start /\ a < end

from_addr(a) == a \div PAGE_SIZE
to_addr(pfn) == (pfn * PAGE_SIZE) % U64    \* << drops the high bits

is_valid(b) == b.phys # 0 /\ b.virt # 0 /\ b.size > 0
page_count(b) == (b.size + PAGE_SIZE - 1) \div PAGE_SIZE

\* Alignment, page frames and offsets fit together for every address: rounding
\* stays within a page and on a boundary, rounding up wraps to 0 on the last
\* page, an address is its frame and its offset, additions are undone by
\* subtractions, and a frame number comes back from its address unless its high
\* bits were shifted out.
AddressArithmetic(a) ==
    /\ is_page_aligned(page_align_down(a))
    /\ is_in_range(a, page_align_down(a), page_align_down(a) + PAGE_SIZE)
    /\ is_page_aligned(page_align_up(a))
    /\ IF a <= U64 - PAGE_SIZE THEN page_align_up(a) - a \in 0 .. PAGE_SIZE - 1
       ELSE page_align_up(a) = 0
    /\ to_addr(from_addr(a)) + page_offset(a) = a
    /\ \A n \in Addresses : wrapping_sub(wrapping_add(a, n), n) = a
    /\ from_addr(to_addr(a)) = a <=> a < U64 \div PAGE_SIZE

\* page_count is the number of pages of a buffer that starts on a boundary; one
\* that does not may lie on one page more.
PageCountCovers(b) ==
    is_valid(b) /\ b.phys + b.size <= U64 =>
        LET pages == from_addr(b.phys + b.size - 1) - from_addr(b.phys) + 1
        IN  /\ is_page_aligned(b.phys) => page_count(b) = pages
            /\ pages \in page_count(b) .. page_count(b) + 1

------------------------------------------------------------------------------
(* Flag words: the n-th bit of a word is set by with and asked for by has *)

has(word, n) == (word \div 2 ^ n) % 2 = 1
with(word, n) == IF has(word, n) THEN word ELSE word + 2 ^ n

AllocFlags == [WAIT |-> 0, ZERO |-> 1, DMA |-> 2, HIGHMEM |-> 3]
Protection == [READ |-> 0, WRITE |-> 1, EXEC |-> 2]

\* A word that was made by setting some flags has exactly these, in whatever
\* order they were set: no two flags of a type share a bit.
FlagsIndependent(bits, set) ==
    LET word == FoldSet(LAMBDA f, w : with(w, bits[f]), 0, set) IN
    /\ \A f \in DOMAIN bits : has(word, bits[f]) <=> f \in set
    /\ \A f \in DOMAIN bits, g \in DOMAIN bits :
          with(with(word, bits[f]), bits[g]) = with(with(word, bits[g]), bits[f])

------------------------------------------------------------------------------
(* src/error.rs *)

Errno ==
    [OutOfMemory |-> -12, InvalidAddress |-> -14, AlignmentError |-> -22,
     OverlappingRegion |-> -22, IoTimeout |-> -110, DeviceNotReady |-> -19,
     InvalidRequest |-> -22, Cancelled |-> -125, UblkQueueFull |-> -11,
     UblkInvalidTag |-> -22, UblkDeviceBusy |-> -16, UblkDeviceNotFound |-> -19,
     UblkInvalidDeviceId |-> -22, UblkNotPermitted |-> -1, IoUringSubmitFull |-> -11,
     IoUringCqOverflow |-> -75, IoUringInvalidOpcode |-> -22, BlockError |-> -5,
     NoTagsAvailable |-> -11, InvalidQueueId |-> -22, NotSupported |-> -95,
     InvalidArgument |-> -22, WouldBlock |-> -11, Interrupted |-> -4, ResourceBusy |-> -16]

KernelErrors == DOMAIN Errno
to_errno(e) == Errno[e]

\* The error from_errno picks for a code that several errors share.
Named == {"OutOfMemory", "InvalidAddress", "IoTimeout", "DeviceNotReady", "Cancelled",
          "UblkDeviceBusy", "UblkNotPermitted", "IoUringCqOverflow", "BlockError",
          "NotSupported", "Interrupted", "WouldBlock"}

from_errno(errno) ==
    IF \E e \in Named : Errno[e] = errno THEN CHOOSE e \in Named : Errno[e] = errno
    ELSE "InvalidArgument"

is_retriable_error(e) ==
    e \in {"WouldBlock", "UblkQueueFull", "IoUringSubmitFull", "NoTagsAvailable", "UblkDeviceBusy"}

==============================================================================
