----------------------------- MODULE BlockTypes -----------------------------
(***************************************************************************)
(* What the block layer, a ublk server and io_uring hand to each other:    *)
(* requests and tag sets of src/blk_mq.rs, descriptors and commands of     *)
(* src/ublk.rs, submission and completion entries of src/io_uring.rs.      *)
(* Pure functions on records, so operators; a field that every constructor *)
(* sets to zero and nothing reads is left out.                             *)
(***************************************************************************)
EXTENDS KernelTypes

CONSTANTS
    BLK_MQ_MAX_DEPTH,        \* 32768
    BLK_MQ_MAX_HW_QUEUES     \* 128

ASSUME TagSetAssumption == {BLK_MQ_MAX_DEPTH, BLK_MQ_MAX_HW_QUEUES} \subseteq Nat

-----------------------------------------------------------------------------
(* src/blk_mq.rs *)

RequestOps == <<"Read", "Write", "Flush", "Discard", "WriteZeroes", "SecureErase",
                "ZoneReset", "ZoneOpen", "ZoneClose", "ZoneFinish">>
request_op_from_u8(v) == IF v < Len(RequestOps) THEN RequestOps[v + 1] ELSE "None"
has_data(op) == op \in {"Read", "Write"}
is_zone_op(op) == op \in {"ZoneReset", "ZoneOpen", "ZoneClose", "ZoneFinish"}

RequestFlags == [FUA |-> 0, META |-> 1, SYNC |-> 2, NOWAIT |-> 3]

bio_vec(addr, len, into) == [addr |-> addr, len |-> len, offset |-> into]
effective_addr(v) == (v.addr + v.offset) % U64

request(tag, queue_id, op) ==
    [tag |-> tag, queue_id |-> queue_id, op |-> op, flags |-> 0, sector |-> 0, nr_sectors |-> 0,
     bio_vec |-> bio_vec(0, 0, 0)]
set_sector_range(r, sector, nr_sectors) == [r EXCEPT !.sector = sector, !.nr_sectors = nr_sectors]
set_bio_vec(r, v) == [r EXCEPT !.bio_vec = v]

byte_offset(r) == (r.sector * SECTOR_SIZE) % U64
byte_len(r) == (r.nr_sectors * SECTOR_SIZE) % U64

tag_set_validate(c) ==
    /\ c.nr_hw_queues # 0 /\ c.nr_hw_queues <= BLK_MQ_MAX_HW_QUEUES
    /\ c.queue_depth # 0 /\ c.queue_depth <= BLK_MQ_MAX_DEPTH
total_tags(c) == (c.nr_hw_queues * c.queue_depth) % U32

-----------------------------------------------------------------------------
(* src/ublk.rs *)

UBLK_IO_OP_READ == 0
UBLK_IO_OP_WRITE == 1
UBLK_IO_F_FUA == 8    \* the number of the bit

UblkFeatures == [SUPPORT_ZERO_COPY |-> 0, URING_CMD_COMP_IN_TASK |-> 1, NEED_GET_DATA |-> 2,
                 UNPRIVILEGED_DEV |-> 5, CMD_IOCTL_ENCODE |-> 6, USER_COPY |-> 7]

io_desc(op_flags, start_sector, nr_sectors) ==
    [op_flags |-> op_flags, start_sector |-> start_sector, nr_sectors |-> nr_sectors, addr |-> 0]
set_addr(d, addr) == [d EXCEPT !.addr = addr]

\* Fault: the flags are not masked off.
desc_op_unmasked(d) == d.op_flags

desc_op(d) == d.op_flags % 256
desc_flags(d) == d.op_flags - (d.op_flags % 256)
is_fua(d) == has(d.op_flags, UBLK_IO_F_FUA)
desc_byte_offset(d) == (d.start_sector * SECTOR_SIZE) % U64
desc_byte_len(d) == (d.nr_sectors * SECTOR_SIZE) % U64

io_cmd_completed(q_id, tag, result) == [q_id |-> q_id, tag |-> tag, result |-> result, addr |-> 0]
io_cmd_is_success(c) == c.result >= 0

-----------------------------------------------------------------------------
(* src/io_uring.rs *)

IORING_OP_NOP == 0
IORING_OP_READ == 22
IORING_OP_WRITE == 23
IORING_OP_URING_CMD == 46

SqeFlags == [FIXED_FILE |-> 0, IO_DRAIN |-> 1, IO_LINK |-> 2, IO_HARDLINK |-> 3, ASYNC |-> 4,
             BUFFER_SELECT |-> 5, CQE_SKIP_SUCCESS |-> 6]
CqeFlags == [MORE |-> 1, SOCK_NONEMPTY |-> 2, NOTIF |-> 3]

sqe_new ==
    [opcode |-> IORING_OP_NOP, flags |-> 0, fd |-> -1, off |-> 0, addr |-> 0, len |-> 0,
     op_flags |-> 0, user_data |-> 0]
sqe_nop(user_data) == [sqe_new EXCEPT !.user_data = user_data]
uring_cmd(fd, cmd_op, user_data) ==
    [sqe_new EXCEPT !.opcode = IORING_OP_URING_CMD, !.fd = fd, !.op_flags = cmd_op, !.user_data = user_data]
sqe_transfer(opcode, fd, buf, len, off, user_data) ==
    [sqe_new EXCEPT !.opcode = opcode, !.fd = fd, !.addr = buf, !.len = len, !.off = off,
                    !.user_data = user_data]
sqe_read(fd, buf, len, off, user_data) == sqe_transfer(IORING_OP_READ, fd, buf, len, off, user_data)
sqe_write(fd, buf, len, off, user_data) == sqe_transfer(IORING_OP_WRITE, fd, buf, len, off, user_data)
set_sqe_flag(e, f) == [e EXCEPT !.flags = with(@, SqeFlags[f])]
is_uring_cmd(e) == e.opcode = IORING_OP_URING_CMD
is_nop(e) == e.opcode = IORING_OP_NOP

cqe(user_data, res, flags) == [user_data |-> user_data, res |-> res, flags |-> flags]
cqe_is_success(c) == c.res >= 0
cqe_errno(c) == IF c.res < 0 THEN -c.res ELSE 0
cqe_result(c) == IF c.res >= 0 THEN <<c.res>> ELSE <<>>

-----------------------------------------------------------------------------
(* Properties of one input *)

\* A request that a server describes with its operation number and some flags
\* above it, serves with io_uring and completes with the command, is served as
\* what it was: same operation, same bytes, same tag, and its flags come apart
\* again.  A sector whose byte offset does not fit a u64 wraps alike on both sides.
RequestServed(r, op, flags, res) ==
    LET d == set_addr(io_desc(op + flags * 256, r.sector, r.nr_sectors), effective_addr(r.bio_vec))
        e == CASE desc_op(d) = UBLK_IO_OP_READ ->
                     sqe_read(3, d.addr, desc_byte_len(d), desc_byte_offset(d), r.tag)
               [] desc_op(d) = UBLK_IO_OP_WRITE ->
                     sqe_write(3, d.addr, desc_byte_len(d), desc_byte_offset(d), r.tag)
               [] OTHER -> sqe_nop(r.tag)
        c == cqe(set_sqe_flag(e, "IO_LINK").user_data, res, 0)
        done == io_cmd_completed(r.queue_id, c.user_data, c.res)
    IN  /\ request_op_from_u8(desc_op(d)) = r.op
        /\ desc_flags(d) = flags * 256 /\ (is_fua(d) <=> flags % 2 = 1)
        /\ has_data(r.op) <=> ~is_nop(e)
        /\ ~is_nop(e) => e.off = byte_offset(r) /\ e.len = byte_len(r) /\ e.addr = effective_addr(r.bio_vec)
        /\ ~(has_data(r.op) /\ is_zone_op(r.op))
        /\ ~is_uring_cmd(e) /\ is_uring_cmd(uring_cmd(3, op, r.tag))
        /\ done.tag = r.tag /\ done.q_id = r.queue_id
        /\ io_cmd_is_success(done) <=> cqe_is_success(c)
        /\ IF cqe_is_success(c) THEN cqe_result(c) = <<res>> /\ cqe_errno(c) = 0
           ELSE cqe_result(c) = <<>> /\ cqe_errno(c) = -res

\* A tag set that validates has at least one tag, and their number is not wrapped.
TagsCounted(c) ==
    tag_set_validate(c) => total_tags(c) = c.nr_hw_queues * c.queue_depth /\ total_tags(c) > 0

\* An error that travels as the result of a completion keeps its errno, is seen
\* as an error, and stays retriable if it was (the converse does not hold:
\* ResourceBusy comes back as UblkDeviceBusy, which is retriable).
ErrorSurvives(e) ==
    LET c == cqe(1, to_errno(e), 0)
        back == from_errno(-cqe_errno(c))
    IN  /\ ~cqe_is_success(c) /\ cqe_result(c) = <<>>
        /\ to_errno(back) = to_errno(e)
        /\ is_retriable_error(e) => is_retriable_error(back)

=============================================================================
