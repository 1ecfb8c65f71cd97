--------------------------------- MODULE Wire ---------------------------------
(***************************************************************************)
(* The wire protocol of src/transport.rs: the payloads and the frame       *)
(* around them, with their serializers and parsers over sequences of       *)
(* bytes.  A byte is a number below BYTE, 256 in the code: the number of   *)
(* message types bounds it from below, TLC's integers from above.  Texts   *)
(* are sequences of bytes whose lengths go past the length field.          *)
(***************************************************************************)
EXTENDS Integers, Sequences, SequencesExt

CONSTANTS
    BYTE,        \* 256
    MaxLoad      \* 100, the highest cpu_load and memory_usage

ASSUME WireAssumption == BYTE \in Nat /\ BYTE > 9 /\ MaxLoad \in 0 .. BYTE - 1

Width16 == BYTE * BYTE
Width32 == Width16 * Width16

InvalidRequest == <<"InvalidRequest">>
None == <<>>
Some(x) == <<x>>

\* n.to_be_bytes() of a number of w bytes, and from_be_bytes of bytes[from..from + w].
be(n, w) == [i \in 1 .. w |-> (n \div BYTE ^ (w - i)) % BYTE]
from_be(bytes) == FoldLeft(LAMBDA n, b : n * BYTE + b, 0, bytes)
Field(bytes, from, w) == from_be(SubSeq(bytes, from + 1, from + w))

Enum(names, v) == IF v < Len(names) THEN names[v + 1] ELSE "None"
Code(names, name) == CHOOSE v \in 0 .. Len(names) - 1 : names[v + 1] = name

MessageTypes == <<"TaskSubmit", "TaskResult", "Heartbeat", "TaskCancel", "Ack", "Error",
                  "Shutdown", "Register", "Deregister", "Status">>
TaskStates == <<"Pending", "Queued", "Running", "Completed", "Failed", "Cancelled", "TimedOut">>
Backends == <<"Cpu", "Gpu", "Remote", "Any">>

-------------------------------------------------------------------------------
(* HeartbeatPayload *)

Clamp(load) == IF load > MaxLoad THEN MaxLoad ELSE load

heartbeat(worker_id, timestamp, pending_tasks, cpu_load, memory_usage) ==
    [worker_id |-> worker_id, timestamp |-> timestamp, pending_tasks |-> pending_tasks,
     cpu_load |-> Clamp(cpu_load), memory_usage |-> Clamp(memory_usage)]

heartbeat_to_bytes(p) ==
    be(p.worker_id, 4) \o be(p.timestamp, 8) \o be(p.pending_tasks, 4)
        \o <<p.cpu_load, p.memory_usage>>

heartbeat_from_bytes(bytes) ==
    IF Len(bytes) < 18 THEN InvalidRequest
    ELSE [worker_id |-> Field(bytes, 0, 4), timestamp |-> Field(bytes, 4, 8),
          pending_tasks |-> Field(bytes, 12, 4),
          cpu_load |-> bytes[17], memory_usage |-> bytes[18]]

-------------------------------------------------------------------------------
(* TaskResultPayload *)

\* An i32 is sent as the u32 with the same bits.
AsU32(n) == n % Width32
AsI32(n) == IF n >= Width32 \div 2 THEN n - Width32 ELSE n

task_result_to_bytes(p) ==
    be(p.task_id, 8) \o <<Code(TaskStates, p.state)>>
        \o (IF p.exit_code = None THEN <<0, 0, 0, 0, 0>> ELSE <<1>> \o be(AsU32(p.exit_code[1]), 4))
        \o be(p.duration_ms, 8)
        \o (IF p.error = None THEN be(0, 4) ELSE be(Len(p.error[1]), 4) \o p.error[1])

task_result_from_bytes(bytes) ==
    LET err_len == Field(bytes, 22, 4)
    IN  IF Len(bytes) < 22 \/ bytes[9] >= Len(TaskStates) THEN InvalidRequest
        ELSE [task_id |-> Field(bytes, 0, 8),
              state |-> Enum(TaskStates, bytes[9]),
              exit_code |-> IF bytes[10] = 1 THEN Some(AsI32(Field(bytes, 10, 4))) ELSE None,
              duration_ms |-> Field(bytes, 14, 8),
              error |-> IF Len(bytes) > 22 /\ err_len > 0 /\ Len(bytes) >= 26 + err_len
                        THEN Some(SubSeq(bytes, 27, 26 + err_len)) ELSE None]

-------------------------------------------------------------------------------
(* RegisterPayload *)

\* The length of the name is cast to a u16.
register_to_bytes(p) ==
    be(p.worker_id, 4) \o <<Code(Backends, p.backend)>> \o be(p.num_workers, 2)
        \o be(Len(p.name) % Width16, 2) \o p.name

register_from_bytes(bytes) ==
    LET name_len == Field(bytes, 7, 2)
    IN  IF Len(bytes) < 9 \/ bytes[5] >= Len(Backends) THEN InvalidRequest
        ELSE [worker_id |-> Field(bytes, 0, 4), backend |-> Enum(Backends, bytes[5]),
              num_workers |-> Field(bytes, 5, 2),
              name |-> IF name_len > 0 /\ Len(bytes) >= 9 + name_len
                       THEN SubSeq(bytes, 10, 9 + name_len) ELSE <<>>]

-------------------------------------------------------------------------------
(* Message *)

message(msg_type, payload) == [msg_type |-> msg_type, payload |-> payload]

\* Fault: the length leaves out the type.
message_to_bytes_short(m) ==
    be(Len(m.payload) % Width32, 4) \o <<Code(MessageTypes, m.msg_type)>> \o m.payload

message_to_bytes(m) ==
    be((1 + Len(m.payload)) % Width32, 4) \o <<Code(MessageTypes, m.msg_type)>> \o m.payload

message_from_bytes(bytes) ==
    LET total_len == Field(bytes, 0, 4)
    IN  IF Len(bytes) < 5 THEN InvalidRequest
        ELSE IF Len(bytes) < 4 + total_len \/ bytes[5] >= Len(MessageTypes) THEN InvalidRequest
        ELSE message(Enum(MessageTypes, bytes[5]), SubSeq(bytes, 6, 4 + total_len))

size(m) == 4 + 1 + Len(m.payload)

\* The constructors and the as_* accessors.
MessageOf(kind, p) ==
    CASE kind = "Heartbeat" -> message(kind, heartbeat_to_bytes(p))
      [] kind = "TaskResult" -> message(kind, task_result_to_bytes(p))
      [] kind = "Register" -> message(kind, register_to_bytes(p))
      [] kind = "TaskCancel" -> message(kind, be(p, 8))
      [] kind = "Error" -> message(kind, p)
      [] OTHER -> message(kind, <<>>)

as_heartbeat(m) ==
    IF m.msg_type # "Heartbeat" THEN InvalidRequest ELSE heartbeat_from_bytes(m.payload)
as_task_result(m) ==
    IF m.msg_type # "TaskResult" THEN InvalidRequest ELSE task_result_from_bytes(m.payload)
as_register(m) ==
    IF m.msg_type # "Register" THEN InvalidRequest ELSE register_from_bytes(m.payload)
as_error(m) == IF m.msg_type # "Error" THEN None ELSE Some(m.payload)

-------------------------------------------------------------------------------
(* Properties *)

\* What a parser can know of a payload: an empty error text is the same as none,
\* and of a name only the part that its length modulo 2^16 counts.
Received(kind, p) ==
    CASE kind = "TaskResult" -> [p EXCEPT !.error = IF @ = Some(<<>>) THEN None ELSE @]
      [] kind = "Register" -> [p EXCEPT !.name = SubSeq(@, 1, Len(@) % Width16)]
      [] OTHER -> p

\* A message read from a stream is the one that was written first, whatever
\* follows it, size says where the next one starts, and the payload parses to
\* what was sent; the other accessors refuse it.
WireRoundTrips(kind, p, rest) ==
    LET m == MessageOf(kind, p)
        bytes == message_to_bytes(m)
    IN  /\ message_from_bytes(bytes \o rest) = m
        /\ Len(bytes) = size(m)
        /\ as_heartbeat(m) = IF kind = "Heartbeat" THEN p ELSE InvalidRequest
        /\ as_task_result(m) = IF kind = "TaskResult" THEN Received(kind, p) ELSE InvalidRequest
        /\ as_register(m) = IF kind = "Register" THEN Received(kind, p) ELSE InvalidRequest
        /\ as_error(m) = IF kind = "Error" THEN Some(p) ELSE None

===============================================================================
