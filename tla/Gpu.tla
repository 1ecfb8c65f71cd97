--------------------------------- MODULE Gpu ---------------------------------
(***************************************************************************)
(* The compute device of src/gpu.rs: buffers with their usage and their    *)
(* bytes, the counters of buffers, shaders and dispatches, and the copy    *)
(* from one buffer to another.  The device is the mock of the source: a    *)
(* dispatch checks its dimensions and is counted.                          *)
(***************************************************************************)
EXTENDS Calls, Sequences, FiniteSets

CONSTANTS
    GpuLimits,     \* [max_buffer_size, max_compute_workgroups_per_dimension]
    GpuUsages,     \* sets of usage bits: subsets of DOMAIN BufferUsageBits
    GpuData,       \* the initial contents of buffers
    Workgroups     \* the triples of a dispatch

VARIABLES
    buffers,           \* the buffers of the program, in the order they were made; made is history:
                       \* the bytes the program gave a buffer itself
    buffer_counter,
    shader_id,         \* the static SHADER_ID of from_wgsl
    shaders,           \* the ids given out
    dispatch_count

gpuVars == <<buffers, buffer_counter, shader_id, shaders, dispatch_count>>

\* BufferUsage: the flags and the numbers of their bits; a usage is a set of flags.
BufferUsageBits ==
    [MAP_READ |-> 0, MAP_WRITE |-> 1, COPY_SRC |-> 2, COPY_DST |-> 3, INDEX |-> 4, VERTEX |-> 5,
     UNIFORM |-> 6, STORAGE |-> 7, INDIRECT |-> 8]

contains(usage, other) == other \subseteq usage

\* GpuDevice::mock; available is set there and never again.
GpuInit ==
    /\ buffers = <<>>
    /\ buffer_counter = 1
    /\ shader_id = 1 /\ shaders = {}
    /\ dispatch_count = 0

NewBuffer(data, usage) ==
    IF Len(data) > GpuLimits.max_buffer_size
    THEN UNCHANGED <<buffers, buffer_counter>>
    ELSE /\ buffer_counter' = buffer_counter + 1
         /\ buffers' = Append(buffers, [id |-> buffer_counter, size |-> Len(data),
                                        usage |-> usage, data |-> data, made |-> data])

\* create_buffer: OutOfMemory, or a buffer with the data and the next id.
CreateBuffer(t, data, usage) ==
    /\ CallOnce(t)
    /\ NewBuffer(data, usage)
    /\ UNCHANGED <<shader_id, shaders, dispatch_count>>

\* create_buffer_uninit: Buffer::new fills it with zeros.
CreateBufferUninit(t, n, usage) ==
    /\ CallOnce(t)
    /\ NewBuffer([i \in 1 .. n |-> 0], usage)
    /\ UNCHANGED <<shader_id, shaders, dispatch_count>>

FromWgsl(t) ==
    /\ CallOnce(t)
    /\ shaders' = shaders \cup {shader_id}
    /\ shader_id' = shader_id + 1
    /\ UNCHANGED <<buffers, buffer_counter, dispatch_count>>

\* dispatch: InvalidArgument when a dimension is too large.
Dispatch(t, w) ==
    LET accepted == \A i \in DOMAIN w : w[i] <= GpuLimits.max_compute_workgroups_per_dimension IN
    /\ CallOnce(t)
    /\ dispatch_count' = IF accepted THEN dispatch_count + 1 ELSE dispatch_count
    /\ UNCHANGED <<buffers, buffer_counter, shader_id, shaders>>

\* Fault: the source's usage is not asked for.
CopyBufferAnySource(t, src, dst) ==
    LET s == buffers[src]
        d == buffers[dst] IN
    /\ src # dst
    /\ CallOnce(t)
    /\ buffers' =
         IF contains(d.usage, {"COPY_DST"})
         THEN [buffers EXCEPT ![dst].data =
                  [i \in 1 .. d.size |-> IF i <= s.size THEN s.data[i] ELSE d.data[i]]]
         ELSE buffers
    /\ UNCHANGED <<buffer_counter, shader_id, shaders, dispatch_count>>

\* copy_buffer: the shorter of the two lengths, if the usages allow it.
CopyBuffer(t, src, dst) ==
    LET s == buffers[src]
        d == buffers[dst] IN
    /\ src # dst
    /\ CallOnce(t)
    /\ buffers' =
         IF contains(s.usage, {"COPY_SRC"}) /\ contains(d.usage, {"COPY_DST"})
         THEN [buffers EXCEPT ![dst].data =
                  [i \in 1 .. d.size |-> IF i <= s.size THEN s.data[i] ELSE d.data[i]]]
         ELSE buffers
    /\ UNCHANGED <<buffer_counter, shader_id, shaders, dispatch_count>>

\* A byte stored through map_write, which is refused without MAP_WRITE.
MapWrite(t, b, i, byte) ==
    /\ CallOnce(t)
    /\ buffers' = IF contains(buffers[b].usage, {"MAP_WRITE"})
                  THEN [buffers EXCEPT ![b].data[i] = byte]
                  ELSE buffers
    /\ UNCHANGED <<buffer_counter, shader_id, shaders, dispatch_count>>

\* A byte stored through data_mut, which asks for no usage.
DataMut(t, b, i, byte) ==
    /\ CallOnce(t)
    /\ buffers' = [buffers EXCEPT ![b].data[i] = byte, ![b].made[i] = byte]
    /\ UNCHANGED <<buffer_counter, shader_id, shaders, dispatch_count>>

GpuCall(t) ==
    \/ \E usage \in GpuUsages, data \in GpuData :
          CreateBuffer(t, data, usage) \/ CreateBufferUninit(t, Len(data), usage)
    \/ FromWgsl(t)
    \/ \E w \in Workgroups : Dispatch(t, w)
    \/ \E src, dst \in DOMAIN buffers : CopyBuffer(t, src, dst)
    \/ \E b \in DOMAIN buffers : \E i \in 1 .. buffers[b].size : MapWrite(t, b, i, 2) \/ DataMut(t, b, i, 3)
------------------------------------------------------------------------------
(* Properties *)

\* Identifiers are given out once, a buffer keeps the size it was made with,
\* and what the program did not put into a buffer itself came through a usage
\* it has: a copy never reaches a buffer without COPY_DST nor comes from one
\* without COPY_SRC, and never writes past the shorter of the two.
BuffersKept ==
    /\ \A i, j \in DOMAIN buffers : i # j => buffers[i].id # buffers[j].id
    /\ \A i \in DOMAIN buffers :
          LET b == buffers[i] IN
          /\ Len(b.data) = b.size /\ b.size <= GpuLimits.max_buffer_size
          /\ b.usage \cap {"COPY_DST", "MAP_WRITE"} = {} => b.data = b.made
          /\ "MAP_WRITE" \notin b.usage =>
                \A k \in 1 .. b.size :
                    \/ b.data[k] = b.made[k]
                    \/ \E j \in DOMAIN buffers : "COPY_SRC" \in buffers[j].usage /\ k <= buffers[j].size
    /\ Cardinality(shaders) = shader_id - 1

==============================================================================
