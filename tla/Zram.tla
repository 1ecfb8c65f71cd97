--------------------------------- MODULE Zram ---------------------------------
(***************************************************************************)
(* The device of src/zram.rs, shared by threads that read, write and       *)
(* discard pages and reset it.  A page is a sequence of PAGE_SIZE bytes.   *)
(* The table is behind a lock held for one access at a time, the           *)
(* compression stream behind a mutex that a write keeps from the           *)
(* compression to its last counter, and every counter of the statistics is *)
(* an atomic of its own.  The codec is module Lz4: here a compressed page  *)
(* is the page and the length CompressedLen gives it.                      *)
(***************************************************************************)
EXTENDS Calls, KernelTypes, FiniteSets, FiniteSetsExt

CONSTANTS
    SizeBytes,           \* ZramConfig.size_bytes
    PageData,            \* the buffers a program writes, some of them short
    CompressedLen(_),    \* the length of what compress returns for a page
    NoThread

ASSUME ZramAssumption == SizeBytes \in Nat /\ NoThread \notin Threads

VARIABLES
    entries,    \* PageTable: a function on the pages that have an entry
    stream,     \* the thread that holds the stream's mutex, or NoThread
    zstats,     \* AtomicStats
    zcall,      \* the call of each thread: its page, its data or buffer, the entry in hand
    todo,       \* the counters a write has still to add to
    during      \* history: the contents that a reader's page had, or the pages that were
                \* written, since the thread's call began

zramVars == <<entries, stream, zstats, zcall, todo, during>>

max_pages == SizeBytes \div PAGE_SIZE

Counters == {"orig_data_size", "compr_data_size", "mem_used_total", "pages_stored",
             "zero_pages", "same_pages", "huge_pages", "num_reads", "num_writes"}

NoCall == [page |-> 0, data |-> <<>>, entry |-> [kind |-> "Empty"]]

ZramInit ==
    /\ entries = [p \in {} |-> [kind |-> "Empty"]]
    /\ stream = NoThread
    /\ zstats = [c \in Counters |-> 0]
    /\ zcall = [t \in Threads |-> NoCall]
    /\ todo = [t \in Threads |-> <<>>]
    /\ during = [t \in Threads |-> {}]
------------------------------------------------------------------------------
(* Entries *)

Filled(value) == [i \in 1 .. PAGE_SIZE |-> value]

table_get(p) == IF p \in DOMAIN entries THEN entries[p] ELSE [kind |-> "Empty"]

table_set(p, e) == [q \in DOMAIN entries \cup {p} |-> IF q = p THEN e ELSE entries[q]]

table_remove(p) == [q \in DOMAIN entries \ {p} |-> entries[q]]

memory_size(e) ==
    CASE e.kind \in {"Empty", "Zero"} -> 0
      [] e.kind = "Same" -> 1
      [] e.kind = "Compressed" -> e.len
      [] e.kind = "Uncompressed" -> PAGE_SIZE

\* What read_page puts into the buffer for an entry.
Expand(e) ==
    CASE e.kind \in {"Empty", "Zero"} -> Filled(0)
      [] e.kind = "Same" -> Filled(e.value)
      [] OTHER -> e.data

\* Fault: the first and the last byte decide.
check_same_filled_ends(data) == data[1] = data[PAGE_SIZE]

check_same_filled(data) == \A i \in 1 .. PAGE_SIZE : data[i] = data[1]

\* The entry a write stores: what compress returns must save an eighth.
EntryFor(data) ==
    IF data = Filled(0) THEN [kind |-> "Zero"]
    ELSE IF check_same_filled(data) THEN [kind |-> "Same", value |-> data[1]]
    ELSE IF CompressedLen(data) >= PAGE_SIZE - (PAGE_SIZE \div 8)
         THEN [kind |-> "Uncompressed", data |-> data]
         ELSE [kind |-> "Compressed", data |-> data, len |-> CompressedLen(data)]

\* Fault: no kind of entry counts its memory.
RecordPagesOnly(e) == <<<<"pages_stored", 1>>, <<"num_writes", 1>>>>

\* record_zero_page, record_same_page, record_write and record_huge_page, in order.
Record(e) ==
    CASE e.kind = "Zero" -> <<<<"zero_pages", 1>>, <<"pages_stored", 1>>, <<"num_writes", 1>>>>
      [] e.kind = "Same" -> <<<<"same_pages", 1>>, <<"pages_stored", 1>>, <<"num_writes", 1>>>>
      [] e.kind = "Compressed" ->
            <<<<"orig_data_size", PAGE_SIZE>>, <<"compr_data_size", e.len>>,
              <<"mem_used_total", e.len>>, <<"pages_stored", 1>>, <<"num_writes", 1>>>>
      [] e.kind = "Uncompressed" ->
            <<<<"huge_pages", 1>>, <<"orig_data_size", PAGE_SIZE>>, <<"compr_data_size", PAGE_SIZE>>,
              <<"mem_used_total", PAGE_SIZE>>, <<"pages_stored", 1>>, <<"num_writes", 1>>>>
------------------------------------------------------------------------------
(* Calls *)

ReadLabels == {"read_get", "read_decompress", "read_count"}

\* How the history of the other threads' calls goes on when page p gets entry e.
Observe(p, e) ==
    [u \in Threads |->
        IF pc[u] \in ReadLabels /\ zcall[u].page = p THEN during[u] \cup {Expand(e)}
        ELSE IF pc[u] = "reset" /\ e.kind # "Empty" THEN during[u] \cup {p}
        ELSE during[u]]

\* read_page and write_page refuse a short buffer and a page beyond the device.
Refused(t, p, len) ==
    /\ len < PAGE_SIZE \/ p >= max_pages
    /\ CallOnce(t)
    /\ UNCHANGED zramVars

ReadPage(t, p) ==
    /\ p < max_pages
    /\ Begin(t, "read_get")
    /\ zcall' = [zcall EXCEPT ![t] = [NoCall EXCEPT !.page = p]]
    /\ during' = [during EXCEPT ![t] = {Expand(table_get(p))}]
    /\ UNCHANGED <<entries, stream, zstats, todo>>

\* page_table.get, and the buffer unless the entry is compressed.
ReadGet(t) ==
    LET e == table_get(zcall[t].page) IN
    /\ pc[t] = "read_get"
    /\ zcall' = [zcall EXCEPT ![t].entry = e,
                              ![t].data = IF e.kind = "Compressed" THEN <<>> ELSE Expand(e)]
    /\ Go(t, IF e.kind = "Compressed" THEN "read_decompress" ELSE "read_count")
    /\ UNCHANGED <<entries, stream, zstats, todo, during>>

\* The stream is locked, used and released.
ReadDecompress(t) ==
    /\ pc[t] = "read_decompress" /\ stream = NoThread
    /\ zcall' = [zcall EXCEPT ![t].data = Expand(zcall[t].entry)]
    /\ Go(t, "read_count")
    /\ UNCHANGED <<entries, stream, zstats, todo, during>>

\* What a thread forgets when its call returns.
Forget(t) ==
    /\ zcall' = [zcall EXCEPT ![t] = NoCall]
    /\ during' = [during EXCEPT ![t] = {}]

ReadCount(t) ==
    /\ pc[t] = "read_count"
    /\ zstats' = [zstats EXCEPT !["num_reads"] = @ + 1]
    /\ Return(t) /\ Forget(t)
    /\ UNCHANGED <<entries, stream, todo>>

\* write_page up to the store or, for a page that is not filled, to the stream's lock.
WritePage(t, p, data) ==
    /\ p < max_pages /\ Len(data) >= PAGE_SIZE
    /\ LET page == SubSeq(data, 1, PAGE_SIZE)
           e == EntryFor(page) IN
       /\ zcall' = [zcall EXCEPT ![t] = [page |-> p, data |-> page, entry |-> e]]
       /\ Begin(t, IF e.kind \in {"Zero", "Same"} THEN "write_set" ELSE "write_lock")
    /\ UNCHANGED <<entries, stream, zstats, todo, during>>

WriteLock(t) ==
    /\ pc[t] = "write_lock" /\ stream = NoThread
    /\ stream' = t
    /\ Go(t, "write_set")
    /\ UNCHANGED <<entries, zstats, zcall, todo, during>>

WriteSet(t) ==
    LET c == zcall[t] IN
    /\ pc[t] = "write_set"
    /\ entries' = table_set(c.page, c.entry)
    /\ todo' = [todo EXCEPT ![t] = Record(c.entry)]
    /\ during' = Observe(c.page, c.entry)
    /\ Go(t, "write_count")
    /\ UNCHANGED <<stream, zstats, zcall>>

\* One fetch_add; after the last one the mutex is released and the call returns.
WriteCount(t) ==
    /\ pc[t] = "write_count"
    /\ zstats' = [zstats EXCEPT ![Head(todo[t])[1]] = @ + Head(todo[t])[2]]
    /\ todo' = [todo EXCEPT ![t] = Tail(@)]
    /\ IF Len(todo[t]) > 1
       THEN Go(t, "write_count") /\ UNCHANGED <<stream, zcall, during>>
       ELSE /\ stream' = IF stream = t THEN NoThread ELSE stream
            /\ Return(t) /\ Forget(t)
    /\ UNCHANGED entries

DiscardPage(t, p) ==
    /\ CallOnce(t)
    /\ IF p < max_pages
       THEN entries' = table_remove(p) /\ during' = Observe(p, [kind |-> "Empty"])
       ELSE UNCHANGED <<entries, during>>
    /\ UNCHANGED <<stream, zstats, zcall, todo>>

ResetStarts(t) ==
    /\ Begin(t, "reset")
    /\ zcall' = [zcall EXCEPT ![t] = NoCall]
    /\ UNCHANGED <<entries, stream, zstats, todo, during>>

\* Fault: the loop starts at the second page.
ResetRemoveSkipsFirst(t) ==
    LET i == zcall[t].page IN
    /\ pc[t] = "reset"
    /\ IF i < max_pages
       THEN /\ entries' = IF i = 0 THEN entries ELSE table_remove(i)
            /\ during' = IF i = 0 THEN during ELSE Observe(i, [kind |-> "Empty"])
            /\ zcall' = [zcall EXCEPT ![t].page = i + 1]
            /\ Go(t, "reset")
       ELSE Return(t) /\ Forget(t) /\ UNCHANGED entries
    /\ UNCHANGED <<stream, zstats, todo>>

\* The loop of reset takes the table's lock once for every page.
ResetRemove(t) ==
    LET i == zcall[t].page IN
    /\ pc[t] = "reset"
    /\ IF i < max_pages
       THEN /\ entries' = table_remove(i)
            /\ during' = Observe(i, [kind |-> "Empty"])
            /\ zcall' = [zcall EXCEPT ![t].page = i + 1]
            /\ Go(t, "reset")
       ELSE Return(t) /\ Forget(t) /\ UNCHANGED entries
    /\ UNCHANGED <<stream, zstats, todo>>

ZramCall(t) ==
    \/ \E p \in 0 .. max_pages :
          \/ ReadPage(t, p) \/ DiscardPage(t, p)
          \/ \E data \in PageData : WritePage(t, p, data) \/ Refused(t, p, Len(data))
    \/ ResetStarts(t)

ZramStep(t) ==
    \/ ReadGet(t) \/ ReadDecompress(t) \/ ReadCount(t)
    \/ WriteLock(t) \/ WriteSet(t) \/ WriteCount(t)
    \/ ResetRemove(t)
------------------------------------------------------------------------------
(* Properties *)

\* A read returns what its page held at some moment of the call, or zeros if it
\* had no entry, whatever writes, discards and resets run meanwhile: no page is
\* mistaken for a filled one and none is read through another's entry.
PageReadsIntact ==
    \A t \in Inside({"read_count"}) : zcall[t].data \in during[t]

\* What read_page returns for a page that was written is the page that was written.
StoredAsWritten ==
    \A t \in Inside({"write_set", "write_count"}) : Expand(zcall[t].entry) = zcall[t].data

\* A page that reset has passed is in the table only if it was written since
\* reset began: reset is not atomic, but it forgets no page.
ResetClears ==
    \A t \in Inside({"reset"}) :
        \A p \in DOMAIN entries : p < zcall[t].page => p \in during[t]

\* The additions to a counter that writes in progress have still to make.
Pending(c) ==
    LET add(t, i) == IF todo[t][i][1] = c THEN todo[t][i][2] ELSE 0
        sum(t) == MapThenSumSet(LAMBDA i : add(t, i), DOMAIN todo[t])
    IN  MapThenSumSet(sum, Threads)

\* The counters cover the table: the memory of the entries is never more than
\* what mem_used_total and same_pages say once the writes in progress have
\* counted, there are no more entries than pages_stored, each written page was
\* counted once, and compr_data_size follows mem_used_total.
StatsCoverTable ==
    LET total(c) == zstats[c] + Pending(c)
        memory(p) == memory_size(entries[p]) IN
    /\ MapThenSumSet(memory, DOMAIN entries) <= total("mem_used_total") + total("same_pages")
    /\ Cardinality(DOMAIN entries) <= total("pages_stored")
    /\ total("pages_stored") = total("num_writes")
    /\ total("compr_data_size") = total("mem_used_total")
    /\ total("compr_data_size") <= total("orig_data_size")

\* The stream is held only by a write that will release it.
StreamHeldByWrite ==
    stream # NoThread => pc[stream] \in {"write_set", "write_count"}

==============================================================================
