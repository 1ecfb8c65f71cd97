--------------------------------- MODULE Lz4 ---------------------------------
(***************************************************************************)
(* The LZ4 compressor and decompressor of src/zram.rs, and what a zram     *)
(* device stores for a page.  compress_lz4 is a state machine with one     *)
(* step per round of its loop; decompress_lz4 is a recursive operator, one *)
(* level per sequence.  The numbers of the format are constants, so that   *)
(* small pages reach every boundary: in the code a token has two nibbles   *)
(* up to 15, a byte goes up to 255, a match has at least 4 bytes and the   *)
(* last 5 bytes start no match.  Positions count from 0 as in the code.    *)
(* A page is never as short as the inputs compress_lz4 leaves alone.       *)
(***************************************************************************)
EXTENDS Integers, Sequences, SequencesExt, FiniteSetsExt

CONSTANTS
    PAGE_SIZE,
    Letters,        \* the bytes that occur in pages
    NibbleMax,      \* 15
    ByteMax,        \* 255
    MinMatch,       \* 4
    EndLiterals,    \* 5
    HashSize        \* 4096

Base == ByteMax + 1

ASSUME Lz4Assumption ==
    /\ {PAGE_SIZE, NibbleMax, MinMatch, EndLiterals, HashSize} \subseteq Nat \ {0}
    /\ ByteMax + 1 = (NibbleMax + 1) * (NibbleMax + 1)
    /\ Letters \subseteq 0 .. ByteMax
    /\ MinMatch < EndLiterals /\ EndLiterals < PAGE_SIZE
    /\ PAGE_SIZE <= Base * Base    \* a position fits the two bytes of an offset

VARIABLES input, ip, anchor, hash_table, output, at

vars == <<input, ip, anchor, hash_table, output, at>>

Slice(s, from, to) == SubSeq(s, from + 1, to)    \* s[from..to]
Byte(p) == input[p + 1]

------------------------------------------------------------------------------
Token(literal_len, match_extra) ==
    Min({literal_len, NibbleMax}) * (NibbleMax + 1) + Min({match_extra, NibbleMax})

\* Fault: a single byte holds the whole rest of the length.
ExtensionOneByte(n) == IF n < NibbleMax THEN <<>> ELSE <<n - NibbleMax>>

\* The bytes after the token for a length that does not fit its nibble.
Extension(n) ==
    IF n < NibbleMax THEN <<>>
    ELSE [i \in 1 .. (n - NibbleMax) \div ByteMax |-> ByteMax]
             \o <<(n - NibbleMax) % ByteMax>>

lz4_emit_sequence(literals, offset, match_len) ==
    <<Token(Len(literals), match_len - MinMatch)>> \o Extension(Len(literals)) \o literals
        \o <<offset % Base, offset \div Base>> \o Extension(match_len - MinMatch)

lz4_emit_literals_only(literals) ==
    <<Token(Len(literals), 0)>> \o Extension(Len(literals)) \o literals

\* Any function of the next MinMatch bytes will do.
lz4_hash(p) ==
    FoldLeft(LAMBDA h, b : 3 * h + b, 0, Slice(input, p, p + MinMatch)) % HashSize

IsMatch(ref_pos) ==
    /\ ref_pos > 0    \* 0 is also an empty slot of the table
    /\ ip > ref_pos
    /\ ip - ref_pos < Base * Base - 1
    /\ Slice(input, ref_pos, ref_pos + MinMatch) = Slice(input, ip, ip + MinMatch)

MatchLen(ref_pos) ==
    Max({n \in MinMatch .. Len(input) - ip :
            \A i \in 0 .. n - 1 : Byte(ip + i) = Byte(ref_pos + i)})

Init ==
    /\ input \in [1 .. PAGE_SIZE -> Letters]
    /\ ip = 0
    /\ anchor = 0
    /\ hash_table = [h \in 0 .. HashSize - 1 |-> 0]
    /\ output = <<>>
    /\ at = "scan"

FindMatch ==
    LET ref_pos == hash_table[lz4_hash(ip)]
    IN  /\ at = "scan" /\ ip < Len(input) - EndLiterals
        /\ IsMatch(ref_pos)
        /\ hash_table' = [hash_table EXCEPT ![lz4_hash(ip)] = ip]
        /\ output' = output \o lz4_emit_sequence(Slice(input, anchor, ip), ip - ref_pos,
                                                 MatchLen(ref_pos))
        /\ ip' = ip + MatchLen(ref_pos)
        /\ anchor' = ip'
        /\ UNCHANGED <<input, at>>

\* Fault: the position does not move on.
NoMatchStays ==
    /\ at = "scan" /\ ip < Len(input) - EndLiterals
    /\ ~IsMatch(hash_table[lz4_hash(ip)])
    /\ hash_table' = [hash_table EXCEPT ![lz4_hash(ip)] = ip]
    /\ UNCHANGED <<input, ip, anchor, output, at>>

NoMatch ==
    /\ at = "scan" /\ ip < Len(input) - EndLiterals
    /\ ~IsMatch(hash_table[lz4_hash(ip)])
    /\ hash_table' = [hash_table EXCEPT ![lz4_hash(ip)] = ip]
    /\ ip' = ip + 1
    /\ UNCHANGED <<input, anchor, output, at>>

\* The rest is literals; what did not get shorter is returned as it was.
Finish ==
    /\ at = "scan" /\ ip >= Len(input) - EndLiterals
    /\ output' = LET all == IF anchor < Len(input)
                            THEN output \o lz4_emit_literals_only(Slice(input, anchor, Len(input)))
                            ELSE output
                 IN  IF Len(all) >= Len(input) THEN input ELSE all
    /\ at' = "done"
    /\ UNCHANGED <<input, ip, anchor, hash_table>>

Done == at = "done" /\ UNCHANGED vars

Next == FindMatch \/ NoMatch \/ Finish \/ Done

Spec == Init /\ [][Next]_vars /\ WF_vars(Next)

------------------------------------------------------------------------------
\* What a nibble and the bytes after it say: the length and the bytes left.
ReadLength(nibble, bytes) ==
    LET full == SelectInSeq(bytes, LAMBDA b : b # ByteMax)
    IN  CASE nibble # NibbleMax -> [len |-> nibble, rest |-> bytes]
          [] nibble = NibbleMax /\ full = 0 ->
                [len |-> nibble + ByteMax * Len(bytes), rest |-> <<>>]
          [] OTHER -> [len |-> nibble + ByteMax * (full - 1) + bytes[full],
                       rest |-> SubSeq(bytes, full + 1, Len(bytes))]

\* Fault: the match is copied as a block of what is there already.
CopyMatchBlock(out, offset, len) ==
    out \o SubSeq(out, Len(out) - offset + 1, Min({Len(out), Len(out) - offset + len}))

\* A match may overlap its own copy: it is copied byte by byte.
CopyMatch(out, offset, len) ==
    out \o [i \in 1 .. len |-> out[Len(out) - offset + 1 + ((i - 1) % offset)]]

InvalidArgument == <<"InvalidArgument">>

\* out is the output buffer's filled part, size the size of the buffer.
RECURSIVE Decode(_, _, _)
Decode(bytes, out, size) ==
    IF bytes = <<>> THEN out ELSE
    LET literal == ReadLength(bytes[1] \div (NibbleMax + 1), Tail(bytes))
        copied == out \o Slice(literal.rest, 0, literal.len)
        after == Slice(literal.rest, literal.len, Len(literal.rest))
        offset == after[1] + Base * after[2]
        match == ReadLength(bytes[1] % (NibbleMax + 1), Slice(after, 2, Len(after)))
        match_len == match.len + MinMatch
    IN  IF literal.len > Len(literal.rest) \/ Len(copied) > size THEN InvalidArgument
        ELSE IF after = <<>> THEN copied
        ELSE IF Len(after) < 2 THEN InvalidArgument
        ELSE IF offset = 0 \/ offset > Len(copied) \/ Len(copied) + match_len > size
        THEN InvalidArgument
        ELSE Decode(match.rest, CopyMatch(copied, offset, match_len), size)

decompress_lz4(bytes, size) == Decode(bytes, <<>>, size)

------------------------------------------------------------------------------
\* Fault: whatever compress returned is kept as compressed.
EntryAlwaysCompressed(page, compressed) ==
    IF \A i \in DOMAIN page : page[i] = 0 THEN [kind |-> "Zero"]
    ELSE IF \A i \in DOMAIN page : page[i] = page[1] THEN [kind |-> "Same", value |-> page[1]]
    ELSE [kind |-> "Compressed", data |-> compressed]

\* write_page: the entry for a page that compress turned into compressed.
Entry(page, compressed) ==
    IF \A i \in DOMAIN page : page[i] = 0 THEN [kind |-> "Zero"]
    ELSE IF \A i \in DOMAIN page : page[i] = page[1] THEN [kind |-> "Same", value |-> page[1]]
    ELSE IF Len(compressed) >= PAGE_SIZE - PAGE_SIZE \div 8
    THEN [kind |-> "Uncompressed", data |-> page]
    ELSE [kind |-> "Compressed", data |-> compressed]

\* read_page, for an entry.
Contents(e) ==
    CASE e.kind \in {"Empty", "Zero"} -> [i \in 1 .. PAGE_SIZE |-> 0]
      [] e.kind = "Same" -> [i \in 1 .. PAGE_SIZE |-> e.value]
      [] e.kind = "Uncompressed" -> e.data
      [] e.kind = "Compressed" -> decompress_lz4(e.data, PAGE_SIZE)

------------------------------------------------------------------------------
\* Positions stay inside the page, whatever length a match has, and every
\* number that is pushed onto the output fits a byte.
TypeOK ==
    /\ anchor \in 0 .. ip /\ ip \in 0 .. Len(input)
    /\ \A h \in DOMAIN hash_table : hash_table[h] \in 0 .. ip
    /\ \A i \in DOMAIN output : output[i] \in 0 .. ByteMax
    /\ at \in {"scan", "done"}

\* The invariant of the compressor's loop: what has been emitted decompresses to
\* exactly the input before the anchor, for literal runs and matches of every
\* length, extended ones and overlapping ones included.
EmittedDecodes ==
    at = "scan" => decompress_lz4(output, PAGE_SIZE) = Slice(input, 0, anchor)

\* A page reads back as it was written, whichever entry write_page chose for it,
\* although a page that compress returned unchanged is no LZ4 data at all.
ReadsBack ==
    at = "done" => Contents(Entry(input, output)) = input

\* The compressor's loop ends for every page.
Terminates == <>(at = "done")

==============================================================================
