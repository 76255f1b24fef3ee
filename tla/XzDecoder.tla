------------------------------ MODULE XzDecoder ------------------------------
(***************************************************************************)
(* decode::xz::decode_stream: the header, the blocks, the index and the    *)
(* footer of a stream, with the counters that relate them.  Each handler   *)
(* takes what it finds in the stream, in the terms of XzEncoder; what the  *)
(* LZMA2 decoder makes of a block is part of it.  A decoder that fails     *)
(* does so at once: which of several errors it reports is left out.        *)
(***************************************************************************)
EXTENDS XzEncoder, Sums

CONSTANTS
    Methods,      \* the check methods considered, "unknown" among them
    HeaderSizes,  \* the block header_size bytes considered
    PackedSizes,  \* the bytes the LZMA2 decoder takes of a block
    Sizes,        \* the bytes it yields
    DeclaredSizes, \* the sizes in a block header considered
    MaxBlocks,    \* bound: blocks of a stream
    SinkMayFail   \* the output sink may return an error

ASSUME MethodAssumption == Methods \subseteq {"none", "crc32", "crc64", "sha256", "unknown"}
ASSUME SizeAssumption ==
    /\ HeaderSizes \subseteq 1..255 /\ PackedSizes \subseteq Nat \ {0}
    /\ Sizes \subseteq Nat /\ DeclaredSizes \subseteq Nat
    /\ MaxBlocks \in Nat /\ SinkMayFail \in BOOLEAN

VARIABLES
    pc,          \* what is read next, "ok" or "failed"
    method,      \* header.stream_flags.check_method
    count,       \* count_input.count()
    block,       \* the header of the block that is read
    unpacked,    \* its tmpbuf.len()
    records,     \* records
    index_size,  \* index_size
    output,      \* what the sink has received, block by block
    pos,         \* history: bytes of the stream read
    seen         \* history: the blocks, where the index starts, what it
                 \* says, and the footer

vars == <<pc, method, count, block, unpacked, records, index_size, output, pos, seen>>

Init ==
    /\ pc = "header" /\ method = "none" /\ count = 0 /\ block = <<>> /\ unpacked = 0
    /\ records = <<>> /\ index_size = 0 /\ output = <<>> /\ pos = 0
    /\ seen = [blocks |-> <<>>, at |-> 0, records |-> <<>>, backward |-> 0,
               method |-> "none"]

Takes(n) == count' = count + n /\ pos' = pos + n

Fails ==
    /\ pc' = "failed"
    /\ UNCHANGED <<method, count, block, unpacked, records, index_size, output, pos, seen>>

\* The stream ends.
Truncated == pc \notin {"ok", "failed"} /\ Fails

\* A slip for Header: any flags are taken.
HeaderAnyFlags(h) ==
    /\ pc = "header"
    /\ IF h.magic /\ h.crc
       THEN /\ pc' = "next" /\ method' = h.method /\ pos' = pos + 12
            /\ UNCHANGED <<count, block, unpacked, records, index_size, output, seen>>
       ELSE Fails

\* StreamHeader::parse: 12 bytes.
Header(h) ==
    /\ pc = "header"
    /\ IF h.magic /\ h.crc /\ h.method # "unknown"
       THEN /\ pc' = "next" /\ method' = h.method /\ pos' = pos + 12
            /\ UNCHANGED <<count, block, unpacked, records, index_size, output, seen>>
       ELSE Fails

-----------------------------------------------------------------------------
(* Blocks *)

\* The bytes of the fields of a block header after its size: flags, sizes and,
\* for each filter, its id, the size of its properties and these.
Fields(h) ==
    1 + Total([i \in 1..Len(h.packed) |-> Multibyte(h.packed[i])])
      + Total([i \in 1..Len(h.unpacked) |-> Multibyte(h.unpacked[i])])
      + Total([i \in 1..Len(h.filters) |-> 1 + Multibyte(h.filters[i]) + h.filters[i]])
      + h.longer

\* read_block_header, on 4 * size - 1 bytes, and the checksum behind them.
BlockHeader(h) ==
    /\ pc = "next"
    /\ IF /\ ~h.reserved /\ h.known
          /\ Fields(h) <= 4 * h.size - 1 /\ h.zero
          /\ h.crc
       THEN /\ pc' = "block" /\ block' = h
            /\ count' = 4 * h.size + 4 /\ pos' = pos + 4 * h.size + 4
            /\ UNCHANGED <<method, unpacked, records, index_size, output, seen>>
       ELSE Fails

\* decode_filter, for every filter: the first takes d.packed bytes of the
\* stream, the last one yields d.unpacked.
BlockData(d) ==
    /\ pc = "block"
    /\ IF /\ d.good /\ \A i \in 1..Len(block.filters) : block.filters[i] = 1
          /\ block.packed \in {<<>>, <<d.packed>>}
          /\ block.unpacked \in {<<>>, <<d.unpacked>>}
       THEN /\ pc' = "end" /\ unpacked' = d.unpacked /\ Takes(d.packed)
            /\ seen' = [seen EXCEPT !.blocks = Append(@,
                          [header |-> 4 * block.size + 4, packed |-> d.packed,
                           unpacked |-> d.unpacked])]
            /\ UNCHANGED <<method, block, records, index_size, output>>
       ELSE Fails

CheckSize == [none |-> 0, crc32 |-> 4, crc64 |-> 8]

\* A slip for Record: the padding is part of the block.
RecordWhole(padding) ==
    [unpadded |-> count + padding + CheckSize[method], unpacked |-> unpacked]

\* The record of a block that ends with padding: what has been read of it since
\* its header_size, without the padding.
Record(padding) ==
    [unpadded |-> (count + padding + CheckSize[method]) - padding, unpacked |-> unpacked]

\* validate_block_check
Verifies(check) == method # "sha256" /\ check

Written(n, check) == Append(output, [size |-> n, verified |-> Verifies(check)])

\* A slip for BlockEnd: the output is written, and then it is verified.
BlockEndLate(p, check) ==
    /\ pc = "end"
    /\ output' = Written(unpacked, check)
    /\ IF p.zero /\ p.bytes = Padding(count) /\ Verifies(check)
       THEN /\ pc' = "next" /\ records' = Append(records, Record(p.bytes))
            /\ Takes(p.bytes + CheckSize[method])
       ELSE pc' = "failed" /\ UNCHANGED <<records, count, pos>>
    /\ block' = <<>> /\ unpacked' = 0
    /\ UNCHANGED <<method, index_size, seen>>

\* The padding and the check; then the output is written and the block is
\* recorded.  The sink may fail, before or after it has taken the output.
BlockEnd(p, check) ==
    /\ pc = "end"
    /\ IF p.zero /\ p.bytes = Padding(count) /\ Verifies(check)
       THEN \/ /\ pc' = "next" /\ output' = Written(unpacked, check)
               /\ records' = Append(records, Record(p.bytes))
               /\ Takes(p.bytes + CheckSize[method])
               /\ block' = <<>> /\ unpacked' = 0
               /\ UNCHANGED <<method, index_size, seen>>
            \/ /\ SinkMayFail /\ pc' = "failed"
               /\ \E n \in {0, unpacked} : output' = Written(n, check)
               /\ Takes(p.bytes + CheckSize[method])
               /\ UNCHANGED <<method, block, unpacked, records, index_size, seen>>
       ELSE Fails

-----------------------------------------------------------------------------
(* The index and the footer *)

\* The bytes of the index up to its padding.
IndexBytes(x) ==
    1 + Multibyte(Len(x.records)) + x.longer
      + Total([i \in 1..Len(x.records) |->
                 Multibyte(x.records[i].unpadded) + Multibyte(x.records[i].unpacked)])

\* A slip for IndexSize: the index is measured without its checksum.
IndexSizeShort(x) == IndexBytes(x) + Padding(IndexBytes(x))

IndexSize(x) == IndexBytes(x) + Padding(IndexBytes(x)) + 4

\* check_index
Index(x) ==
    /\ pc = "next"
    /\ IF /\ x.records = records
          /\ x.padding.zero /\ x.padding.bytes = Padding(IndexBytes(x)) /\ x.crc
       THEN /\ pc' = "footer" /\ index_size' = IndexSize(x)
            /\ pos' = pos + IndexBytes(x) + Padding(IndexBytes(x)) + 4
            /\ seen' = [seen EXCEPT !.at = pos, !.records = x.records]
            /\ UNCHANGED <<method, count, block, unpacked, records, output>>
       ELSE Fails

\* A slip for Footer: the flags are not compared.
FooterAnyFlags(f) ==
    /\ pc = "footer"
    /\ IF /\ index_size % Word = ((f.backward + 1) * 4) % Word
          /\ f.method # "unknown" /\ f.crc /\ f.magic /\ f.eof
       THEN /\ pc' = "ok" /\ pos' = pos + 12
            /\ seen' = [seen EXCEPT !.backward = f.backward, !.method = f.method]
            /\ UNCHANGED <<method, count, block, unpacked, records, index_size, output>>
       ELSE Fails

\* The footer, with the arithmetic of a u32 (backward_size + 1 may wrap, or
\* panic, which is a failure too), and the end of the input.
Footer(f) ==
    /\ pc = "footer"
    /\ IF /\ index_size % Word = ((f.backward + 1) * 4) % Word
          /\ f.method = method /\ f.crc /\ f.magic /\ f.eof
       THEN /\ pc' = "ok" /\ pos' = pos + 12
            /\ seen' = [seen EXCEPT !.backward = f.backward, !.method = f.method]
            /\ UNCHANGED <<method, count, block, unpacked, records, index_size, output>>
       ELSE Fails

-----------------------------------------------------------------------------
(* Any stream *)

Headers == [magic : BOOLEAN, method : Methods, crc : BOOLEAN]

Maybe(S) == {<<>>} \cup {<<v>> : v \in S}

\* One flaw at a time.
BlockHeaders ==
    [size : HeaderSizes, reserved : {FALSE}, packed : Maybe(DeclaredSizes),
     unpacked : Maybe(DeclaredSizes), filters : {<<1>>, <<1, 1>>, <<0>>}, longer : {0, 1},
     known : {TRUE}, zero : {TRUE}, crc : {TRUE}]

Flawed(h) == {[h EXCEPT !.reserved = TRUE], [h EXCEPT !.known = FALSE],
              [h EXCEPT !.zero = FALSE], [h EXCEPT !.crc = FALSE]}

Datas == [good : BOOLEAN, packed : PackedSizes, unpacked : Sizes]

Paddings(n) == [bytes : {Padding(n)}, zero : BOOLEAN]

\* Records that are right, that lack one or have a wrong size.
NearRecords ==
    {records, SubSeq(records, 1, Len(records) - 1)}
      \cup {[records EXCEPT ![i].unpadded = @ + 1] : i \in 1..Len(records)}
      \cup {[records EXCEPT ![i].unpacked = @ + 1] : i \in 1..Len(records)}

Indexes ==
    {[records |-> r, longer |-> n, crc |-> c,
      padding |-> [bytes |-> Padding(IndexBytes([records |-> r, longer |-> n])), zero |-> z]] :
         r \in NearRecords, n \in {0, 1}, c \in BOOLEAN, z \in BOOLEAN}

\* Footers whose backward_size is right, off by one, or right but for the bits
\* that are shifted out.
Footers ==
    LET right == index_size \div 4 - 1
    IN  [backward : {right, right + 1, right + Word \div 4, Word - 1},
         method : Methods, crc : BOOLEAN, magic : BOOLEAN, eof : BOOLEAN]

\* A stream that has ended, one way or the other, stays as it is.
Ended == pc \in {"ok", "failed"} /\ UNCHANGED vars

Next ==
    \/ Truncated \/ Ended
    \/ \E h \in Headers : Header(h)
    \/ \E h \in BlockHeaders : \E g \in {h} \cup Flawed(h) :
          Len(records) < MaxBlocks /\ BlockHeader(g)
    \/ \E d \in Datas : BlockData(d)
    \/ \E p \in Paddings(count), check \in BOOLEAN : BlockEnd(p, check)
    \/ \E x \in Indexes : Index(x)
    \/ \E f \in Footers : Footer(f)

Spec == Init /\ [][Next]_vars

-----------------------------------------------------------------------------
(* Properties *)

\* Type invariant: a check method that is not known gets no further.
TypeOK ==
    /\ pc \in {"header", "next", "block", "end", "footer", "ok", "failed"}
    /\ method \in {"none"} \cup (Methods \ {"unknown"})
    /\ count \in Nat /\ unpacked \in Nat /\ index_size \in Nat /\ pos \in Nat
    /\ Len(records) <= Len(seen.blocks)

\* Blocks, index and footer start at multiples of four bytes, although each
\* is padded by a count of its own that starts at 0.
Aligned == pc \in {"next", "footer", "ok"} => pos % 4 = 0

\* A record tells the size of its block with header and check, without the
\* padding, and what it yields.
RecordsTrue ==
    \A i \in 1..Len(records) :
        records[i] = [unpadded |-> seen.blocks[i].header + seen.blocks[i].packed
                                     + CheckSize[method],
                      unpacked |-> seen.blocks[i].unpacked]

\* Where what follows the blocks of these records starts, each padded, behind
\* the header of the stream.
After(recs) ==
    12 + Total([i \in 1..Len(recs) |-> recs[i].unpadded + Padding(recs[i].unpadded)])

\* A stream that is accepted can be read from its end: the footer has the
\* flags of the header and, but for the bits that are shifted out, leads back
\* to where the index starts; the index tells where each block starts.
FoundFromEnd ==
    pc = "ok" =>
        /\ seen.method = method
        /\ ((seen.backward + 1) * 4) % Word = ((pos - 12) - seen.at) % Word
        /\ After(seen.records) = seen.at

\* The sink receives the output of verified blocks only, each once and before
\* the next block is looked at, whatever becomes of the stream later.
OutputVerified ==
    /\ \A i \in 1..Len(output) : output[i].verified
    /\ \A i \in 1..Len(records) : output[i].size = records[i].unpacked
    /\ Len(output) > Len(records) => pc = "failed"

=============================================================================
