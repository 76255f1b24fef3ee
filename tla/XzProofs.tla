------------------------------ MODULE XzProofs ------------------------------
(***************************************************************************)
(* The XZ decoder: what it accepts is consistent, and its output verified, *)
(* for every set of sizes, number of blocks and width of a word; and it    *)
(* accepts what the encoder writes.                                        *)
(***************************************************************************)
EXTENDS XzRoundTrip, RecursionLemmas

-----------------------------------------------------------------------------
(* Paddings and sizes *)

\* A padding is of three bytes at most and leads to a multiple of four.
LEMMA PaddingPads ==
    ASSUME NEW n \in Nat
    PROVE  Padding(n) \in 0..3 /\ (n + Padding(n)) % 4 = 0
BY DEF Padding

\* A number that is padded.
LEMMA PaddedNat ==
    ASSUME NEW n \in Nat
    PROVE  n + Padding(n) \in Nat /\ (n + Padding(n)) % 4 = 0
<1>1. Padding(n) \in 0..3
  BY PaddingPads
<1> QED
  BY <1>1, PaddingPads

\* Whole words do not change the padding.
LEMMA PaddingOfMore ==
    ASSUME NEW n \in Nat, NEW k \in {0, 4, 8}
    PROVE  Padding(n + k) = Padding(n)
BY DEF Padding

LEMMA MultibyteSize ==
    ASSUME NEW v
    PROVE  Multibyte(v) \in 1..10
<1> DEFINE T == {n \in 1..10 : v < 128 ^ n \/ n = 10}
<1>1. T \in SUBSET Nat /\ T # {}
  <2>1. 10 \in T
    OBVIOUS
  <2> QED
    BY <2>1
<1>2. \A n \in T : n \in 1..10 /\ (v < 128 ^ n \/ n = 10)
  OBVIOUS
<1>3. \A n \in 1..10 : n \notin T => ~ (v < 128 ^ n)
  OBVIOUS
<1> HIDE DEF T
<1>4. PICK n \in T : \A m \in T : n <= m
  BY <1>1, LeastElement
<1>5. \A m \in 1..(n - 1) : ~ (v < 128 ^ m)
  <2>1. ASSUME NEW m \in 1..(n - 1) PROVE ~ (v < 128 ^ m)
    <3>1. m \in 1..10 /\ ~ (n <= m)
      BY <1>2
    <3> QED
      BY <3>1, <1>3, <1>4
  <2> QED
    BY <2>1
<1>6. \E k \in 1..10 : (v < 128 ^ k \/ k = 10) /\ \A m \in 1..(k - 1) : ~ (v < 128 ^ m)
  BY <1>2, <1>5
<1> QED
  BY <1>6, Zenon DEF Multibyte

RecordOf == [unpadded : Nat, unpacked : Nat]
BlockOf  == [header : Nat, packed : Nat, unpacked : Nat]
OutputOf == [size : Nat, verified : BOOLEAN]

\* The blocks end at a multiple of four, and the next one is padded to end at
\* the next.
LEMMA AfterNone == After(<<>>) = 12
<1>1. [i \in 1..Len(<<>>) |-> <<>>[i].unpadded + Padding(<<>>[i].unpadded)] = <<>>
  OBVIOUS
<1> QED
  BY <1>1, TotalOfNone DEF After


LEMMA PaddedSizes ==
    ASSUME NEW recs \in Seq(RecordOf)
    PROVE  [i \in 1..Len(recs) |-> recs[i].unpadded + Padding(recs[i].unpadded)] \in Seq(Nat)
<1>1. ASSUME NEW i \in 1..Len(recs)
      PROVE  recs[i].unpadded + Padding(recs[i].unpadded) \in Nat
  <2>1. recs[i] \in RecordOf
    OBVIOUS
  <2>2. recs[i].unpadded \in Nat
    BY <2>1 DEF RecordOf
  <2> QED
    BY <2>2, PaddedNat
<1>2. Len(recs) \in Nat
  OBVIOUS
<1> QED
  BY <1>1, <1>2

LEMMA AfterMore ==
    ASSUME NEW recs \in Seq(RecordOf), NEW r \in RecordOf
    PROVE  /\ After(recs) \in Nat
           /\ After(Append(recs, r)) = After(recs) + (r.unpadded + Padding(r.unpadded))
<1> DEFINE s == [i \in 1..Len(recs) |-> recs[i].unpadded + Padding(recs[i].unpadded)]
           more == Append(recs, r)
           t == [i \in 1..Len(more) |-> more[i].unpadded + Padding(more[i].unpadded)]
           v == r.unpadded + Padding(r.unpadded)
<1>1. s \in Seq(Nat)
  BY PaddedSizes
<1>2. v \in Nat
  <2>1. r.unpadded \in Nat
    BY DEF RecordOf
  <2> QED
    BY <2>1, PaddedNat
<1>3. /\ Len(more) = Len(recs) + 1 /\ Len(recs) \in Nat /\ more[Len(recs) + 1] = r
      /\ \A i \in 1..Len(recs) : more[i] = recs[i]
  OBVIOUS
<1>4. t = Append(s, v)
  <2>1. Len(s) = Len(recs) /\ DOMAIN t = 1..(Len(recs) + 1)
    BY <1>3
  <2>2. Append(s, v) \in [1..(Len(recs) + 1) -> Nat]
    <3>1. Len(s) = Len(recs) /\ s \in Seq(Nat) /\ v \in Nat
      BY <1>1, <1>2, <2>1
    <3> HIDE DEF s, v
    <3>2. Append(s, v) \in Seq(Nat) /\ Len(Append(s, v)) = Len(recs) + 1
      BY <3>1
    <3>3. \A q \in Seq(Nat) : q \in [1..Len(q) -> Nat]
      OBVIOUS
    <3> QED
      BY <3>2, <3>3
  <2>3. \A i \in 1..(Len(recs) + 1) : t[i] = Append(s, v)[i]
    BY <1>1, <1>2, <1>3, <2>1
  <2>4. t = [i \in 1..(Len(recs) + 1) |-> t[i]]
    BY <2>1
  <2>5. Append(s, v) = [i \in 1..(Len(recs) + 1) |-> Append(s, v)[i]]
    BY <2>2
  <2> HIDE DEF v, t, s
  <2> QED
    BY <2>3, <2>4, <2>5
<1> HIDE DEF s, t, v, more
<1>5. Total(s) \in Nat /\ Total(t) = Total(s) + v
  BY <1>1, <1>2, <1>4, TotalOfMore
<1>6. After(recs) = 12 + Total(s) /\ After(Append(recs, r)) = 12 + Total(t)
  BY Zenon DEF After, s, t, more
<1>7. After(recs) \in Nat /\ After(Append(recs, r)) = After(recs) + v
  BY <1>2, <1>5, <1>6
<1> QED
  BY <1>7 DEF v

LEMMA AfterAligned ==
    ASSUME NEW recs \in Seq(RecordOf)
    PROVE  After(recs) \in Nat /\ After(recs) % 4 = 0
<1> DEFINE n == Len(recs)
           P == {k \in 0..n : After(SubSeq(recs, 1, k)) % 4 = 0}
<1>1. n \in Nat
  OBVIOUS
<1>2. 0 \in P
  <2>1. SubSeq(recs, 1, 0) = <<>> /\ 0 \in 0..n
    BY <1>1
  <2>2. After(<<>>) % 4 = 0
    BY AfterNone
  <2> HIDE DEF n
  <2> QED
    BY <2>1, <2>2
<1>3. ASSUME NEW k \in 1..n, k - 1 \in P PROVE k \in P
  <2> DEFINE s == SubSeq(recs, 1, k - 1)
             r == recs[k]
  <2>1. s \in Seq(RecordOf) /\ r \in RecordOf /\ SubSeq(recs, 1, k) = Append(s, r)
    OBVIOUS
  <2>2. After(s) % 4 = 0
    BY <1>3
  <2> HIDE DEF s, r
  <2>3. r.unpadded \in Nat
    BY <2>1 DEF RecordOf
  <2>4. After(s) \in Nat /\ After(Append(s, r)) = After(s) + (r.unpadded + Padding(r.unpadded))
    BY <2>1, AfterMore
  <2> DEFINE v == r.unpadded + Padding(r.unpadded)
  <2>5. v % 4 = 0 /\ v \in Nat
    BY <2>3, PaddedNat
  <2> HIDE DEF v
  <2>6. After(Append(s, r)) % 4 = 0
    BY <2>2, <2>4, <2>5 DEF v
  <2>7. After(SubSeq(recs, 1, k)) % 4 = 0
    BY <2>1, <2>6
  <2> QED
    BY <2>7
<1>4. \A k \in P : After(SubSeq(recs, 1, k)) % 4 = 0
  OBVIOUS
<1>5. recs = SubSeq(recs, 1, n)
  OBVIOUS
<1>6. After(recs) \in Nat
  <2>1. [unpadded |-> 0, unpacked |-> 0] \in RecordOf
    BY DEF RecordOf
  <2> QED
    BY <2>1, AfterMore
<1> HIDE DEF P, n
<1>7. 0..n \subseteq P
  BY <1>1, <1>2, <1>3, InductionUpTo
<1>8. After(SubSeq(recs, 1, n)) % 4 = 0
  BY <1>1, <1>4, <1>7
<1> QED
  BY <1>5, <1>6, <1>8

\* The bytes of an index are a number.
LEMMA IndexBytesNat ==
    ASSUME NEW x, x.longer \in Nat, x.records \in Seq(RecordOf)
    PROVE  IndexBytes(x) \in Nat
<1> DEFINE n == Len(x.records)
           s == [i \in 1..n |-> Multibyte(x.records[i].unpadded) + Multibyte(x.records[i].unpacked)]
<1>1. n \in Nat
  OBVIOUS
<1>2. \A v : Multibyte(v) \in 1..10
  BY MultibyteSize
<1>3. s \in Seq(Nat)
  <2> HIDE DEF n
  <2>1. s \in [1..n -> Nat]
    BY <1>2
  <2> QED
    BY <1>1, <2>1
<1>4. Total(s) \in Nat
  <2> HIDE DEF s
  <2> QED
    BY <1>3, TotalOfMore, 0 \in Nat
<1>5. IndexBytes(x) = 1 + Multibyte(n) + x.longer + Total(s)
  BY Zenon DEF IndexBytes
<1> HIDE DEF s, n
<1>6. Multibyte(n) \in Nat
  BY <1>2
<1> QED
  BY <1>4, <1>5, <1>6

-----------------------------------------------------------------------------
(* The inductive invariant *)

Methods4 == {"none", "crc32", "crc64", "sha256"}

SeenOf ==
    [blocks : Seq(BlockOf), at : Nat, records : Seq(RecordOf), backward : Int, method : Methods4]

Types ==
    /\ TypeOK
    /\ method \in Methods4
    /\ records \in Seq(RecordOf) /\ output \in Seq(OutputOf) /\ seen \in SeenOf
    /\ pc = "block" => block.size \in Nat

\* What the sink has, the records and the blocks go together.
Together ==
    /\ OutputVerified
    /\ pc # "failed" => Len(output) = Len(records)
    /\ Len(records) <= Len(output)
    /\ RecordsTrue /\ Len(records) <= Len(seen.blocks)
    /\ records # <<>> => method # "sha256"
    /\ pc \in {"header", "next", "block", "footer", "ok"} => Len(seen.blocks) = Len(records)

\* Where in the stream the decoder is: what it has counted since the last
\* block it has recorded.
Place ==
    /\ pc = "header" => pos = 0 /\ records = <<>>
    /\ pc = "next"   => pos = After(records)
    /\ pc = "block"  => pos = After(records) + count /\ count = 4 * block.size + 4
    /\ pc = "end"    =>
           /\ pos = After(records) + count
           /\ Len(seen.blocks) = Len(records) + 1
           /\ count = seen.blocks[Len(records) + 1].header + seen.blocks[Len(records) + 1].packed
           /\ unpacked = seen.blocks[Len(records) + 1].unpacked
    /\ pc \in {"footer", "ok"} =>
           /\ seen.at = After(records) /\ seen.records = records
           /\ index_size % 4 = 0
           /\ pos = seen.at + index_size + (IF pc = "ok" THEN 12 ELSE 0)
    /\ pc = "ok" =>
           /\ seen.method = method
           /\ index_size % Word = ((seen.backward + 1) * 4) % Word

IInv == Types /\ Together /\ Place

LEMMA InitHolds == Init => IInv
<1> SUFFICES ASSUME Init PROVE IInv
  OBVIOUS
<1>1. /\ <<>> \in Seq(RecordOf) /\ <<>> \in Seq(OutputOf) /\ <<>> \in Seq(BlockOf)
      /\ Len(<<>>) = 0
  OBVIOUS
<1>2. seen \in SeenOf
  BY <1>1 DEF Init, SeenOf, Methods4
<1>3. Types
  BY <1>1, <1>2 DEF Init, Types, TypeOK, Methods4
<1>4. Together
  BY <1>1 DEF Init, Together, OutputVerified, RecordsTrue
<1>5. Place
  BY DEF Init, Place
<1> QED
  BY <1>3, <1>4, <1>5 DEF IInv

LEMMA FailsKeeps == IInv /\ Fails => IInv'
<1> SUFFICES ASSUME IInv, Fails PROVE IInv'
  OBVIOUS
<1>1. Types'
  BY DEF IInv, Types, TypeOK, Fails
<1>2. Together'
  BY DEF IInv, Together, OutputVerified, RecordsTrue, Fails
<1>3. Place'
  BY DEF Place, Fails
<1> QED
  BY <1>1, <1>2, <1>3 DEF IInv

LEMMA HeaderKeeps ==
    ASSUME IInv, NEW h, h.method \in Methods \cup {"none"}, Header(h)
    PROVE  IInv'
<1>1. CASE Fails
  BY <1>1, FailsKeeps
<1>2. CASE /\ pc = "header" /\ pc' = "next" /\ method' = h.method /\ pos' = pos + 12
           /\ h.method # "unknown"
           /\ UNCHANGED <<count, block, unpacked, records, index_size, output, seen>>
  <2>1. pos' = 12 /\ records = <<>>
    BY <1>2 DEF IInv, Place
  <2>2. method' \in Methods4 /\ method' \in {"none"} \cup (Methods \ {"unknown"})
    BY <1>2, MethodAssumption DEF Methods4
  <2>3. Types'
    BY <1>2, <2>1, <2>2 DEF IInv, Types, TypeOK
  <2>4. Len(seen.blocks) = Len(records) /\ Len(output) = Len(records) /\ Len(records) = 0
    BY <1>2, <2>1 DEF IInv, Together
  <2>5. Together'
    BY <1>2, <2>1, <2>4 DEF Together, OutputVerified, RecordsTrue
  <2>6. Place'
    BY <1>2, <2>1, AfterNone DEF Place
  <2> QED
    BY <2>3, <2>5, <2>6 DEF IInv
<1> QED
  BY <1>1, <1>2 DEF Header

LEMMA BlockHeaderKeeps ==
    ASSUME IInv, NEW h, h.size \in Nat, BlockHeader(h)
    PROVE  IInv'
<1>1. CASE Fails
  BY <1>1, FailsKeeps
<1>2. CASE /\ pc = "next" /\ pc' = "block" /\ block' = h
           /\ count' = 4 * h.size + 4 /\ pos' = pos + 4 * h.size + 4
           /\ UNCHANGED <<method, unpacked, records, index_size, output, seen>>
  <2>1. pos = After(records) /\ pos \in Nat
    BY <1>2 DEF IInv, Place, Types, TypeOK
  <2>2. Types'
    BY <1>2, <2>1 DEF IInv, Types, TypeOK
  <2>3. Together'
    BY <1>2 DEF IInv, Together, OutputVerified, RecordsTrue
  <2>4. Place'
    BY <1>2, <2>1 DEF Place
  <2> QED
    BY <2>2, <2>3, <2>4 DEF IInv
<1> QED
  BY <1>1, <1>2 DEF BlockHeader

\* A field of the history is set; the others stay.
LEMMA SeenBlocks ==
    ASSUME NEW r \in SeenOf, NEW b \in BlockOf
    PROVE  LET q == [r EXCEPT !.blocks = Append(@, b)]
           IN  q \in SeenOf /\ q.blocks = Append(r.blocks, b)
BY DEF SeenOf

LEMMA BlockDataKeeps ==
    ASSUME IInv, NEW d, d.packed \in Nat, d.unpacked \in Nat, BlockData(d)
    PROVE  IInv'
<1>1. CASE Fails
  BY <1>1, FailsKeeps
<1> DEFINE b == [header |-> 4 * block.size + 4, packed |-> d.packed, unpacked |-> d.unpacked]
<1>2. CASE /\ pc = "block" /\ pc' = "end" /\ unpacked' = d.unpacked
           /\ count' = count + d.packed /\ pos' = pos + d.packed
           /\ seen' = [seen EXCEPT !.blocks = Append(@, b)]
           /\ UNCHANGED <<method, block, records, index_size, output>>
  <2>1. /\ seen \in SeenOf /\ block.size \in Nat /\ pos = After(records) + count
        /\ count = 4 * block.size + 4 /\ pos \in Nat /\ count \in Nat
        /\ records \in Seq(RecordOf) /\ Len(seen.blocks) = Len(records)
    BY <1>2 DEF IInv, Types, TypeOK, Place, Together
  <2>2. b \in BlockOf
    BY <2>1 DEF BlockOf
  <2>3. /\ b.header = 4 * block.size + 4 /\ b.packed = d.packed /\ b.unpacked = d.unpacked
    OBVIOUS
  <2> HIDE DEF b
  <2>4. seen' \in SeenOf /\ seen'.blocks = Append(seen.blocks, b)
    BY <1>2, <2>1, <2>2, SeenBlocks
  <2>5. /\ Len(seen'.blocks) = Len(records) + 1 /\ seen'.blocks[Len(records) + 1] = b
        /\ \A i \in 1..Len(records) : seen'.blocks[i] = seen.blocks[i]
    <3>1. seen.blocks \in Seq(BlockOf)
      BY <2>1 DEF SeenOf
    <3> QED
      BY <2>1, <2>2, <2>4, <3>1
  <2>6. Types'
    <3>1. /\ pos' \in Nat /\ count' \in Nat /\ unpacked' \in Nat
          /\ Len(records) <= Len(records) + 1
      BY <1>2, <2>1
    <3>2. TypeOK'
      BY <1>2, <2>5, <3>1 DEF IInv, Types, TypeOK
    <3> QED
      BY <1>2, <2>4, <3>2 DEF IInv, Types
  <2>7. Together'
    <3>1. OutputVerified'
      BY <1>2 DEF IInv, Together, OutputVerified
    <3>2. RecordsTrue'
      BY <1>2, <2>5 DEF IInv, Together, RecordsTrue
    <3> QED
      BY <1>2, <2>1, <2>5, <3>1, <3>2 DEF IInv, Together
  <2>8. After(records) \in Nat
    BY <2>1, AfterAligned
  <2>9. Place'
    <3>1. pos' = After(records) + count'
      BY <1>2, <2>1, <2>8
    <3>2. count' = b.header + b.packed /\ unpacked' = b.unpacked
      BY <1>2, <2>1, <2>3
    <3> QED
      BY <1>2, <2>5, <3>1, <3>2 DEF Place
  <2> QED
    BY <2>6, <2>7, <2>9 DEF IInv
<1> QED
  BY <1>1, <1>2 DEF BlockData, Takes

\* What a block that ends adds.
LEMMA RecordIs ==
    ASSUME IInv, pc = "end", method # "sha256", NEW k \in Nat
    PROVE  /\ CheckSize[method] \in {0, 4, 8}
           /\ Record(k) \in RecordOf
           /\ Record(k).unpadded = count + CheckSize[method] /\ Record(k).unpacked = unpacked
           /\ Padding(Record(k).unpadded) = Padding(count)
<1>1. count \in Nat /\ unpacked \in Nat /\ method \in Methods4
  BY DEF IInv, Types, TypeOK
<1>2. CheckSize[method] \in {0, 4, 8}
  BY <1>1 DEF CheckSize, Methods4
<1>3. Record(k).unpadded = count + CheckSize[method] /\ Record(k).unpacked = unpacked
  <2>1. (count + k + CheckSize[method]) - k = count + CheckSize[method]
    BY <1>1, <1>2
  <2> QED
    BY <2>1 DEF Record
<1>4. Record(k) \in RecordOf
  <2>1. (count + k + CheckSize[method]) - k \in Nat
    BY <1>1, <1>2
  <2> QED
    BY <1>1, <2>1 DEF Record, RecordOf
<1>5. Padding(count + CheckSize[method]) = Padding(count)
  BY <1>1, <1>2, PaddingOfMore
<1> QED
  BY <1>2, <1>3, <1>4, <1>5

\* One more output, verified.
LEMMA OutputGrows ==
    ASSUME IInv, pc = "end", NEW n \in Nat, NEW check \in BOOLEAN, Verifies(check),
           output' = Written(n, check)
    PROVE  /\ output' \in Seq(OutputOf) /\ Len(output') = Len(records) + 1
           /\ \A i \in 1..Len(output') : output'[i].verified
           /\ \A i \in 1..Len(records) : output'[i].size = records[i].unpacked
           /\ output'[Len(records) + 1].size = n
<1> DEFINE o == [size |-> n, verified |-> Verifies(check)]
<1>1. /\ output \in Seq(OutputOf) /\ Len(output) = Len(records)
      /\ \A i \in 1..Len(output) : output[i].verified
      /\ \A i \in 1..Len(records) : output[i].size = records[i].unpacked
  BY DEF IInv, Types, Together, OutputVerified
<1>2. o \in OutputOf /\ o.size = n /\ o.verified
  BY DEF OutputOf, Verifies
<1>3. output' = Append(output, o)
  BY DEF Written
<1> HIDE DEF o
<1>4. /\ output' \in Seq(OutputOf) /\ Len(output') = Len(records) + 1
      /\ output'[Len(records) + 1] = o
      /\ \A i \in 1..Len(records) : output'[i] = output[i]
  BY <1>1, <1>2, <1>3
<1>5. Len(records) \in Nat
  BY <1>1
<1>6. \A i \in 1..Len(output') : output'[i].verified
  BY <1>1, <1>2, <1>4, <1>5
<1> QED
  BY <1>1, <1>2, <1>4, <1>6

LEMMA BlockWritten ==
    ASSUME IInv, NEW p, NEW check \in BOOLEAN, pc = "end", pc' = "next",
           p.bytes = Padding(count), Verifies(check),
           output' = Written(unpacked, check), records' = Append(records, Record(p.bytes)),
           Takes(p.bytes + CheckSize[method]), unpacked' = 0,
           UNCHANGED <<method, index_size, seen>>
    PROVE  IInv'
<1> DEFINE r == Record(p.bytes)
           n == Len(records)
<1>1. /\ count \in Nat /\ unpacked \in Nat /\ pos \in Nat /\ records \in Seq(RecordOf)
      /\ seen \in SeenOf /\ pos = After(records) + count
      /\ Len(seen.blocks) = n + 1 /\ n \in Nat
      /\ count = seen.blocks[n + 1].header + seen.blocks[n + 1].packed
      /\ unpacked = seen.blocks[n + 1].unpacked
  BY DEF IInv, Types, TypeOK, Place
<1>2. method # "sha256" /\ p.bytes \in 0..3
  BY <1>1, PaddingPads DEF Verifies
<1>3. /\ CheckSize[method] \in {0, 4, 8} /\ r \in RecordOf
      /\ r.unpadded = count + CheckSize[method] /\ r.unpacked = unpacked
      /\ Padding(r.unpadded) = Padding(count)
  BY <1>2, RecordIs
<1> HIDE DEF r
<1>4. /\ records' = Append(records, r) /\ records' \in Seq(RecordOf) /\ Len(records') = n + 1
      /\ records'[n + 1] = r /\ \A i \in 1..n : records'[i] = records[i]
  BY <1>1, <1>3 DEF r
<1> HIDE DEF n
<1>5. After(records) \in Nat /\ After(records') = After(records) + (r.unpadded + Padding(r.unpadded))
  BY <1>1, <1>3, <1>4, AfterMore
<1>6. pos' = After(records') /\ pos' \in Nat /\ count' \in Nat
  <2> DEFINE c == CheckSize[method]
             z == p.bytes
  <2>1. c \in Nat /\ z \in Nat
    BY <1>2, <1>3
  <2>2. After(records') = After(records) + ((count + c) + z)
    BY <1>3, <1>5
  <2>3. pos' = pos + (z + c) /\ count' = count + (z + c)
    BY DEF Takes
  <2> HIDE DEF c, z
  <2>4. count \in Nat /\ pos = After(records) + count /\ pos \in Nat /\ After(records) \in Nat
    BY <1>1, <1>5
  <2>5. pos' \in Nat /\ count' \in Nat
    BY <2>1, <2>3, <2>4
  <2>6. pos' = After(records')
    BY <2>1, <2>2, <2>3, <2>4
  <2> QED
    BY <2>5, <2>6
<1>7. /\ output' \in Seq(OutputOf) /\ Len(output') = n + 1
      /\ \A i \in 1..Len(output') : output'[i].verified
      /\ \A i \in 1..n : output'[i].size = records[i].unpacked
      /\ output'[n + 1].size = unpacked
  BY <1>1, OutputGrows DEF n
<1>8. Types'
  BY <1>1, <1>4, <1>6, <1>7 DEF IInv, Types, TypeOK
<1>9. Together'
  <2>1. \A i \in 1..(n + 1) : output'[i].size = records'[i].unpacked
    <3>1. ASSUME NEW i \in 1..(n + 1) PROVE output'[i].size = records'[i].unpacked
      <4>1. i = n + 1 \/ i \in 1..n
        BY <1>1
      <4> QED
        BY <1>3, <1>4, <1>7, <4>1
    <3> QED
      BY <3>1
  <2>2. OutputVerified'
    BY <1>4, <1>7, <2>1 DEF OutputVerified
  <2>3. r = [unpadded |-> count + CheckSize[method], unpacked |-> unpacked]
    BY <1>3 DEF RecordOf
  <2>4. records'[n + 1] = [unpadded |-> seen.blocks[n + 1].header + seen.blocks[n + 1].packed
                                          + CheckSize[method],
                           unpacked |-> seen.blocks[n + 1].unpacked]
    BY <1>1, <1>4, <2>3
  <2>5. \A i \in 1..n :
            records'[i] = [unpadded |-> seen.blocks[i].header + seen.blocks[i].packed
                                          + CheckSize[method],
                           unpacked |-> seen.blocks[i].unpacked]
    BY <1>4 DEF IInv, Together, RecordsTrue, n
  <2>6. RecordsTrue'
    BY <1>1, <1>4, <2>4, <2>5 DEF RecordsTrue
  <2> QED
    BY <1>1, <1>2, <1>4, <1>7, <2>2, <2>6 DEF Together
<1>10. Place'
  BY <1>6 DEF Place
<1> QED
  BY <1>8, <1>9, <1>10 DEF IInv

\* The sink fails: there is an output without a record.
LEMMA SinkFails ==
    ASSUME IInv, NEW p, NEW check \in BOOLEAN, pc = "end", pc' = "failed",
           p.bytes = Padding(count), Verifies(check),
           NEW n \in {0, unpacked}, output' = Written(n, check),
           Takes(p.bytes + CheckSize[method]),
           UNCHANGED <<method, block, unpacked, records, index_size, seen>>
    PROVE  IInv'
<1>1. count \in Nat /\ unpacked \in Nat /\ pos \in Nat
  BY DEF IInv, Types, TypeOK
<1>2. method # "sha256" /\ p.bytes \in 0..3
  BY <1>1, PaddingPads DEF Verifies
<1>3. CheckSize[method] \in {0, 4, 8}
  BY <1>2, RecordIs
<1>4. count' \in Nat /\ pos' \in Nat
  BY <1>1, <1>2, <1>3 DEF Takes
<1>5. /\ output' \in Seq(OutputOf) /\ Len(output') = Len(records) + 1
      /\ \A i \in 1..Len(output') : output'[i].verified
      /\ \A i \in 1..Len(records) : output'[i].size = records[i].unpacked
  <2>1. n \in Nat
    BY <1>1
  <2> QED
    BY <2>1, OutputGrows
<1>6. Types'
  BY <1>4, <1>5 DEF IInv, Types, TypeOK
<1>7. Together'
  <2>1. Len(records) \in Nat
    BY DEF IInv, Types
  <2>2. OutputVerified'
    BY <1>5 DEF OutputVerified
  <2>3. RecordsTrue'
    BY DEF IInv, Together, RecordsTrue
  <2>4. Len(records) <= Len(seen.blocks) /\ (records # <<>> => method # "sha256")
    BY DEF IInv, Together
  <2> QED
    BY <1>5, <2>1, <2>2, <2>3, <2>4 DEF Together
<1>8. Place'
  BY DEF Place
<1> QED
  BY <1>6, <1>7, <1>8 DEF IInv

LEMMA BlockEndKeeps ==
    ASSUME IInv, NEW p, NEW check \in BOOLEAN, BlockEnd(p, check)
    PROVE  IInv'
BY BlockWritten, SinkFails, FailsKeeps DEF BlockEnd

LEMMA IndexKeeps ==
    ASSUME IInv, NEW x, x.longer \in Nat, Index(x)
    PROVE  IInv'
<1>1. CASE Fails
  BY <1>1, FailsKeeps
<1>2. CASE /\ pc = "next" /\ pc' = "footer" /\ index_size' = IndexSize(x)
           /\ x.records = records
           /\ pos' = pos + IndexBytes(x) + Padding(IndexBytes(x)) + 4
           /\ seen' = [seen EXCEPT !.at = pos, !.records = x.records]
           /\ UNCHANGED <<method, count, block, unpacked, records, output>>
  <2>1. /\ pos = After(records) /\ pos \in Nat /\ records \in Seq(RecordOf) /\ seen \in SeenOf
        /\ Len(seen.blocks) = Len(records) /\ Len(records) \in Nat
    BY <1>2 DEF IInv, Types, TypeOK, Place, Together
  <2> DEFINE b == IndexBytes(x)
  <2>2. b \in Nat
    BY <1>2, <2>1, IndexBytesNat
  <2>3. index_size' = b + Padding(b) + 4 /\ pos' = pos + b + Padding(b) + 4
    BY <1>2 DEF IndexSize
  <2>4. b + Padding(b) \in Nat /\ (b + Padding(b)) % 4 = 0 /\ Padding(b) \in 0..3
    BY <2>2, PaddedNat, PaddingPads
  <2> HIDE DEF b
  <2>5. /\ index_size' \in Nat /\ index_size' % 4 = 0 /\ pos' \in Nat
        /\ pos' = pos + index_size'
    <3> DEFINE c == b + Padding(b)
    <3>1. c \in Nat /\ c % 4 = 0
      BY <2>4
    <3>2. index_size' = c + 4 /\ pos' = pos + (c + 4)
      <4>1. Padding(b) \in Nat
        BY <2>4
      <4> QED
        BY <2>1, <2>2, <2>3, <4>1
    <3> HIDE DEF c
    <3> QED
      BY <2>1, <3>1, <3>2
  <2>6. /\ seen' \in SeenOf /\ seen'.at = pos /\ seen'.records = records
        /\ seen'.blocks = seen.blocks
    <3>1. seen' = [seen EXCEPT !.at = pos, !.records = records]
      BY <1>2
    <3> QED
      BY <2>1, <3>1 DEF SeenOf
  <2>7. Types'
    BY <1>2, <2>1, <2>5, <2>6 DEF IInv, Types, TypeOK
  <2>8. Together'
    BY <1>2, <2>1, <2>6 DEF IInv, Together, OutputVerified, RecordsTrue
  <2>9. Place'
    BY <1>2, <2>1, <2>5, <2>6 DEF Place
  <2> QED
    BY <2>7, <2>8, <2>9 DEF IInv
<1> QED
  BY <1>1, <1>2 DEF Index

LEMMA FooterKeeps ==
    ASSUME IInv, NEW f, f.backward \in Int, Footer(f)
    PROVE  IInv'
<1>1. CASE Fails
  BY <1>1, FailsKeeps
<1>2. CASE /\ pc = "footer" /\ pc' = "ok" /\ pos' = pos + 12
           /\ index_size % Word = ((f.backward + 1) * 4) % Word /\ f.method = method
           /\ seen' = [seen EXCEPT !.backward = f.backward, !.method = f.method]
           /\ UNCHANGED <<method, count, block, unpacked, records, index_size, output>>
  <2>1. /\ pos = seen.at + index_size /\ pos \in Nat /\ seen \in SeenOf /\ method \in Methods4
        /\ Len(seen.blocks) = Len(records) /\ seen.at = After(records)
        /\ seen.records = records /\ index_size % 4 = 0 /\ index_size \in Nat
        /\ After(records) \in Nat
    BY <1>2, AfterAligned DEF IInv, Types, TypeOK, Place, Together
  <2>2. /\ seen' \in SeenOf /\ seen'.backward = f.backward /\ seen'.method = method
        /\ seen'.at = seen.at /\ seen'.records = seen.records /\ seen'.blocks = seen.blocks
    <3>1. seen' = [seen EXCEPT !.backward = f.backward, !.method = method]
      BY <1>2
    <3> QED
      BY <1>2, <2>1, <3>1 DEF SeenOf
  <2>3. pos' \in Nat /\ pos' = seen'.at + index_size' + 12
    BY <1>2, <2>1, <2>2
  <2>4. Types'
    BY <1>2, <2>1, <2>2, <2>3 DEF IInv, Types, TypeOK
  <2>5. Together'
    BY <1>2, <2>1, <2>2 DEF IInv, Together, OutputVerified, RecordsTrue
  <2>6. Place'
    BY <1>2, <2>1, <2>2, <2>3 DEF Place
  <2> QED
    BY <2>4, <2>5, <2>6 DEF IInv
<1> QED
  BY <1>1, <1>2 DEF Footer

\* What is found in any stream has the types that are asked for above.
LEMMA AnyBlockHeader ==
    ASSUME NEW h \in BlockHeaders, NEW g \in {h} \cup Flawed(h)
    PROVE  g.size \in Nat
BY SizeAssumption DEF BlockHeaders, Flawed

LEMMA NextKeeps == IInv /\ [Next]_vars => IInv'
<1> SUFFICES ASSUME IInv, [Next]_vars PROVE IInv'
  OBVIOUS
<1>1. CASE UNCHANGED vars
  BY <1>1 DEF vars, IInv, Types, TypeOK, Together, OutputVerified, RecordsTrue, Place
<1>2. CASE Truncated
  BY <1>2, FailsKeeps DEF Truncated
<1>3. ASSUME NEW h \in Headers, Header(h) PROVE IInv'
  BY <1>3, HeaderKeeps DEF Headers
<1>4. ASSUME NEW h \in BlockHeaders, NEW g \in {h} \cup Flawed(h), BlockHeader(g) PROVE IInv'
  BY <1>4, AnyBlockHeader, BlockHeaderKeeps
<1>5. ASSUME NEW d \in Datas, BlockData(d) PROVE IInv'
  BY <1>5, BlockDataKeeps, SizeAssumption DEF Datas
<1>6. ASSUME NEW p \in Paddings(count), NEW check \in BOOLEAN, BlockEnd(p, check) PROVE IInv'
  BY <1>6, BlockEndKeeps
<1>7. ASSUME NEW x \in Indexes, Index(x) PROVE IInv'
  <2>1. x.longer \in Nat
    <3>1. PICK r \in NearRecords, n \in {0, 1}, c \in BOOLEAN, z \in BOOLEAN :
              x = [records |-> r, longer |-> n, crc |-> c,
                   padding |-> [bytes |-> Padding(IndexBytes([records |-> r, longer |-> n])),
                                zero |-> z]]
      BY DEF Indexes
    <3> QED
      BY <3>1
  <2> QED
    BY <1>7, <2>1, IndexKeeps
<1>8. ASSUME NEW f \in Footers, Footer(f) PROVE IInv'
  <2>1. index_size \in Nat
    BY DEF IInv, Types, TypeOK
  <2>2. index_size \div 4 - 1 \in Int /\ Word \div 4 \in Int /\ Word - 1 \in Int
    BY <2>1, WordAssumption
  <2>3. f.backward \in Int
    BY <2>2 DEF Footers
  <2> QED
    BY <1>8, <2>3, FooterKeeps
<1> QED
  BY <1>1, <1>2, <1>3, <1>4, <1>5, <1>6, <1>7, <1>8 DEF Next, Ended

LEMMA AlignedFollows == IInv => Aligned
<1> SUFFICES ASSUME IInv, pc \in {"next", "footer", "ok"} PROVE pos % 4 = 0
  BY DEF Aligned
<1>1. records \in Seq(RecordOf) /\ index_size \in Nat
  BY DEF IInv, Types, TypeOK
<1>2. After(records) \in Nat /\ After(records) % 4 = 0
  BY <1>1, AfterAligned
<1>3. CASE pc = "next"
  BY <1>2, <1>3 DEF IInv, Place
<1>4. CASE pc \in {"footer", "ok"}
  <2>1. /\ pos = After(records) + index_size + (IF pc = "ok" THEN 12 ELSE 0)
        /\ index_size % 4 = 0
    BY <1>4 DEF IInv, Place
  <2> QED
    BY <1>1, <1>2, <2>1
<1> QED
  BY <1>3, <1>4

LEMMA FoundFollows == IInv => FoundFromEnd
<1> SUFFICES ASSUME IInv, pc = "ok"
             PROVE  /\ seen.method = method
                    /\ ((seen.backward + 1) * 4) % Word = ((pos - 12) - seen.at) % Word
                    /\ After(seen.records) = seen.at
  BY DEF FoundFromEnd
<1>1. /\ seen.at = After(records) /\ seen.records = records /\ seen.method = method
      /\ pos = seen.at + index_size + 12
      /\ index_size % Word = ((seen.backward + 1) * 4) % Word
  BY DEF IInv, Place
<1>2. seen.at \in Nat /\ index_size \in Nat
  BY <1>1, AfterAligned DEF IInv, Types, TypeOK
<1>3. (pos - 12) - seen.at = index_size
  BY <1>1, <1>2
<1> QED
  BY <1>1, <1>3

\* The decoder by itself: all that is said of it holds on any stream.
THEOREM DecoderConsistent ==
    Spec => [](TypeOK /\ Aligned /\ RecordsTrue /\ FoundFromEnd /\ OutputVerified)
<1>1. IInv => TypeOK /\ RecordsTrue /\ OutputVerified
  BY DEF IInv, Types, Together
<1>2. IInv => Aligned
  BY AlignedFollows
<1>3. IInv => FoundFromEnd
  BY FoundFollows
<1> QED
  BY <1>1, <1>2, <1>3, InitHolds, NextKeeps, PTL DEF Spec

-----------------------------------------------------------------------------
(* The decoder on a stream of the encoder, or on any other *)

\* What the encoder has written has the types that are asked for above.
LEMMA EncodedIs ==
    ASSUME NEW s \in EncodedStreams
    PROVE  \E n \in Nat, c \in Nat :
              \E taken \in IF ShortWrites THEN {1, 2} ELSE {2} : s = Encoded(n, c, taken)
<1>1. PICK n \in InputSizes :
          s \in {Encoded(n, c, taken) :
                    c \in Chunks(n), taken \in IF ShortWrites THEN {1, 2} ELSE {2}}
  BY DEF EncodedStreams
<1>2. PICK c \in Chunks(n), taken \in IF ShortWrites THEN {1, 2} ELSE {2} :
          s = Encoded(n, c, taken)
  BY <1>1
<1>3. n \in Nat
  BY InputAssumption
<1>4. c \in Nat
  <2>1. (n + 65535) \div 65536 \in Nat
    BY <1>3
  <2> QED
    BY <2>1 DEF Chunks
<1> QED
  BY <1>2, <1>3, <1>4

LEMMA FieldsOf ==
    ASSUME NEW n \in Nat, NEW c \in Nat, NEW taken, NEW s, s = Encoded(n, c, taken)
    PROVE  /\ s.header = WriteHeader(taken) /\ s.block = WriteBlock(n, c)
           /\ s.index = WriteIndex(n, c)
           /\ s.footer = WriteFooter(WrittenIndexSize(n, c))
           /\ s.header.method = "none" /\ s.block.header.size = 2
           /\ s.block.data.packed = Lzma2(n, c) /\ s.block.data.unpacked = n
           /\ s.index.longer = 0
           /\ s.footer.backward = (WrittenIndexSize(n, c) \div 4 - 1) % Word
BY DEF Encoded, WriteHeader, WriteBlock, WriteIndex, WriteFooter

LEMMA WrittenSize ==
    ASSUME NEW n \in Nat, NEW c \in Nat
    PROVE  WrittenIndexSize(n, c) \in Nat /\ WrittenIndexSize(n, c) % 4 = 0
<1> DEFINE b == 1 + Multibyte(1) + Multibyte(Unpadded(n, c)) + Multibyte(n)
<1>1. b \in Nat
  <2>1. Multibyte(1) \in Nat /\ Multibyte(Unpadded(n, c)) \in Nat /\ Multibyte(n) \in Nat
    BY MultibyteSize
  <2> QED
    BY <2>1
<1>2. WrittenIndexSize(n, c) = b + Padding(b) + 4
  BY DEF WrittenIndexSize
<1> HIDE DEF b
<1>3. b + Padding(b) \in Nat /\ (b + Padding(b)) % 4 = 0
  BY <1>1, PaddedNat
<1> QED
  BY <1>2, <1>3

LEMMA ReadsKeeps ==
    ASSUME IInv, NEW s \in EncodedStreams, Reads(s)
    PROVE  IInv'
<1>1. PICK n \in Nat, c \in Nat :
          \E taken \in IF ShortWrites THEN {1, 2} ELSE {2} : s = Encoded(n, c, taken)
  BY EncodedIs
<1>2. /\ s.header.method = "none" /\ s.block.header.size = 2
      /\ s.block.data.packed = Lzma2(n, c) /\ s.block.data.unpacked = n
      /\ s.index.longer = 0
      /\ s.footer.backward = (WrittenIndexSize(n, c) \div 4 - 1) % Word
  BY <1>1, FieldsOf
<1>3. Lzma2(n, c) \in Nat
  BY DEF Lzma2
<1>4. s.footer.backward \in Int
  <2>1. WrittenIndexSize(n, c) \div 4 - 1 \in Int
    BY WrittenSize
  <2> QED
    BY <1>2, <2>1, WordAssumption
<1>5. CASE Header(s.header)
  BY <1>2, <1>5, HeaderKeeps
<1>6. CASE BlockHeader(s.block.header)
  BY <1>2, <1>6, BlockHeaderKeeps
<1>7. CASE BlockData(s.block.data)
  BY <1>2, <1>3, <1>7, BlockDataKeeps
<1>8. CASE BlockEnd(s.block.padding, TRUE)
  BY <1>8, BlockEndKeeps
<1>9. CASE Index(s.index)
  BY <1>2, <1>9, IndexKeeps
<1>10. CASE Footer(s.footer)
  BY <1>4, <1>10, FooterKeeps
<1>11. CASE Ended
  BY <1>11, NextKeeps DEF Ended
<1> QED
  BY <1>5, <1>6, <1>7, <1>8, <1>9, <1>10, <1>11 DEF Reads

RTInv == IInv /\ sent \in Maybe(EncodedStreams)

LEMMA RTInductive == RTSpec => []RTInv
<1>1. RTInit => RTInv
  BY InitHolds DEF RTInit, RTInv
<1>2. RTInv /\ [RTNext]_<<vars, sent>> => RTInv'
  <2> SUFFICES ASSUME RTInv, [RTNext]_<<vars, sent>> PROVE RTInv'
    OBVIOUS
  <2>1. CASE UNCHANGED <<vars, sent>>
    BY <2>1, NextKeeps DEF RTInv
  <2>2. CASE DecodesAny
    BY <2>2, NextKeeps DEF DecodesAny, RTInv
  <2>3. CASE DecodesEncoded
    <3>1. sent[1] \in EncodedStreams
      BY <2>3 DEF DecodesEncoded, FromEncoder, RTInv, Maybe
    <3> QED
      BY <2>3, <3>1, ReadsKeeps DEF DecodesEncoded, RTInv
  <2> QED
    BY <2>1, <2>2, <2>3 DEF RTNext
<1> QED
  BY <1>1, <1>2, PTL DEF RTSpec

\* A check method that is not known gets no further than the header, and every
\* number the decoder keeps is one.
THEOREM TypeCorrect == RTSpec => []TypeOK
<1>1. RTInv => TypeOK
  BY DEF RTInv, IInv, Types
<1> QED
  BY <1>1, RTInductive, PTL

\* The sink gets the output of verified blocks only, once, and before the next
\* block is looked at.
THEOREM OutputAlwaysVerified == RTSpec => []OutputVerified
<1>1. RTInv => OutputVerified
  BY DEF RTInv, IInv, Together
<1> QED
  BY <1>1, RTInductive, PTL

\* A record, against which the index is compared, tells what its block was.
THEOREM RecordsAlwaysTrue == RTSpec => []RecordsTrue
<1>1. RTInv => RecordsTrue
  BY DEF RTInv, IInv, Together
<1> QED
  BY <1>1, RTInductive, PTL

\* Every part of a stream starts at a multiple of four bytes.
THEOREM AlwaysAligned == RTSpec => []Aligned
<1>1. RTInv => Aligned
  BY AlignedFollows DEF RTInv
<1> QED
  BY <1>1, RTInductive, PTL

\* The footer and the index of a stream that is accepted lead from its end to
\* its blocks.
THEOREM AlwaysFoundFromEnd == RTSpec => []FoundFromEnd
<1>1. RTInv => FoundFromEnd
  BY FoundFollows DEF RTInv
<1> QED
  BY <1>1, RTInductive, PTL

-----------------------------------------------------------------------------
(* The arithmetic of the footer *)

LEMMA DivMod ==
    ASSUME NEW a \in Int, NEW w \in Nat \ {0}
    PROVE  a = w * (a \div w) + (a % w) /\ a % w \in 0..(w - 1) /\ a \div w \in Int
OBVIOUS

LEMMA RemainderUnique ==
    ASSUME NEW w \in Nat \ {0}, NEW p \in Int, NEW q \in Int,
           NEW r \in 0..(w - 1), NEW s \in 0..(w - 1), w * p + r = w * q + s
    PROVE  r = s
<1> DEFINE d == p - q
<1>1. d \in Int /\ w * d = s - r
  OBVIOUS
<1> HIDE DEF d
<1>2. CASE d >= 1
  <2>1. w * d >= w
    BY <1>1, <1>2
  <2> QED
    BY <2>1, <1>1
<1>3. CASE d <= -1
  <2>1. w * d <= -w
    BY <1>1, <1>3
  <2> QED
    BY <2>1, <1>1
<1>4. CASE d = 0
  BY <1>1, <1>4
<1> QED
  BY <1>1, <1>2, <1>3, <1>4

LEMMA ModShift ==
    ASSUME NEW w \in Nat \ {0}, NEW a \in Int, NEW k \in Int
    PROVE  (a + w * k) % w = a % w
<1> DEFINE x == w * (a \div w)
           y == w * k
           b == a + y
<1>1. a = x + (a % w) /\ a % w \in 0..(w - 1) /\ a \div w \in Int /\ x \in Int
  BY DivMod
<1>2. y \in Int /\ b \in Int
  OBVIOUS
<1>3. b = w * (b \div w) + (b % w) /\ b % w \in 0..(w - 1) /\ b \div w \in Int
  BY <1>2, DivMod
<1>4. w * ((a \div w) + k) = x + y /\ (a \div w) + k \in Int
  BY <1>1
<1>5. w * (b \div w) + (b % w) = w * ((a \div w) + k) + (a % w)
  <2>1. b = a + y
    OBVIOUS
  <2>2. a % w \in Int
    BY <1>1
  <2> HIDE DEF x, y, b
  <2> QED
    BY <1>1, <1>2, <1>3, <1>4, <2>1, <2>2
<1> HIDE DEF b
<1>6. b % w = a % w
  BY <1>1, <1>3, <1>4, <1>5, RemainderUnique
<1> QED
  BY <1>6 DEF b

\* The backward_size the encoder writes passes the decoder's comparison, also
\* where it is cut to a word.
LEMMA BackwardFits ==
    ASSUME NEW size \in Nat, size % 4 = 0
    PROVE  size % Word = ((((size \div 4 - 1) % Word) + 1) * 4) % Word
<1> DEFINE q == size \div 4 - 1
           k == q \div Word
           x == Word * k
<1>1. Word \in Nat \ {0}
  BY WordAssumption
<1>2. q \in Int /\ 4 * (q + 1) = size
  OBVIOUS
<1> HIDE DEF q
<1>3. q = x + (q % Word) /\ q % Word \in Int /\ k \in Int /\ x \in Int
  BY <1>1, <1>2, DivMod
<1> DEFINE j == -4 * k
<1>4. Word * j = -4 * x /\ j \in Int
  BY <1>1, <1>3
<1> HIDE DEF x, j
<1>5. ((q % Word) + 1) * 4 = size + -4 * x
  BY <1>2, <1>3
<1>6. (size + Word * j) % Word = size % Word
  <2>1. size \in Int /\ j \in Int
    BY <1>4
  <2> QED
    BY <1>1, <2>1, ModShift, Zenon
<1> QED
  BY <1>4, <1>5, <1>6 DEF q

-----------------------------------------------------------------------------
(* The round trip *)

\* How far the decoder is in the stream of the encoder for n bytes in c chunks.
Fresh == seen.blocks = <<>> /\ records = <<>> /\ output = <<>>

WrittenRecord(n, c) == [unpadded |-> Unpadded(n, c), unpacked |-> n]

WrittenOutput(n) == <<[size |-> n, verified |-> TRUE]>>

InBlock(n, c) ==
    /\ pc = "block" /\ Fresh /\ method = "none"
    /\ count = 12 /\ block = WriteBlock(n, c).header

AtEnd(n, c) ==
    /\ pc = "end" /\ seen.blocks # <<>> /\ records = <<>> /\ output = <<>>
    /\ method = "none" /\ count = Unpadded(n, c) /\ unpacked = n

AtIndex(n, c) ==
    /\ pc = "next" /\ seen.blocks # <<>> /\ method = "none"
    /\ records = <<WrittenRecord(n, c)>> /\ output = WrittenOutput(n)

AtFooter(n, c) ==
    /\ pc = "footer" /\ method = "none" /\ output = WrittenOutput(n)
    /\ index_size = WrittenIndexSize(n, c)

Along(n, c) ==
    \/ pc = "header" /\ Fresh
    \/ pc = "next" /\ Fresh /\ method = "none"
    \/ InBlock(n, c) \/ AtEnd(n, c) \/ AtIndex(n, c) \/ AtFooter(n, c)
    \/ pc = "ok" /\ output = WrittenOutput(n)
    \/ pc = "failed" /\ records = <<>> /\ Len(output) = 1

\* The decoder has met nothing but what the encoder has written.
Follows(n, c) == sent = <<Encoded(n, c, 2)>> /\ Along(n, c)

LEMMA HeaderFollows ==
    ASSUME NEW n \in Nat, NEW c \in Nat, pc = "header", Fresh, Header(WriteHeader(2))
    PROVE  Along(n, c)'
BY DEF Header, WriteHeader, Along, Fresh

\* The fields of the block header take four bytes of seven.
LEMMA FieldsWritten ==
    ASSUME NEW n \in Nat, NEW c \in Nat
    PROVE  Fields(WriteBlock(n, c).header) <= 7
<1> DEFINE h == WriteBlock(n, c).header
<1>1. /\ h.packed = <<>> /\ h.unpacked = <<>> /\ h.filters = <<1>> /\ h.longer = 0
  BY DEF WriteBlock
<1> HIDE DEF h
<1>2. Multibyte(1) = 1
  <2>1. 1 < 128 ^ 1
    OBVIOUS
  <2>2. \A k \in 1..10 : (\A m \in 1..(k - 1) : ~ (1 < 128 ^ m)) => k = 1
    <3>1. ASSUME NEW k \in 1..10, \A m \in 1..(k - 1) : ~ (1 < 128 ^ m) PROVE k = 1
      <4>1. k # 1 => 1 \in 1..(k - 1)
        OBVIOUS
      <4> QED
        BY <2>1, <3>1, <4>1
    <3> QED
      BY <3>1
  <2>3. 1 \in 1..10 /\ \A m \in 1..(1 - 1) : ~ (1 < 128 ^ m)
    OBVIOUS
  <2>4. \A k \in 1..10 :
            (1 < 128 ^ k \/ k = 10) /\ (\A m \in 1..(k - 1) : ~ (1 < 128 ^ m)) <=> k = 1
    BY <2>1, <2>2, <2>3
  <2>5. Multibyte(1) = CHOOSE k \in 1..10 : k = 1
    BY <2>4 DEF Multibyte
  <2> QED
    BY <2>5
<1>3. /\ [i \in 1..Len(<<>>) |-> Multibyte(<<>>[i])] = <<>>
      /\ [i \in 1..Len(<<1>>) |-> 1 + Multibyte(<<1>>[i]) + <<1>>[i]] = <<3>>
  BY <1>2
<1>4. Total(<<>>) = 0 /\ Total(<<3>>) = 3
  BY TotalOfNone, TotalOfOne
<1>5. Fields(h) = 1 + 0 + 0 + 3 + 0
  BY <1>1, <1>3, <1>4 DEF Fields
<1> QED
  BY <1>5 DEF h

LEMMA BlockHeaderFollows ==
    ASSUME NEW n \in Nat, NEW c \in Nat, pc = "next", Fresh, method = "none",
           BlockHeader(WriteBlock(n, c).header)
    PROVE  Along(n, c)'
<1> DEFINE h == WriteBlock(n, c).header
<1>1. ~ h.reserved /\ h.known /\ h.zero /\ h.crc /\ h.size = 2
  BY DEF WriteBlock
<1>2. Fields(h) <= 4 * h.size - 1
  BY <1>1, FieldsWritten
<1> HIDE DEF h
<1>3. /\ pc' = "block" /\ block' = h /\ count' = 12
      /\ UNCHANGED <<method, unpacked, records, index_size, output, seen>>
  BY <1>1, <1>2 DEF BlockHeader, h
<1> QED
  BY <1>3 DEF Along, InBlock, Fresh, h

LEMMA BlockDataFollows ==
    ASSUME IInv, NEW n \in Nat, NEW c \in Nat, InBlock(n, c),
           BlockData(WriteBlock(n, c).data)
    PROVE  Along(n, c)'
<1> DEFINE d == WriteBlock(n, c).data
           b == [header |-> 4 * block.size + 4, packed |-> d.packed, unpacked |-> d.unpacked]
<1>1. d.good /\ d.packed = Lzma2(n, c) /\ d.unpacked = n
  BY DEF WriteBlock
<1>2. /\ pc = "block" /\ Fresh /\ method = "none" /\ count = 12
      /\ block.packed = <<>> /\ block.unpacked = <<>> /\ block.filters = <<1>>
  BY DEF InBlock, WriteBlock
<1> HIDE DEF d
<1>3. \A i \in 1..Len(block.filters) : block.filters[i] = 1
  BY <1>2
<1>4. /\ pc' = "end" /\ unpacked' = n /\ count' = 12 + Lzma2(n, c)
      /\ seen' = [seen EXCEPT !.blocks = Append(@, b)]
      /\ UNCHANGED <<method, records, output>>
  BY <1>1, <1>2, <1>3 DEF BlockData, Takes, d
<1>5. seen'.blocks # <<>>
  <2>1. b \in BlockOf
    <3>1. block.size = 2 /\ Lzma2(n, c) \in Nat
      BY DEF InBlock, WriteBlock, Lzma2
    <3> QED
      BY <1>1, <3>1 DEF BlockOf
  <2>2. seen \in SeenOf
    BY DEF IInv, Types
  <2> HIDE DEF b
  <2>3. seen'.blocks = Append(seen.blocks, b) /\ seen.blocks \in Seq(BlockOf)
    BY <1>4, <2>1, <2>2, SeenBlocks DEF SeenOf
  <2> QED
    BY <2>1, <2>3
<1> QED
  BY <1>2, <1>4, <1>5 DEF Along, AtEnd, Fresh, Unpadded

LEMMA BlockEndFollows ==
    ASSUME IInv, NEW n \in Nat, NEW c \in Nat, AtEnd(n, c),
           BlockEnd(WriteBlock(n, c).padding, TRUE)
    PROVE  Along(n, c)'
<1> DEFINE p == WriteBlock(n, c).padding
<1>1. p.zero /\ p.bytes = Padding(Unpadded(n, c))
  BY DEF WriteBlock
<1>2. /\ pc = "end" /\ method = "none" /\ count = Unpadded(n, c) /\ unpacked = n
      /\ records = <<>> /\ output = <<>> /\ seen.blocks # <<>>
  BY DEF AtEnd
<1>3. Unpadded(n, c) \in Nat /\ p.bytes \in Nat
  <2>1. Unpadded(n, c) \in Nat
    BY DEF Unpadded, Lzma2
  <2> QED
    BY <1>1, <2>1, PaddingPads
<1>4. Verifies(TRUE) = TRUE
  BY <1>2 DEF Verifies
<1>5. \A k \in Nat : Written(k, TRUE) = <<[size |-> k, verified |-> TRUE]>>
  <2>1. ASSUME NEW e PROVE Append(<<>>, e) = <<e>>
    OBVIOUS
  <2> QED
    BY <1>2, <1>4, <2>1 DEF Written
<1> HIDE DEF p
<1>6. CASE /\ pc' = "next" /\ output' = Written(unpacked, TRUE)
           /\ records' = Append(records, Record(p.bytes))
           /\ UNCHANGED <<method, seen>>
  <2>1. output' = WrittenOutput(n)
    BY <1>2, <1>5, <1>6 DEF WrittenOutput
  <2>2. Record(p.bytes) = WrittenRecord(n, c)
    <3>1. (count + p.bytes + CheckSize[method]) - p.bytes = count
      BY <1>2, <1>3 DEF CheckSize
    <3> QED
      BY <1>2, <3>1 DEF Record, WrittenRecord
  <2>3. records' = <<WrittenRecord(n, c)>>
    BY <1>2, <1>6, <2>2
  <2> QED
    BY <1>2, <1>6, <2>1, <2>3 DEF Along, AtIndex
<1>7. CASE /\ pc' = "failed" /\ \E k \in {0, unpacked} : output' = Written(k, TRUE)
           /\ UNCHANGED records
  <2>1. PICK k \in {0, unpacked} : output' = Written(k, TRUE)
    BY <1>7
  <2>2. k \in Nat
    BY <1>2, <2>1
  <2>3. output' = <<[size |-> k, verified |-> TRUE]>>
    BY <1>5, <2>1, <2>2
  <2>4. Len(output') = 1
    BY <2>3
  <2> QED
    BY <1>2, <1>7, <2>4 DEF Along
<1> QED
  BY <1>1, <1>2, <1>4, <1>6, <1>7 DEF BlockEnd, p

LEMMA IndexFollows ==
    ASSUME NEW n \in Nat, NEW c \in Nat, AtIndex(n, c), Index(WriteIndex(n, c))
    PROVE  Along(n, c)'
<1> DEFINE x == WriteIndex(n, c)
           b == 1 + Multibyte(1) + Multibyte(Unpadded(n, c)) + Multibyte(n)
           v == Multibyte(Unpadded(n, c)) + Multibyte(n)
<1>1. /\ x.records = <<WrittenRecord(n, c)>> /\ x.longer = 0 /\ x.crc
      /\ x.padding.zero /\ x.padding.bytes = Padding(b)
  BY DEF WriteIndex, WrittenRecord
<1>2. pc = "next" /\ method = "none" /\ records = x.records /\ output = WrittenOutput(n)
  BY <1>1 DEF AtIndex
<1>3. IndexBytes(x) = b
  <2>1. /\ Multibyte(1) \in Nat /\ Multibyte(Unpadded(n, c)) \in Nat /\ Multibyte(n) \in Nat
    BY MultibyteSize
  <2>2. [i \in 1..1 |-> Multibyte(x.records[i].unpadded) + Multibyte(x.records[i].unpacked)]
            = <<v>>
    BY <1>1 DEF WrittenRecord
  <2>3. Len(x.records) = 1
    BY <1>1
  <2>4. v \in Nat
    BY <2>1
  <2> HIDE DEF x
  <2>5. IndexBytes(x) = 1 + Multibyte(1) + 0 + Total(<<v>>)
    BY <1>1, <2>2, <2>3 DEF IndexBytes
  <2>6. Total(<<v>>) = v
    <3> HIDE DEF v
    <3> QED
      BY <2>4, TotalOfOne
  <2> QED
    BY <2>1, <2>5, <2>6
<1>4. WrittenIndexSize(n, c) = IndexSize(x)
  BY <1>3 DEF WrittenIndexSize, IndexSize
<1> HIDE DEF x, b
<1>5. pc' = "footer" /\ index_size' = IndexSize(x) /\ UNCHANGED <<method, output>>
  BY <1>1, <1>2, <1>3 DEF Index, x
<1> QED
  BY <1>2, <1>4, <1>5 DEF Along, AtFooter

LEMMA FooterFollows ==
    ASSUME NEW n \in Nat, NEW c \in Nat, AtFooter(n, c),
           Footer(WriteFooter(WrittenIndexSize(n, c)))
    PROVE  Along(n, c)'
<1> DEFINE f == WriteFooter(WrittenIndexSize(n, c))
<1>1. /\ f.crc /\ f.magic /\ f.eof /\ f.method = "none"
      /\ f.backward = (WrittenIndexSize(n, c) \div 4 - 1) % Word
  BY DEF WriteFooter
<1>2. /\ pc = "footer" /\ method = "none" /\ output = WrittenOutput(n)
      /\ index_size = WrittenIndexSize(n, c)
  BY DEF AtFooter
<1>3. index_size % Word = ((f.backward + 1) * 4) % Word
  BY <1>1, <1>2, WrittenSize, BackwardFits
<1> HIDE DEF f
<1>4. pc' = "ok" /\ output' = output
  BY <1>1, <1>2, <1>3 DEF Footer, f
<1> QED
  BY <1>2, <1>4 DEF Along

\* Whatever the decoder reads of the stream next leads it along.
LEMMA ReadsFollow ==
    ASSUME IInv, NEW n \in Nat, NEW c \in Nat, Along(n, c), Reads(Encoded(n, c, 2))
    PROVE  Along(n, c)'
<1> DEFINE s == Encoded(n, c, 2)
<1>1. /\ s.header = WriteHeader(2) /\ s.block = WriteBlock(n, c)
      /\ s.index = WriteIndex(n, c) /\ s.footer = WriteFooter(WrittenIndexSize(n, c))
  BY DEF Encoded
<1> HIDE DEF s
<1> USE DEF InBlock, AtEnd, AtIndex, AtFooter
<1>2. CASE Header(s.header)
  BY <1>1, <1>2, HeaderFollows DEF Along, Header
<1>3. CASE seen.blocks = <<>> /\ BlockHeader(s.block.header)
  <2>1. pc = "next" /\ Fresh /\ method = "none"
    BY <1>3 DEF Along, BlockHeader
  <2> QED
    BY <1>1, <1>3, <2>1, BlockHeaderFollows
<1>4. CASE BlockData(s.block.data)
  <2>1. InBlock(n, c)
    BY <1>4 DEF Along, BlockData
  <2> QED
    BY <1>1, <1>4, <2>1, BlockDataFollows
<1>5. CASE BlockEnd(s.block.padding, TRUE)
  <2>1. AtEnd(n, c)
    BY <1>5 DEF Along, BlockEnd
  <2> QED
    BY <1>1, <1>5, <2>1, BlockEndFollows
<1>6. CASE seen.blocks # <<>> /\ Index(s.index)
  <2>1. AtIndex(n, c)
    BY <1>6 DEF Along, Index, Fresh
  <2> QED
    BY <1>1, <1>6, <2>1, IndexFollows
<1>7. CASE Footer(s.footer)
  <2>1. AtFooter(n, c)
    BY <1>7 DEF Along, Footer
  <2> QED
    BY <1>1, <1>7, <2>1, FooterFollows
<1>8. CASE Ended
  BY <1>8 DEF Ended, vars, Along, Fresh
<1> QED
  BY <1>2, <1>3, <1>4, <1>5, <1>6, <1>7, <1>8 DEF Reads, s

FollowsSome == FromEncoder => \E n \in Nat, c \in Nat : Follows(n, c)

\* A sink that takes what it is given gets a header that is right.
LEMMA FollowsFirst ==
    ASSUME ShortWrites = FALSE, RTInit
    PROVE  FollowsSome
<1> SUFFICES ASSUME FromEncoder PROVE \E n \in Nat, c \in Nat : Follows(n, c)
  BY DEF FollowsSome
<1>1. PICK s \in EncodedStreams : sent = <<s>>
  BY DEF RTInit, FromEncoder, Maybe
<1>2. PICK n \in InputSizes : \E c \in Chunks(n) : s = Encoded(n, c, 2)
  BY <1>1 DEF EncodedStreams
<1>3. PICK c \in Chunks(n) : s = Encoded(n, c, 2)
  BY <1>2
<1>4. n \in Nat
  BY InputAssumption
<1>5. c \in Nat
  <2>1. (n + 65535) \div 65536 \in Nat
    BY <1>4
  <2> QED
    BY <2>1 DEF Chunks
<1>6. Along(n, c)
  BY DEF RTInit, Init, Along, Fresh
<1> QED
  BY <1>1, <1>3, <1>4, <1>5, <1>6 DEF Follows

LEMMA FollowsOn ==
    ASSUME RTInv, FollowsSome, [RTNext]_<<vars, sent>>
    PROVE  FollowsSome'
<1> SUFFICES ASSUME sent' # <<>> PROVE (\E n \in Nat, c \in Nat : Follows(n, c))'
  BY DEF FollowsSome, FromEncoder
<1>1. sent' = sent
  BY DEF RTNext, DecodesEncoded, DecodesAny
<1>2. PICK n \in Nat, c \in Nat : Follows(n, c)
  BY <1>1 DEF FollowsSome, FromEncoder
<1>3. Along(n, c) /\ sent[1] = Encoded(n, c, 2)
  BY <1>2 DEF Follows
<1>4. CASE UNCHANGED <<vars, sent>>
  <2>1. Along(n, c)'
    BY <1>3, <1>4 DEF vars, Along, Fresh, InBlock, AtEnd, AtIndex, AtFooter
  <2> QED
    BY <1>1, <1>2, <2>1 DEF Follows
<1>5. CASE DecodesEncoded
  <2>1. IInv /\ Reads(Encoded(n, c, 2))
    BY <1>3, <1>5 DEF RTInv, DecodesEncoded
  <2>2. Along(n, c)'
    BY <1>3, <2>1, ReadsFollow
  <2> QED
    BY <1>1, <1>2, <2>2 DEF Follows
<1> QED
  BY <1>1, <1>4, <1>5 DEF RTNext, DecodesAny, FromEncoder

\* What xz_compress writes to a sink that takes what it is given, xz_decompress
\* accepts, and it yields what was compressed.
THEOREM EncodedIsAccepted ==
    ASSUME ShortWrites = FALSE
    PROVE  RTSpec => []RoundTrip
<1>1. RTInit => FollowsSome
  BY FollowsFirst
<1>2. RTInv /\ FollowsSome /\ [RTNext]_<<vars, sent>> => FollowsSome'
  BY FollowsOn
<1>3. RTInv /\ FollowsSome => RoundTrip
  <2> SUFFICES ASSUME RTInv, FollowsSome, FromEncoder
               PROVE  /\ pc = "failed" => Len(output) > Len(records)
                      /\ pc = "ok" => output = <<[size |-> sent[1].block.data.unpacked,
                                                  verified |-> TRUE]>>
    BY DEF RoundTrip
  <2>1. PICK n \in Nat, c \in Nat : Follows(n, c)
    BY DEF FollowsSome
  <2>2. sent[1].block.data.unpacked = n
    BY <2>1 DEF Follows, Encoded, WriteBlock
  <2>3. pc = "failed" => Len(output) > Len(records)
    BY <2>1 DEF Follows, Along, InBlock, AtEnd, AtIndex, AtFooter
  <2>4. pc = "ok" => output = WrittenOutput(n)
    BY <2>1 DEF Follows, Along, InBlock, AtEnd, AtIndex, AtFooter
  <2> QED
    BY <2>2, <2>3, <2>4 DEF WrittenOutput
<1> QED
  BY <1>1, <1>2, <1>3, RTInductive, PTL DEF RTSpec

=============================================================================
