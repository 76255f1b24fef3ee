----------------------- MODULE LzCircularBufferProofs -----------------------
(***************************************************************************)
(* Proofs about LzCircularBuffer, for every dictionary size, memory limit, *)
(* match length and set of bytes.  The inductive invariant is Ring: the    *)
(* part of buf before the cursor holds the bytes the sink has not seen,    *)
(* the part behind it those of the round before, at the same places; and   *)
(* Copying: a match under way reads at its distance from the cursor.       *)
(***************************************************************************)
EXTENDS LzCircularBuffer, SequenceTheorems, TLAPS

Ring ==
    /\ cursor < DictSize
    /\ Len(out) = len /\ Len(sink) + cursor = len
    /\ Len(sink) = 0 => Len(buf) = cursor
    /\ Len(sink) > 0 => Len(buf) = DictSize /\ Len(sink) >= DictSize
    /\ \A i \in 1..Len(sink) : sink[i] = out[i]
    /\ \A i \in 1..cursor : buf[i] = out[Len(sink) + i]
    /\ \A i \in (cursor + 1)..Len(buf) : buf[i] = out[Len(sink) - DictSize + i]

\* The offset dist bytes before the cursor.
Before(dist) == IF dist <= cursor THEN cursor - dist ELSE DictSize + cursor - dist

Copying ==
    /\ copy = NoCopy => settled = len
    /\ copy # NoCopy =>
          /\ copy.left > 0 /\ len - settled + copy.left <= MaxLen
          /\ copy.dist > 0 /\ copy.dist <= settled
          /\ copy.offset = Before(copy.dist)
    /\ \A i \in (settled + 1)..len : out[i] = out[i - copy.dist]

IInv ==
    /\ TypeOK /\ RefusedAtLimit
    /\ status = "open" => Ring /\ Copying

-----------------------------------------------------------------------------
(* The ring *)

\* The remainder the positions are computed with.
LEMMA Modulo ==
    ASSUME NEW x \in Nat, x < 2 * DictSize
    PROVE  x % DictSize = IF x < DictSize THEN x ELSE x - DictSize
  BY DictSizeAssumption, SMTT(30)

LEMMA BackIsBefore ==
    ASSUME cursor \in Nat, cursor < DictSize, NEW dist \in 1..DictSize
    PROVE  /\ Back(dist) = Before(dist)
           /\ Before(dist) \in 0..(DictSize - 1)
<1>1. DictSize + cursor - dist \in Nat /\ DictSize + cursor - dist < 2 * DictSize
  BY DictSizeAssumption
<1> DEFINE x == DictSize + cursor - dist
<1>2. x \in Nat /\ x < 2 * DictSize /\ Back(dist) = x % DictSize
  BY <1>1 DEF Back
<1>3. Back(dist) = IF x < DictSize THEN x ELSE x - DictSize
  <2> HIDE DEF x
  <2> QED
    BY <1>2, Modulo
<1>4. CASE dist <= cursor
  <2>1. x >= DictSize /\ x - DictSize = cursor - dist
    BY <1>4, DictSizeAssumption
  <2> HIDE DEF x
  <2> QED
    BY <1>2, <1>3, <1>4, <2>1, DictSizeAssumption DEF Before
<1>5. CASE dist > cursor
  <2>1. x < DictSize
    BY <1>5, DictSizeAssumption
  <2>2. Back(dist) = x
    <3> HIDE DEF x
    <3> QED
      BY <1>2, <1>3, <2>1, DictSizeAssumption
  <2> QED
    BY <1>5, <2>1, <2>2, DictSizeAssumption DEF Before
<1> QED
  BY <1>4, <1>5, DictSizeAssumption

\* The sizes of the sequences, without what is in them.
LEMMA Sizes ==
    ASSUME TypeOK, Ring
    PROVE  /\ DictSize \in Nat \ {0} /\ memlimit \in Nat
           /\ cursor \in Nat /\ cursor < DictSize
           /\ len \in Nat /\ Len(sink) \in Nat /\ Len(buf) \in Nat
           /\ Len(out) = len /\ Len(sink) + cursor = len
           /\ Len(sink) = 0 => Len(buf) = cursor
           /\ Len(sink) > 0 => Len(buf) = DictSize /\ Len(sink) >= DictSize
  BY DictSizeAssumption, LimitAssumption DEF TypeOK, Ring

\* The ring holds the last DictSize bytes: each is where Before says.
LEMMA RingReads ==
    ASSUME TypeOK, Ring, NEW dist \in 1..DictSize, dist <= len
    PROVE  Get(Before(dist)) = out[len - dist + 1]
<1>1. CASE dist <= cursor
  <2> DEFINE k == cursor - dist + 1
  <2>1. /\ Before(dist) = cursor - dist /\ cursor - dist < Len(buf)
        /\ k \in 1..cursor /\ Len(sink) + k = len - dist + 1
    BY <1>1, Sizes DEF Before
  <2>2. buf[k] = out[Len(sink) + k]
    <3> HIDE DEF k
    <3> QED
      BY <2>1 DEF Ring
  <2> QED
    BY <2>1, <2>2 DEF Get
<1>2. CASE dist > cursor
  <2> DEFINE k == DictSize + cursor - dist + 1
  <2>1. /\ Before(dist) = DictSize + cursor - dist
        /\ DictSize + cursor - dist < Len(buf)
        /\ k \in (cursor + 1)..Len(buf)
        /\ Len(sink) - DictSize + k = len - dist + 1
    BY SMTT(30), <1>2, Sizes DEF Before
  <2>2. buf[k] = out[Len(sink) - DictSize + k]
    <3> HIDE DEF k
    <3> QED
      BY <2>1 DEF Ring
  <2> QED
    BY <2>1, <2>2 DEF Get
<1> QED
  BY <1>1, <1>2, Sizes

LEMMA SeqOf ==
    ASSUME NEW n \in Nat, NEW s \in [1..n -> Byte]
    PROVE  s \in Seq(Byte) /\ Len(s) = n
  OBVIOUS

\* What set makes of buf: the byte in its place, the others as they were.
LEMMA SetBuf ==
    ASSUME TypeOK, Ring, NEW b \in Byte
    PROVE  LET s == Set(cursor, b)
           IN  /\ s \in Seq(Byte)
               /\ Len(s) = IF Len(sink) = 0 THEN cursor + 1 ELSE DictSize
               /\ s[cursor + 1] = b
               /\ \A i \in 1..Len(buf) : i # cursor + 1 => s[i] = buf[i]
<1> USE DictSizeAssumption DEF TypeOK, Ring
<1>1. CASE Len(sink) = 0
  <2>1. Len(buf) = cursor
    BY <1>1
  <2>2. Set(cursor, b) = [j \in 1..(cursor + 1) |->
             IF j = cursor + 1 THEN b ELSE IF j <= Len(buf) THEN buf[j] ELSE 0]
    BY <2>1 DEF Set
  <2>3. \A j \in 1..cursor : buf[j] \in Byte
    BY <2>1
  <2>4. Set(cursor, b) \in [1..(cursor + 1) -> Byte]
    BY <2>1, <2>2, <2>3
  <2>5. Set(cursor, b) \in Seq(Byte) /\ Len(Set(cursor, b)) = cursor + 1
    <3> DEFINE s == Set(cursor, b)
               n == cursor + 1
    <3>1. n \in Nat /\ s \in [1..n -> Byte]
      BY <2>4
    <3> HIDE DEF s, n
    <3>2. s \in Seq(Byte) /\ Len(s) = n
      BY <3>1, SeqOf, Zenon
    <3> QED
      BY <3>2 DEF s, n
  <2> QED
    BY <1>1, <2>1, <2>2, <2>5
<1>2. CASE Len(sink) > 0
  <2>1. Len(buf) = DictSize /\ cursor + 1 \in 1..Len(buf)
    BY <1>2
  <2>2. Set(cursor, b) = [buf EXCEPT ![cursor + 1] = b]
    BY <2>1 DEF Set
  <2>3. Set(cursor, b) \in Seq(Byte) /\ Len(Set(cursor, b)) = Len(buf)
    BY <2>1, <2>2
  <2> QED
    BY <1>2, <2>1, <2>2, <2>3
<1> QED
  BY <1>1, <1>2

\* ConcatProperties, for sequences of bytes.
LEMMA ConcatByte ==
    ASSUME NEW s \in Seq(Byte), NEW t \in Seq(Byte)
    PROVE  /\ Len(s) \in Nat /\ Len(t) \in Nat
           /\ s \o t \in Seq(Byte) /\ Len(s \o t) = Len(s) + Len(t)
           /\ \A i \in 1..Len(s) : (s \o t)[i] = s[i]
           /\ \A i \in 1..Len(t) : (s \o t)[Len(s) + i] = t[i]
<1>1. /\ Len(s) \in Nat /\ Len(t) \in Nat
      /\ s \o t \in Seq(Byte) /\ Len(s \o t) = Len(s) + Len(t)
      /\ \A i \in 1..(Len(s) + Len(t)) :
            (s \o t)[i] = IF i <= Len(s) THEN s[i] ELSE t[i - Len(s)]
  BY ConcatProperties, LenProperties
<1> QED
  BY <1>1

\* A byte stored in the last place of the ring: the ring holds the bytes
\* that follow those the sink has.
LEMMA FullRing ==
    ASSUME TypeOK, Ring, NEW b \in Byte, Stored(b), cursor + 1 = DictSize
    PROVE  /\ buf' \in Seq(Byte) /\ Len(buf') = DictSize
           /\ out' = Append(out, b) /\ out' \in Seq(Byte) /\ Len(out') = len + 1
           /\ \A i \in 1..DictSize : buf'[i] = out'[Len(sink) + i]
<1>1. buf' = Set(cursor, b) /\ out' = Append(out, b)
  BY DEF Stored
<1>2. /\ buf' \in Seq(Byte)
      /\ Len(buf') = IF Len(sink) = 0 THEN cursor + 1 ELSE DictSize
      /\ buf'[cursor + 1] = b
      /\ \A i \in 1..Len(buf) : i # cursor + 1 => buf'[i] = buf[i]
  BY <1>1, SetBuf
<1>3. /\ out' \in Seq(Byte) /\ Len(out') = len + 1 /\ out'[len + 1] = b
      /\ \A i \in 1..len : out'[i] = out[i]
  BY <1>1 DEF TypeOK, Ring
<1>4. ASSUME NEW i \in 1..DictSize PROVE buf'[i] = out'[Len(sink) + i]
  <2>1. CASE i = cursor + 1
    <3>1. Len(sink) + i = len + 1
      BY <2>1, Sizes
    <3> QED
      BY <1>2, <1>3, <2>1, <3>1
  <2>2. CASE i # cursor + 1
    <3>1. i \in 1..cursor /\ i \in 1..Len(buf) /\ Len(sink) + i \in 1..len
      BY <2>2, Sizes
    <3>2. buf'[i] = buf[i] /\ buf[i] = out[Len(sink) + i]
      BY <1>2, <2>2, <3>1 DEF Ring
    <3> QED
      BY <1>3, <3>1, <3>2
  <2> QED
    BY <2>1, <2>2
<1> QED
  BY <1>1, <1>2, <1>3, <1>4, Sizes

\* append_literal keeps the ring, whether it wraps or not.
LEMMA PutRing ==
    ASSUME TypeOK, Ring, NEW b \in Byte, Put(b)
    PROVE  /\ Ring'
           /\ sink' \in Seq(Byte) /\ buf' \in Seq(Byte) /\ out' \in Seq(Byte)
           /\ cursor' \in Nat /\ len' = len + 1
           /\ Len(buf') <= DictSize /\ Len(buf') <= memlimit
           /\ out' = Append(out, b)
           /\ Len(sink) <= Len(sink')
           /\ cursor' = IF cursor + 1 = DictSize THEN 0 ELSE cursor + 1
<1> USE DictSizeAssumption, LimitAssumption
<1>1. /\ buf' = Set(cursor, b) /\ len' = len + 1 /\ out' = Append(out, b)
      /\ Len(buf) < cursor + 1 => cursor + 1 <= memlimit
  BY DEF Put, Stored, SetFails, TypeOK
<1>2. /\ buf' \in Seq(Byte)
      /\ Len(buf') = IF Len(sink) = 0 THEN cursor + 1 ELSE DictSize
      /\ buf'[cursor + 1] = b
      /\ \A i \in 1..Len(buf) : i # cursor + 1 => buf'[i] = buf[i]
  BY <1>1, SetBuf
<1>3. Len(buf') <= DictSize /\ Len(buf') <= memlimit
  BY <1>1, <1>2 DEF TypeOK, Ring
<1>4. /\ out' \in Seq(Byte) /\ Len(out') = len + 1 /\ out'[len + 1] = b
      /\ \A i \in 1..len : out'[i] = out[i]
  BY <1>1 DEF TypeOK, Ring
<1>5. CASE cursor + 1 = DictSize
  <2>1. cursor' = 0 /\ sink' = sink \o buf' /\ Len(buf') = DictSize
    BY <1>2, <1>5 DEF Put
  <2>2. /\ sink' \in Seq(Byte) /\ Len(sink') = Len(sink) + DictSize
        /\ \A i \in 1..Len(sink) : sink'[i] = sink[i]
        /\ \A i \in 1..DictSize : sink'[Len(sink) + i] = buf'[i]
    BY <1>2, <2>1, ConcatByte DEF TypeOK
  <2>3. \A i \in 1..DictSize : buf'[i] = out'[Len(sink) + i]
    BY <1>5, FullRing DEF Put
  <2>4. Len(out') = len' /\ Len(sink') + cursor' = len'
    BY <1>1, <1>4, <1>5, <2>1, <2>2 DEF TypeOK, Ring
  <2>5. \A i \in 1..Len(sink') : sink'[i] = out'[i]
    <3> SUFFICES ASSUME NEW i \in 1..Len(sink') PROVE sink'[i] = out'[i]
      OBVIOUS
    <3>1. CASE i <= Len(sink)
      <4>1. i \in 1..Len(sink) /\ i \in 1..len
        BY <3>1, <2>2, Sizes
      <4>2. sink[i] = out[i]
        BY <4>1 DEF Ring
      <4> QED
        BY <4>1, <4>2, <2>2, <1>4
    <3>2. CASE i > Len(sink)
      <4>1. i - Len(sink) \in 1..DictSize /\ Len(sink) + (i - Len(sink)) = i
        BY <3>2, <2>2, Sizes
      <4> QED
        BY <4>1, <2>2, <2>3
    <3> QED
      BY <3>1, <3>2, <2>2, Sizes
  <2>6. \A i \in (cursor' + 1)..Len(buf') :
           buf'[i] = out'[Len(sink') - DictSize + i]
    <3> SUFFICES ASSUME NEW i \in (cursor' + 1)..Len(buf')
                 PROVE  buf'[i] = out'[Len(sink') - DictSize + i]
      OBVIOUS
    <3>1. i \in 1..DictSize /\ Len(sink') - DictSize + i = Len(sink) + i
      BY <2>1, <2>2 DEF TypeOK
    <3> QED
      BY <3>1, <2>3
  <2>7. Ring'
    BY SMTT(30), <2>1, <2>2, <2>4, <2>5, <2>6 DEF Ring, TypeOK
  <2> QED
    BY <1>1, <1>2, <1>3, <1>4, <1>5, <2>1, <2>2, <2>7 DEF TypeOK
<1>6. CASE cursor + 1 # DictSize
  <2>1. cursor' = cursor + 1 /\ sink' = sink
    BY <1>6 DEF Put
  <2>2. cursor' < DictSize /\ Len(out') = len' /\ Len(sink') + cursor' = len'
    BY Sizes, <1>1, <1>4, <1>6, <2>1
  <2>3. \A i \in 1..cursor' : buf'[i] = out'[Len(sink') + i]
    <3> SUFFICES ASSUME NEW i \in 1..cursor' PROVE buf'[i] = out'[Len(sink) + i]
      BY <2>1
    <3>1. CASE i = cursor + 1
      <4>1. Len(sink) + i = len + 1
        BY <3>1, Sizes
      <4> QED
        BY <1>2, <1>4, <3>1, <4>1
    <3>2. CASE i # cursor + 1
      <4>1. i \in 1..cursor /\ i \in 1..Len(buf) /\ Len(sink) + i \in 1..len
        BY SMTT(30), <3>2, <2>1 DEF TypeOK, Ring
      <4> QED
        BY <1>2, <1>4, <3>2, <4>1 DEF Ring
    <3> QED
      BY <3>1, <3>2
  <2>4. \A i \in (cursor' + 1)..Len(buf') :
           buf'[i] = out'[Len(sink') - DictSize + i]
    <3> SUFFICES ASSUME NEW i \in (cursor' + 1)..Len(buf')
                 PROVE  buf'[i] = out'[Len(sink) - DictSize + i]
      BY <2>1
    <3>1. Len(sink) > 0 /\ Len(buf) = DictSize /\ Len(buf') = DictSize
      BY <1>2, <2>1 DEF TypeOK, Ring
    <3>2. /\ i \in (cursor + 1)..Len(buf) /\ i \in 1..Len(buf) /\ i # cursor + 1
          /\ Len(sink) - DictSize + i \in 1..len
      BY <3>1, <2>1 DEF TypeOK, Ring
    <3>3. buf[i] = out[Len(sink) - DictSize + i]
      BY <3>2 DEF Ring
    <3> QED
      BY <1>2, <1>4, <3>2, <3>3
  <2>5. \A i \in 1..Len(sink') : sink'[i] = out'[i]
    BY <2>1, <1>4 DEF TypeOK, Ring
  <2>6. Ring'
    BY <1>2, <2>1, <2>2, <2>3, <2>4, <2>5 DEF Ring, TypeOK
  <2> QED
    BY <1>1, <1>2, <1>3, <1>4, <1>6, <2>1, <2>6 DEF TypeOK
<1> QED
  BY <1>5, <1>6

-----------------------------------------------------------------------------
(* The invariant *)

LEMMA AppendByte ==
    ASSUME NEW s \in Seq(Byte), NEW b \in Byte
    PROVE  /\ Len(Append(s, b)) = Len(s) + 1
           /\ Append(s, b)[Len(s) + 1] = b
           /\ \A i \in 1..Len(s) : Append(s, b)[i] = s[i]
  OBVIOUS

LEMMA InitIInv == Init => IInv
<1> SUFFICES ASSUME Init PROVE IInv
  OBVIOUS
<1>1. TypeOK
  BY DictSizeAssumption, LimitAssumption DEF Init, TypeOK, NoCopy
<1>2. Ring
  BY DictSizeAssumption DEF Init, Ring
<1>3. Copying
  BY DEF Init, Copying, NoCopy
<1>4. RefusedAtLimit
  BY LimitAssumption DEF Init, RefusedAtLimit
<1> QED
  BY <1>1, <1>2, <1>3, <1>4 DEF IInv

\* An open ring is refused nothing it should not be.
LEMMA RingWithinLimit ==
    ASSUME TypeOK, Ring
    PROVE  len <= memlimit \/ DictSize <= memlimit
<1>1. Len(buf) <= memlimit
  BY DEF TypeOK
<1> QED
  BY <1>1, Sizes

\* append_literal fails: the invariant says of a failed ring what is left.
LEMMA PutFailsKeeps ==
    ASSUME IInv, status = "open", NEW b \in Byte, PutFails(b),
           copy' = copy, settled' = settled, memlimit' = memlimit
    PROVE  IInv'
<1> USE DictSizeAssumption, LimitAssumption
<1>1. TypeOK /\ Ring
  BY DEF IInv
<1>2. CASE SetFails(cursor) /\ status' = "limit"
           /\ UNCHANGED <<sink, buf, cursor, len, out>>
  <2>1. TypeOK'
    BY <1>1, <1>2 DEF TypeOK, Errors
  <2>2. len = memlimit /\ memlimit < DictSize
    <3>1. Len(buf) < cursor + 1 /\ cursor + 1 > memlimit /\ Len(buf) <= memlimit
      BY <1>1, <1>2 DEF SetFails, TypeOK
    <3> QED
      BY <1>1, <3>1, Sizes
  <2> QED
    BY <1>2, <2>1, <2>2 DEF IInv, RefusedAtLimit
<1>3. CASE /\ cursor + 1 = DictSize /\ status' = "io"
           /\ Stored(b) /\ cursor' = cursor + 1
           /\ \E k \in 0..(DictSize - 1) : sink' = sink \o SubSeq(buf', 1, k)
  <2>1. /\ buf' = Set(cursor, b) /\ len' = len + 1 /\ out' = Append(out, b)
        /\ Len(buf) < cursor + 1 => cursor + 1 <= memlimit
    BY <1>1, <1>3 DEF Stored, SetFails, TypeOK
  <2>2. /\ buf' \in Seq(Byte)
        /\ Len(buf') = IF Len(sink) = 0 THEN cursor + 1 ELSE DictSize
    BY <1>1, <2>1, SetBuf
  <2>3. Len(buf') = DictSize /\ Len(buf') <= memlimit
    <3>1. Len(buf) <= memlimit
      BY <1>1 DEF TypeOK
    <3> QED
      BY <1>1, <1>3, <2>1, <2>2, <3>1, Sizes
  <2>4. sink' \in Seq(Byte)
    <3>1. PICK k \in 0..(DictSize - 1) : sink' = sink \o SubSeq(buf', 1, k)
      BY <1>3
    <3>2. \A i \in 1..k : buf'[i] \in Byte
      BY <2>2, <2>3
    <3>3. SubSeq(buf', 1, k) \in Seq(Byte)
      BY <3>2, SubSeqProperties
    <3> QED
      BY <1>1, <3>1, <3>3, ConcatByte DEF TypeOK
  <2>5. out' \in Seq(Byte) /\ len' \in Nat /\ settled' \in 0..len'
    BY <1>1, <2>1 DEF TypeOK
  <2>6. cursor' \in 0..DictSize /\ status' \in {"open", "closed"} \cup Errors
    BY <1>3 DEF Errors
  <2>7. TypeOK'
    BY <1>1, <2>2, <2>3, <2>4, <2>5, <2>6 DEF TypeOK
  <2> QED
    BY <1>3, <2>7 DEF IInv, RefusedAtLimit
<1> QED
  BY <1>2, <1>3 DEF PutFails

\* Between two operations nothing is being copied.
LEMMA NothingCopied ==
    ASSUME copy' = NoCopy, settled' = len', len' \in Nat
    PROVE  Copying'
<1>1. \A n \in Nat : \A i \in (n + 1)..n : FALSE
  OBVIOUS
<1>2. \A i \in (settled' + 1)..len' : out'[i] = out'[i - copy'.dist]
  BY <1>1
<1> QED
  BY <1>2, Zenon DEF Copying

LEMMA AppendLiteralKeeps ==
    ASSUME IInv, NEW b \in Byte, AppendLiteral(b)
    PROVE  IInv'
<1>1. /\ status = "open" /\ copy = NoCopy /\ copy' = copy
      /\ memlimit' = memlimit
  BY DEF AppendLiteral, Idle
<1>2. TypeOK /\ Ring
  BY <1>1 DEF IInv
<1>3. CASE Put(b) /\ settled' = len' /\ status' = status
  <2>1. /\ Ring'
        /\ sink' \in Seq(Byte) /\ buf' \in Seq(Byte) /\ out' \in Seq(Byte)
        /\ cursor' \in Nat /\ len' = len + 1
        /\ Len(buf') <= DictSize /\ Len(buf') <= memlimit
    BY <1>2, <1>3, PutRing
  <2>2. TypeOK'
    <3>1. cursor' < DictSize
      BY <2>1 DEF Ring
    <3>2. cursor' \in 0..DictSize /\ len' \in Nat /\ settled' \in 0..len'
      BY <1>2, <1>3, <2>1, <3>1, Sizes
    <3> QED
      BY <1>1, <1>2, <1>3, <2>1, <3>2 DEF TypeOK
  <2>3. Copying'
    <3>1. copy' = NoCopy /\ settled' = len' /\ len' \in Nat
      BY <1>1, <1>3, <2>2 DEF TypeOK
    <3> QED
      BY <3>1, NothingCopied
  <2>4. (len <= memlimit \/ DictSize <= memlimit)'
    BY <2>1, <2>2, RingWithinLimit, PTL
  <2> QED
    BY <1>1, <1>3, <2>1, <2>2, <2>3, <2>4 DEF IInv, RefusedAtLimit
<1>4. CASE PutFails(b) /\ settled' = settled
  BY <1>1, <1>4, PutFailsKeeps
<1> QED
  BY <1>3, <1>4 DEF AppendLiteral

LEMMA AppendLzKeeps ==
    ASSUME IInv, NEW n \in 1..MaxLen, NEW dist \in 1..(DictSize + 1),
           AppendLz(n, dist)
    PROVE  IInv'
<1> USE DictSizeAssumption, LimitAssumption, BoundAssumption
<1>1. /\ status = "open" /\ copy = NoCopy
      /\ UNCHANGED <<memlimit, sink, buf, cursor, len, out, settled>>
  BY DEF AppendLz, Idle
<1>2. TypeOK /\ Ring /\ Copying
  BY <1>1 DEF IInv
<1>3. Ring'
  BY <1>1, <1>2 DEF Ring
<1>4. CASE TooFar(dist)
  <2>1. status' = "distance" /\ copy' = copy
    BY <1>4 DEF AppendLz
  <2>2. TypeOK'
    BY <1>1, <1>2, <2>1 DEF TypeOK, Errors
  <2> QED
    BY <2>1, <2>2 DEF IInv, RefusedAtLimit
<1>5. CASE ~TooFar(dist)
  <2>1. /\ status' = "open"
        /\ copy' = [left |-> n, offset |-> Back(dist), dist |-> dist]
    BY <1>1, <1>5 DEF AppendLz
  <2>2. dist \in 1..DictSize /\ dist <= len
    BY <1>2, <1>5, Sizes DEF TooFar
  <2>3. Back(dist) = Before(dist) /\ Before(dist) \in 0..(DictSize - 1)
    BY <1>2, <2>2, BackIsBefore, Sizes
  <2>4. copy' \in [left : Nat, offset : 0..(DictSize - 1), dist : 0..DictSize]
    BY <2>1, <2>2, <2>3
  <2>5. TypeOK'
    BY <1>1, <1>2, <2>1, <2>4 DEF TypeOK
  <2>6. Copying'
    <3>1. settled = len
      BY <1>1, <1>2 DEF Copying
    <3>2. copy' # NoCopy => /\ copy'.left > 0
                            /\ len' - settled' + copy'.left <= MaxLen
                            /\ copy'.dist > 0 /\ copy'.dist <= settled'
                            /\ copy'.offset = Before(dist)
      BY <1>1, <1>2, <2>1, <2>2, <2>3, <3>1, Sizes
    <3>3. Before(copy.dist)' = Before(dist)
      BY <1>1, <2>1 DEF Before
    <3>4. \A i \in (settled' + 1)..len' : out'[i] = out'[i - copy'.dist]
      BY <1>1, <1>2, <3>1, Sizes
    <3>5. settled' = len'
      BY <1>1, <3>1
    <3> QED
      BY <3>2, <3>3, <3>4, <3>5 DEF Copying
  <2> QED
    BY <1>1, <1>2, <1>3, <2>1, <2>5, <2>6, RingWithinLimit DEF IInv, RefusedAtLimit
<1> QED
  BY <1>4, <1>5

\* The byte a match copies is the one at its distance.
LEMMA CopiedByte ==
    ASSUME TypeOK, Ring, Copying, copy # NoCopy
    PROVE  /\ copy.dist \in 1..DictSize /\ copy.dist <= len
           /\ Get(copy.offset) = out[len - copy.dist + 1]
           /\ Get(copy.offset) \in Byte
<1>1. copy.dist \in 1..DictSize /\ copy.dist <= settled /\ settled <= len
  BY DictSizeAssumption DEF TypeOK, Copying
<1>2. copy.dist <= len
  BY <1>1, Sizes DEF TypeOK
<1>3. Get(copy.offset) = out[len - copy.dist + 1]
  BY <1>1, <1>2, RingReads DEF Copying
<1>4. len - copy.dist + 1 \in 1..Len(out)
  BY <1>1, <1>2, Sizes
<1>5. out[len - copy.dist + 1] \in Byte
  BY <1>4, ElementOfSeq DEF TypeOK
<1> QED
  BY <1>1, <1>2, <1>3, <1>5

\* The byte a match copies repeats the one dist bytes before it.
LEMMA Repeated ==
    ASSUME TypeOK, Ring, Copying, copy # NoCopy,
           out' = Append(out, Get(copy.offset))
    PROVE  \A i \in (settled + 1)..(len + 1) : out'[i] = out'[i - copy.dist]
<1>1. /\ out'[len + 1] = Get(copy.offset)
      /\ \A i \in 1..len : out'[i] = out[i]
  <2> DEFINE b == Get(copy.offset)
  <2>1. b \in Byte /\ out' = Append(out, b) /\ out \in Seq(Byte) /\ Len(out) = len
    BY CopiedByte, Sizes DEF TypeOK
  <2> HIDE DEF b
  <2>2. out'[len + 1] = b /\ \A i \in 1..len : out'[i] = out[i]
    BY <2>1, AppendByte
  <2> QED
    BY <2>2 DEF b
<1>2. copy.dist \in 1..DictSize /\ copy.dist <= settled /\ settled <= len
  BY DictSizeAssumption DEF TypeOK, Copying
<1> SUFFICES ASSUME NEW i \in (settled + 1)..(len + 1)
             PROVE  out'[i] = out'[i - copy.dist]
  OBVIOUS
<1>3. i - copy.dist \in 1..len
  BY SMTT(30), <1>2, Sizes DEF TypeOK
<1>4. CASE i = len + 1
  <2>1. i - copy.dist = len - copy.dist + 1
    BY <1>2, <1>4, Sizes
  <2> QED
    BY <1>1, <1>3, <1>4, <2>1, CopiedByte
<1>5. CASE i # len + 1
  <2>1. i \in (settled + 1)..len /\ i \in 1..len
    BY <1>2, <1>5, Sizes DEF TypeOK
  <2>2. out[i] = out[i - copy.dist]
    BY <2>1 DEF Copying
  <2> QED
    BY <1>1, <1>3, <2>1, <2>2
<1> QED
  BY <1>4, <1>5

LEMMA CopyByteKeeps ==
    ASSUME IInv, CopyByte
    PROVE  IInv'
<1> USE DictSizeAssumption, LimitAssumption, BoundAssumption
<1> DEFINE b == Get(copy.offset)
<1>1. status = "open" /\ copy.left > 0 /\ memlimit' = memlimit
  BY DEF CopyByte
<1>2. TypeOK /\ Ring /\ Copying /\ copy # NoCopy
  BY <1>1 DEF IInv, NoCopy
<1>3. b \in Byte
  BY <1>2, CopiedByte
<1>4. CASE PutFails(b) /\ copy' = copy /\ settled' = settled
  <2> HIDE DEF b
  <2> QED
    BY <1>1, <1>3, <1>4, PutFailsKeeps
<1>5. CASE /\ Put(b) /\ status' = status
           /\ IF copy.left = 1
              THEN copy' = NoCopy /\ settled' = len'
              ELSE /\ copy' = [copy EXCEPT !.left = @ - 1, !.offset = NextOffset]
                   /\ settled' = settled
  <2>1. /\ Ring'
        /\ sink' \in Seq(Byte) /\ buf' \in Seq(Byte) /\ out' \in Seq(Byte)
        /\ cursor' \in Nat /\ len' = len + 1
        /\ Len(buf') <= DictSize /\ Len(buf') <= memlimit
        /\ out' = Append(out, b)
        /\ cursor' = IF cursor + 1 = DictSize THEN 0 ELSE cursor + 1
    <3> HIDE DEF b
    <3> QED
      BY <1>2, <1>3, <1>5, PutRing
  <2>2. cursor' \in 0..DictSize /\ len' \in Nat
    BY <1>2, <2>1, Sizes
  <2>3. /\ copy \in [left : Nat, offset : 0..(DictSize - 1), dist : 0..DictSize]
        /\ settled \in 0..len
    BY <1>2 DEF TypeOK
  <2>4. CASE copy.left = 1
    <3>1. copy' = NoCopy /\ settled' = len'
      BY <1>5, <2>4
    <3>2. copy' \in [left : Nat, offset : 0..(DictSize - 1), dist : 0..DictSize]
      BY <3>1 DEF NoCopy
    <3>3. TypeOK'
      BY <1>1, <1>2, <1>5, <2>1, <2>2, <3>1, <3>2 DEF TypeOK
    <3>4. Copying'
      BY <3>1, <2>2, NothingCopied
    <3>5. (len <= memlimit \/ DictSize <= memlimit)'
      BY <2>1, <3>3, RingWithinLimit, PTL
    <3> QED
      BY <1>1, <1>5, <2>1, <3>3, <3>4, <3>5 DEF IInv, RefusedAtLimit
  <2>5. CASE copy.left # 1
    <3>1. copy' = [copy EXCEPT !.left = @ - 1, !.offset = NextOffset]
          /\ settled' = settled
      BY <1>5, <2>5
    <3>2. copy'.left = copy.left - 1 /\ copy'.dist = copy.dist
          /\ copy'.offset = NextOffset
      BY <2>3, <3>1
    <3>3. copy.offset = Before(copy.dist)
      BY <1>2 DEF Copying
    <3>4. copy.dist \in 1..DictSize
      BY <1>2, CopiedByte
    <3>5. /\ Before(copy.dist)' = IF copy'.dist <= cursor' THEN cursor' - copy'.dist
                                  ELSE DictSize + cursor' - copy'.dist
      BY DEF Before
    <3>6. NextOffset = Before(copy.dist)' /\ NextOffset \in 0..(DictSize - 1)
      <4> DEFINE d == copy.dist
                 o == copy.offset
      <4>1. d \in 1..DictSize /\ cursor \in Nat /\ cursor < DictSize
            /\ o = IF d <= cursor THEN cursor - d ELSE DictSize + cursor - d
        BY <1>2, <3>3, <3>4, Sizes DEF Before
      <4>2. Before(copy.dist)' = IF d <= cursor' THEN cursor' - d
                                 ELSE DictSize + cursor' - d
        BY <3>2, <3>5
      <4>3. NextOffset = IF o + 1 = DictSize THEN 0 ELSE o + 1
        BY DEF NextOffset
      <4> HIDE DEF d, o
      <4> QED
        BY <2>1, <4>1, <4>2, <4>3
    <3>7. copy' \in [left : Nat, offset : 0..(DictSize - 1), dist : 0..DictSize]
      <4>1. copy.left - 1 \in Nat
        BY <1>1, <2>3
      <4> QED
        BY <2>3, <3>1, <3>6, <4>1
    <3>8. settled' \in 0..len'
      BY SMTT(30), <2>1, <2>2, <2>3, <3>1, <1>2, Sizes
    <3>9. TypeOK'
      BY <1>1, <1>2, <1>5, <2>1, <2>2, <3>7, <3>8 DEF TypeOK
    <3>10. \A i \in (settled' + 1)..len' : out'[i] = out'[i - copy'.dist]
      <4>1. \A i \in (settled + 1)..(len + 1) : out'[i] = out'[i - copy.dist]
        BY <1>2, <2>1, Repeated
      <4> QED
        BY <2>1, <3>1, <3>2, <4>1
    <3>11. /\ copy'.left > 0 /\ len' - settled' + copy'.left <= MaxLen
           /\ copy'.dist > 0 /\ copy'.dist <= settled'
      <4>1. /\ len - settled + copy.left <= MaxLen
            /\ copy.dist > 0 /\ copy.dist <= settled
        BY <1>2 DEF Copying
      <4>2. copy.left \in Nat /\ copy.left # 0 /\ copy.left # 1
            /\ settled \in Nat /\ len \in Nat
        BY <1>1, <1>2, <2>3, <2>5, Sizes
      <4>3. copy'.left > 0 /\ len' - settled' + copy'.left <= MaxLen
        BY SMTT(30), <2>1, <3>1, <3>2, <4>1, <4>2
      <4> QED
        BY <3>1, <3>2, <4>1, <4>3
    <3>12. Copying'
      <4>1. copy' # NoCopy
        BY <3>11 DEF NoCopy
      <4> QED
        BY <3>2, <3>6, <3>10, <3>11, <4>1 DEF Copying
    <3>13. (len <= memlimit \/ DictSize <= memlimit)'
      BY <2>1, <3>9, RingWithinLimit, PTL
    <3> QED
      BY <1>1, <1>5, <2>1, <3>9, <3>12, <3>13 DEF IInv, RefusedAtLimit
  <2> QED
    BY <2>4, <2>5
<1> QED
  BY <1>4, <1>5 DEF CopyByte

LEMMA FinishKeeps ==
    ASSUME IInv, Finish
    PROVE  IInv'
<1>1. status = "open" /\ status' \in {"closed", "io"}
      /\ UNCHANGED <<memlimit, buf, cursor, len, copy, out, settled>>
  BY DEF Finish, Idle
<1>2. TypeOK /\ Ring
  BY <1>1 DEF IInv
<1>3. PICK k \in 0..cursor : sink' = sink \o SubSeq(buf, 1, k)
  <2>1. cursor \in 0..cursor
    BY <1>2, Sizes
  <2>2. CASE sink' = sink \o SubSeq(buf, 1, cursor)
    BY <2>1, <2>2
  <2>3. CASE \E k \in 0..cursor : sink' = sink \o SubSeq(buf, 1, k)
    BY <2>3
  <2> QED
    BY <2>2, <2>3 DEF Finish
<1>4. \A i \in 1..k : buf[i] \in Byte
  <2>1. k <= Len(buf)
    BY <1>2, Sizes
  <2> QED
    BY <1>2, <2>1, ElementOfSeq, Sizes DEF TypeOK
<1>5. SubSeq(buf, 1, k) \in Seq(Byte)
  BY <1>2, <1>4, Sizes, SubSeqProperties
<1>6. sink' \in Seq(Byte)
  BY <1>2, <1>3, <1>5, ConcatByte DEF TypeOK
<1>7. TypeOK'
  BY <1>1, <1>2, <1>6 DEF TypeOK, Errors
<1> QED
  BY <1>1, <1>7 DEF IInv, RefusedAtLimit

LEMMA NextIInv == IInv /\ [Next]_vars => IInv'
<1> SUFFICES ASSUME IInv, [Next]_vars PROVE IInv'
  OBVIOUS
<1>1. ASSUME NEW b \in Byte, AppendLiteral(b) PROVE IInv'
  BY <1>1, AppendLiteralKeeps
<1>2. ASSUME NEW n \in 1..MaxLen, NEW dist \in 1..(DictSize + 1),
             AppendLz(n, dist)
      PROVE  IInv'
  BY <1>2, AppendLzKeeps
<1>3. CASE CopyByte
  BY <1>3, CopyByteKeeps
<1>4. CASE Finish
  BY <1>4, FinishKeeps
<1>5. CASE UNCHANGED vars
  BY <1>5 DEF vars, IInv, TypeOK, RefusedAtLimit, Ring, Copying, Before
<1> QED
  BY <1>1, <1>2, <1>3, <1>4, <1>5 DEF Next

LEMMA Inductive == Spec => []IInv
  BY InitIInv, NextIInv, PTL DEF Spec

\* Type correctness: the ring never holds more than dict_size bytes nor more
\* than memlimit, and a match is always copied from inside it.
THEOREM TypeCorrect == Spec => []TypeOK
<1>1. IInv => TypeOK
  BY DEF IInv
<1> QED
  BY <1>1, Inductive, PTL

\* memlimit refuses a byte only when memlimit bytes are held and the
\* dictionary is larger.
THEOREM RefusedOnlyAtLimit == Spec => []RefusedAtLimit
<1>1. IInv => RefusedAtLimit
  BY DEF IInv
<1> QED
  BY <1>1, Inductive, PTL

\* last_n and last_or answer the byte appended dist bytes ago, at every
\* distance the ring serves, wherever the ring was wrapped.
THEOREM ReadsRight == Spec => []ReadsBack
<1>1. ASSUME IInv PROVE ReadsBack
  <2> SUFFICES ASSUME status = "open" PROVE ReadsBack
    BY DEF ReadsBack
  <2>1. TypeOK /\ Ring
    BY <1>1 DEF IInv
  <2>2. ASSUME NEW dist \in 1..DictSize, ~TooFar(dist)
        PROVE  Get(Back(dist)) = out[len - dist + 1]
    <3>1. dist <= len
      BY <2>1, <2>2, Sizes DEF TooFar
    <3> QED
      BY <2>1, <3>1, BackIsBefore, RingReads, Sizes
  <2>3. ASSUME len > 0 PROVE \A lit \in Byte : LastOr(lit) = out[len]
    <3>1. 1 \in 1..DictSize /\ ~TooFar(1) /\ len - 1 + 1 = len
      BY <2>1, <2>3, Sizes DEF TooFar
    <3>2. Get(Back(1)) = out[len - 1 + 1]
      BY <2>2, <3>1
    <3> QED
      BY <2>3, <3>1, <3>2 DEF LastOr
  <2> QED
    BY <2>2, <2>3 DEF ReadsBack
<1> QED
  BY <1>1, Inductive, PTL

-----------------------------------------------------------------------------
(* The sink is in order *)

\* s is the beginning of t, byte by byte.
Begins(s, t) == Len(s) <= Len(t) /\ \A i \in 1..Len(s) : s[i] = t[i]

LEMMA BeginsIsPrefix ==
    ASSUME NEW s \in Seq(Byte), NEW t \in Seq(Byte), Begins(s, t)
    PROVE  Window!IsPrefixOf(s, t)
<1> DEFINE u == SubSeq(t, 1, Len(s))
<1>1. Len(s) \in Nat /\ Len(t) \in Nat /\ Len(s) <= Len(t)
  BY LenProperties DEF Begins
<1>2. \A i \in 1..Len(s) : t[i] \in Byte
  BY <1>1, ElementOfSeq
<1>3. /\ u \in Seq(Byte) /\ Len(u) = Len(s)
      /\ \A i \in 1..Len(s) : u[i] = t[i]
  BY <1>1, <1>2, SubSeqProperties
<1>4. s = u
  <2> HIDE DEF u
  <2>1. \A i \in 1..Len(s) : s[i] = u[i]
    BY <1>3 DEF Begins
  <2> QED
    BY <1>3, <2>1, SeqEqual
<1> QED
  BY <1>1, <1>4 DEF Window!IsPrefixOf

\* The first n bytes of a sequence.
LEMMA FirstBytes ==
    ASSUME NEW t \in Seq(Byte), NEW n \in Nat, n <= Len(t)
    PROVE  /\ SubSeq(t, 1, n) \in Seq(Byte) /\ Len(SubSeq(t, 1, n)) = n
           /\ \A i \in 1..n : SubSeq(t, 1, n)[i] = t[i]
           /\ n = Len(t) => SubSeq(t, 1, n) = t
<1> DEFINE u == SubSeq(t, 1, n)
<1>1. Len(t) \in Nat /\ \A i \in 1..n : t[i] \in Byte
  BY LenProperties, ElementOfSeq
<1>2. /\ u \in Seq(Byte) /\ Len(u) = n
      /\ \A i \in 1..n : u[i] = t[i]
  BY <1>1, SubSeqProperties
<1>3. n = Len(t) => u = t
  <2> HIDE DEF u
  <2> QED
    BY <1>2, SeqEqual
<1> QED
  BY <1>2, <1>3

\* What follows the sink in the ring is what follows it in out.
LEMMA SinkAndRing ==
    ASSUME TypeOK, Ring, NEW r \in Seq(Byte), NEW t \in Seq(Byte),
           NEW k \in Nat, k <= Len(r), Len(sink) + k <= Len(t),
           Begins(out, t),
           \A i \in 1..k : r[i] = t[Len(sink) + i]
    PROVE  LET s == sink \o SubSeq(r, 1, k)
           IN  s \in Seq(Byte) /\ Len(s) = Len(sink) + k /\ Begins(s, t)
<1> DEFINE u == SubSeq(r, 1, k)
           s == sink \o u
<1>1. u \in Seq(Byte) /\ Len(u) = k /\ \A i \in 1..k : u[i] = r[i]
  BY FirstBytes
<1>2. /\ s \in Seq(Byte) /\ Len(s) = Len(sink) + k
      /\ \A i \in 1..Len(sink) : s[i] = sink[i]
      /\ \A i \in 1..k : s[Len(sink) + i] = u[i]
  <2> HIDE DEF u
  <2> QED
    BY <1>1, ConcatByte DEF TypeOK
<1>3. ASSUME NEW i \in 1..Len(s) PROVE s[i] = t[i]
  <2> HIDE DEF s, u
  <2>1. CASE i <= Len(sink)
    <3>1. i \in 1..Len(sink) /\ i \in 1..Len(out)
      BY <1>2, <2>1, Sizes
    <3> QED
      BY <1>2, <3>1 DEF Ring, Begins
  <2>2. CASE i > Len(sink)
    <3> DEFINE j == i - Len(sink)
    <3>1. j \in 1..k /\ Len(sink) + j = i
      BY <1>2, <2>2, Sizes
    <3> HIDE DEF j
    <3>2. s[Len(sink) + j] = u[j] /\ u[j] = r[j] /\ r[j] = t[Len(sink) + j]
      BY <1>1, <1>2, <3>1
    <3> QED
      BY <3>1, <3>2
  <2> QED
    BY <2>1, <2>2, <1>2, Sizes
<1> QED
  BY <1>2, <1>3 DEF Begins

\* What finish writes, wholly or in part, continues the sink as out does.
LEMMA PendingBytes ==
    ASSUME TypeOK, Ring, NEW k \in 0..cursor
    PROVE  LET s == sink \o SubSeq(buf, 1, k)
           IN  s \in Seq(Byte) /\ Len(s) = Len(sink) + k /\ Begins(s, out)
<1>1. buf \in Seq(Byte) /\ out \in Seq(Byte)
  BY DEF TypeOK
<1>2. k \in Nat /\ k <= Len(buf) /\ Len(sink) + k <= Len(out)
  BY Sizes
<1>3. \A i \in 1..k : buf[i] = out[Len(sink) + i]
  BY Sizes DEF Ring
<1>4. Begins(out, out)
  BY Sizes DEF Begins
<1> QED
  BY <1>1, <1>2, <1>3, <1>4, SinkAndRing

\* The sink and the pending part of the ring are the bytes appended, in order.
THEOREM SinkInOrder == Spec => []InOrder
<1>1. ASSUME IInv PROVE InOrder
  <2> SUFFICES ASSUME status = "open" PROVE out = sink \o SubSeq(buf, 1, cursor)
    BY DEF InOrder
  <2> DEFINE s == sink \o SubSeq(buf, 1, cursor)
  <2>1. TypeOK /\ Ring
    BY <1>1 DEF IInv
  <2>2. s \in Seq(Byte) /\ Len(s) = Len(sink) + cursor /\ Begins(s, out)
    BY <2>1, PendingBytes, Sizes
  <2>3. out \in Seq(Byte) /\ Len(s) = Len(out)
    BY <2>1, <2>2, Sizes DEF TypeOK
  <2> HIDE DEF s
  <2>4. s = out
    BY <2>2, <2>3, SeqEqual DEF Begins
  <2> QED
    BY <2>4 DEF s
<1> QED
  BY <1>1, Inductive, PTL

-----------------------------------------------------------------------------
(* The ring implements the window *)

\* The bytes appended by operations that returned, and the sink between
\* two operations.
Settled == SubSeq(out, 1, settled)

WindowVars == <<memlimit, Settled, 0, SinkSeen, Asked, status>>

\* What the window sees of an open ring.
LEMMA SeenFacts ==
    ASSUME TypeOK, Ring, Copying, status = "open"
    PROVE  /\ Settled \in Seq(Byte) /\ Len(Settled) = settled
           /\ Begins(Settled, out)
           /\ SinkSeen \in Seq(Byte) /\ Begins(SinkSeen, sink)
           /\ Begins(SinkSeen, Settled)
           /\ copy = NoCopy => Settled = out /\ SinkSeen = sink
           /\ settled \in Nat /\ settled <= len
           /\ Len(SinkSeen) <= settled
           /\ Len(SinkSeen) = Len(sink) \/ Len(SinkSeen) = settled
<1>1. /\ settled \in Nat /\ settled <= len /\ out \in Seq(Byte) /\ sink \in Seq(Byte)
      /\ copy = NoCopy => settled = len
  BY DEF TypeOK, Copying
<1>2. /\ Settled \in Seq(Byte) /\ Len(Settled) = settled
      /\ \A i \in 1..settled : Settled[i] = out[i]
      /\ copy = NoCopy => Settled = out
  BY <1>1, FirstBytes, Sizes DEF Settled
<1>3. Begins(Settled, out)
  BY <1>1, <1>2, Sizes DEF Begins
<1>4. CASE Len(sink) > settled
  <2>1. SinkSeen = SubSeq(sink, 1, settled)
    BY <1>4 DEF SinkSeen
  <2>2. /\ SinkSeen \in Seq(Byte) /\ Len(SinkSeen) = settled
        /\ \A i \in 1..settled : SinkSeen[i] = sink[i]
    BY <1>1, <1>4, <2>1, FirstBytes, Sizes
  <2>3. Begins(SinkSeen, sink)
    BY <1>1, <1>4, <2>2, Sizes DEF Begins
  <2>4. Begins(SinkSeen, Settled)
    <3>1. ASSUME NEW i \in 1..settled PROVE SinkSeen[i] = Settled[i]
      <4>1. i \in 1..Len(sink)
        BY <1>1, <1>4, Sizes
      <4> QED
        BY <1>2, <2>2, <4>1 DEF Ring
    <3> QED
      BY <1>1, <1>2, <2>2, <3>1 DEF Begins
  <2>5. copy # NoCopy
    BY <1>1, <1>4, Sizes
  <2> QED
    BY <1>1, <1>2, <1>3, <2>2, <2>3, <2>4, <2>5
<1>5. CASE Len(sink) <= settled
  <2>1. SinkSeen = sink
    BY <1>1, <1>5, Sizes DEF SinkSeen
  <2>2. Begins(SinkSeen, sink)
    BY <2>1, Sizes DEF Begins
  <2>3. Begins(SinkSeen, Settled)
    <3>1. ASSUME NEW i \in 1..Len(sink) PROVE sink[i] = Settled[i]
      <4>1. i \in 1..settled
        BY <1>1, <1>5, Sizes
      <4> QED
        BY <1>2, <4>1 DEF Ring
    <3> QED
      BY <1>2, <1>5, <2>1, <3>1 DEF Begins
  <2> QED
    BY <1>1, <1>2, <1>3, <1>5, <2>1, <2>2, <2>3
<1> QED
  BY <1>1, <1>4, <1>5, Sizes

LEMMA BeginsTransitive ==
    ASSUME NEW s \in Seq(Byte), NEW t \in Seq(Byte), NEW u \in Seq(Byte),
           Begins(s, t), Begins(t, u)
    PROVE  Begins(s, u)
<1>1. Len(s) \in Nat /\ Len(t) \in Nat /\ Len(u) \in Nat
  BY LenProperties
<1>2. \A i \in 1..Len(s) : i \in 1..Len(t)
  BY <1>1 DEF Begins
<1> QED
  BY <1>1, <1>2 DEF Begins

\* Two beginnings of a sequence: the shorter begins the longer.
LEMMA BeginsLinear ==
    ASSUME NEW s \in Seq(Byte), NEW t \in Seq(Byte), NEW u \in Seq(Byte),
           Begins(s, u), Begins(t, u), Len(s) <= Len(t)
    PROVE  Begins(s, t)
<1>1. Len(s) \in Nat /\ Len(t) \in Nat /\ Len(u) \in Nat
  BY LenProperties
<1>2. \A i \in 1..Len(s) : i \in 1..Len(t)
  BY <1>1
<1> QED
  BY <1>1, <1>2 DEF Begins

LEMMA InitRefines == Init => Window!Init
<1> SUFFICES ASSUME Init PROVE Window!Init
  OBVIOUS
<1>1. SubSeq(out, 1, settled) = <<>>
  BY SubSeqEmpty DEF Init
<1>2. SinkSeen = <<>>
  BY DEF Init, SinkSeen
<1> QED
  BY <1>1, <1>2, LimitAssumption DEF Init, Window!Init, Window!NoMatch, Asked

\* A step that appends bytes that are then settled extends what is produced.
LEMMA PutExtends ==
    ASSUME TypeOK, Ring, Copying, status = "open", NEW b \in Byte, Put(b),
           TypeOK', Ring', Copying', status' = "open", settled' = len',
           memlimit' = memlimit
    PROVE  /\ Window!Extends
           /\ Settled' = Append(out, b) /\ Len(Settled') = len + 1
<1>1. /\ Settled \in Seq(Byte) /\ Begins(Settled, out)
      /\ SinkSeen \in Seq(Byte) /\ Begins(SinkSeen, sink)
      /\ Len(SinkSeen) <= settled /\ settled <= len /\ settled \in Nat
      /\ sink \in Seq(Byte) /\ out \in Seq(Byte)
  BY SeenFacts DEF TypeOK
<1>2. /\ out' = Append(out, b) /\ Len(sink) <= Len(sink') /\ len' = len + 1
  BY PutRing
<1>3. out' \in Seq(Byte) /\ sink' \in Seq(Byte) /\ Len(out') = len' /\ settled' = len'
  BY DEF TypeOK, Ring
<1>4. Settled' = out'
  <2>1. len' \in Nat /\ SubSeq(out', 1, len') = out'
    BY <1>3, FirstBytes DEF TypeOK
  <2> QED
    BY <1>3, <2>1 DEF Settled
<1>5. SinkSeen' = sink'
  <2>1. ~(Len(sink') > settled')
    BY <1>3 DEF TypeOK, Ring
  <2> QED
    BY <2>1 DEF SinkSeen
<1>6. Begins(out, out')
  <2>1. /\ Len(Append(out, b)) = Len(out) + 1
        /\ \A i \in 1..Len(out) : Append(out, b)[i] = out[i]
    BY <1>1, AppendByte
  <2> QED
    BY <1>1, <1>2, <2>1, Sizes DEF Begins
<1>7. Begins(sink', out')
  <2>1. Len(sink') <= Len(out')
    BY <1>3 DEF TypeOK, Ring
  <2> QED
    BY <2>1 DEF Ring, Begins
<1>8. Begins(sink, out)
  BY Sizes DEF Ring, Begins
<1>9. Begins(sink, sink')
  BY <1>1, <1>2, <1>3, <1>6, <1>7, <1>8, BeginsTransitive, BeginsLinear
<1>10. Begins(Settled, out') /\ Begins(SinkSeen, sink')
  BY <1>1, <1>3, <1>6, <1>9, BeginsTransitive
<1>11. /\ Window!IsPrefixOf(Settled, Settled')
       /\ Window!IsPrefixOf(SinkSeen, SinkSeen')
       /\ Window!IsPrefixOf(SinkSeen', Settled')
  BY <1>1, <1>3, <1>4, <1>5, <1>7, <1>10, BeginsIsPrefix
<1> QED
  BY <1>2, <1>3, <1>4, <1>11 DEF Window!Extends, Settled

\* Each operation of the ring, as the window sees it.
LEMMA LiteralRefines ==
    ASSUME IInv, IInv', NEW b \in Byte, AppendLiteral(b), Put(b),
           settled' = len', status' = status
    PROVE  Window!AppendLiteral
<1>1. status = "open" /\ copy = NoCopy /\ memlimit' = memlimit
  BY DEF AppendLiteral, Idle
<1>2. TypeOK /\ Ring /\ Copying /\ TypeOK' /\ Ring' /\ Copying'
      /\ status' = "open" /\ RefusedAtLimit'
  BY <1>1 DEF IInv
<1>3. /\ Window!Extends
      /\ Settled' = Append(out, b) /\ Len(Settled') = len + 1
  BY <1>1, <1>2, PutExtends
<1>4. Settled = out /\ Len(Settled) = len
  BY <1>1, <1>2, SeenFacts, Sizes
<1>5. len' = len + 1
  BY <1>2, PutRing
<1>6. Window!Fits(1)
  <2>1. len + 1 <= memlimit \/ DictSize <= memlimit
    BY <1>1, <1>2, <1>5 DEF RefusedAtLimit
  <2>2. Window!Available = len
    <3>1. Len(Settled) = len /\ len \in Nat /\ settled = len
      BY <1>1, <1>2, <1>4, Sizes DEF Copying
    <3> QED
      BY <3>1 DEF Window!Available, Settled
  <2> QED
    BY <2>1, <2>2 DEF Window!Fits
<1>7. Asked = Window!NoMatch /\ Asked' = Window!NoMatch
  BY <1>1 DEF AppendLiteral, Asked, Window!NoMatch
<1> QED
  BY <1>1, <1>3, <1>4, <1>6, <1>7 DEF Window!AppendLiteral, Window!Idle, Settled

\* What a failed append_literal leaves in the sink begins with what was there
\* and is a beginning of the bytes appended, its own included.
LEMMA FailedSink ==
    ASSUME TypeOK, Ring, NEW b \in Byte, PutFails(b), status' = "io"
    PROVE  /\ sink' \in Seq(Byte) /\ out' \in Seq(Byte) /\ out' = Append(out, b)
           /\ Begins(sink, sink') /\ Begins(sink', out')
<1>1. PICK k \in 0..(DictSize - 1) :
         /\ cursor + 1 = DictSize /\ Stored(b)
         /\ sink' = sink \o SubSeq(buf', 1, k)
  BY DEF PutFails
<1>2. /\ buf' \in Seq(Byte) /\ Len(buf') = DictSize
      /\ out' = Append(out, b) /\ out' \in Seq(Byte) /\ Len(out') = len + 1
      /\ \A i \in 1..DictSize : buf'[i] = out'[Len(sink) + i]
  BY <1>1, FullRing
<1>3. Begins(out, out')
  <2>1. /\ Len(Append(out, b)) = Len(out) + 1
        /\ \A i \in 1..Len(out) : Append(out, b)[i] = out[i]
    BY AppendByte DEF TypeOK
  <2> QED
    BY <1>2, <2>1, Sizes DEF Begins
<1>4. /\ k \in Nat /\ k <= Len(buf') /\ Len(sink) + k <= Len(out')
      /\ \A i \in 1..k : buf'[i] = out'[Len(sink) + i]
  BY SMTT(30), <1>1, <1>2, Sizes
<1>5. sink' \in Seq(Byte) /\ Len(sink') = Len(sink) + k /\ Begins(sink', out')
  BY <1>1, <1>2, <1>3, <1>4, SinkAndRing
<1>6. Begins(sink, out)
  BY Sizes DEF Ring, Begins
<1>7. Len(sink) <= Len(sink') /\ sink \in Seq(Byte) /\ out \in Seq(Byte)
  BY <1>4, <1>5, Sizes DEF TypeOK
<1> QED
  BY <1>2, <1>3, <1>5, <1>6, <1>7, BeginsTransitive, BeginsLinear

LEMMA FailedLiteralRefines ==
    ASSUME IInv, IInv', NEW b \in Byte, AppendLiteral(b), PutFails(b),
           settled' = settled
    PROVE  Window!FailLiteral
<1>1. status = "open" /\ copy = NoCopy /\ memlimit' = memlimit
  BY DEF AppendLiteral, Idle
<1>2. TypeOK /\ Ring /\ Copying
  BY <1>1 DEF IInv
<1>3. /\ Settled = out /\ SinkSeen = sink /\ Len(Settled) = len
      /\ settled = len /\ out \in Seq(Byte) /\ sink \in Seq(Byte)
  BY <1>1, <1>2, SeenFacts, Sizes DEF TypeOK
<1>4. CASE SetFails(cursor) /\ status' = "limit"
           /\ UNCHANGED <<sink, buf, cursor, len, out>>
  <2>1. SinkSeen' = SinkSeen /\ Settled' = Settled
    BY <1>3, <1>4 DEF SinkSeen, Settled
  <2>2. Window!IsPrefixOf(SinkSeen, SinkSeen')
    <3>1. Begins(sink, sink)
      BY <1>2, Sizes DEF Begins
    <3> QED
      BY <1>3, <2>1, <3>1, BeginsIsPrefix
  <2>3. ~Window!Fits(1)
    <3>1. len = memlimit /\ memlimit < DictSize
      BY <1>1, <1>4 DEF IInv, RefusedAtLimit
    <3> QED
      BY <1>2, <1>3, <3>1, Sizes DEF Window!Fits, Window!Available, Settled
  <2> QED
    BY <1>1, <1>4, <2>1, <2>2, <2>3
       DEF Window!FailLiteral, Window!Fails, Window!Idle, Window!NoMatch, Asked, Settled
<1>5. CASE SinkMayFail /\ status' = "io" /\ Stored(b)
  <2>1. /\ sink' \in Seq(Byte) /\ out' \in Seq(Byte) /\ out' = Append(out, b)
        /\ Begins(sink, sink') /\ Begins(sink', out')
    BY <1>2, <1>5, FailedSink
  <2>2. SinkSeen' = sink'
    BY <1>5 DEF SinkSeen
  <2>3. Settled' = Settled
    <3>1. /\ Len(Append(out, b)) = Len(out) + 1
          /\ \A i \in 1..Len(out) : Append(out, b)[i] = out[i]
      BY <1>3, AppendByte
    <3>2. len \in Nat /\ len <= Len(out')
      BY <1>2, <2>1, <3>1, Sizes
    <3>3. /\ SubSeq(out', 1, len) \in Seq(Byte) /\ Len(SubSeq(out', 1, len)) = len
          /\ \A i \in 1..len : SubSeq(out', 1, len)[i] = out'[i]
      BY <2>1, <3>2, FirstBytes
    <3>4. SubSeq(out', 1, len) = out
      <4> DEFINE u == SubSeq(out', 1, len)
      <4> HIDE DEF u
      <4>1. u \in Seq(Byte) /\ Len(u) = Len(out) /\ \A i \in 1..Len(u) : u[i] = out[i]
        BY <1>2, <2>1, <3>1, <3>3, Sizes DEF u
      <4>2. u = out
        BY <1>3, <4>1, SeqEqual
      <4> QED
        BY <4>2 DEF u
    <3> QED
      BY <1>3, <3>4 DEF Settled
  <2>4. /\ Window!IsPrefixOf(SinkSeen, SinkSeen')
        /\ Window!IsPrefixOf(SinkSeen', Append(Settled, b))
    BY <1>3, <2>1, <2>2, BeginsIsPrefix
  <2> QED
    BY <1>1, <1>5, <2>3, <2>4 DEF Window!FailLiteral, Window!Fails, Window!Idle, Window!NoMatch, Asked, Settled
<1> QED
  BY <1>4, <1>5 DEF PutFails

LEMMA AppendLzRefines ==
    ASSUME IInv, NEW n \in 1..MaxLen, NEW dist \in 1..(DictSize + 1),
           AppendLz(n, dist)
    PROVE  Window!FailDistance \/ Window!AskLz(n, dist)
<1>1. /\ status = "open" /\ copy = NoCopy
      /\ UNCHANGED <<memlimit, sink, buf, cursor, len, out, settled>>
  BY DEF AppendLz, Idle
<1>2. TypeOK /\ Ring /\ Copying
  BY <1>1 DEF IInv
<1>3. Settled' = Settled
  BY <1>1 DEF Settled
<1>4. CASE TooFar(dist)
  <2>1. status' = "distance"
    BY <1>4 DEF AppendLz
  <2>2. SinkSeen = sink /\ SinkSeen' = sink
    BY <1>1, <1>2, <2>1, SeenFacts DEF SinkSeen
  <2>3. Window!IsPrefixOf(SinkSeen, SinkSeen')
    <3>1. Begins(sink, sink)
      BY <1>2, Sizes DEF Begins
    <3> QED
      BY <1>2, <2>2, <3>1, BeginsIsPrefix DEF TypeOK
  <2> QED
    BY <1>1, <1>3, <2>1, <2>2, <2>3
       DEF Window!FailDistance, Window!Fails, Window!Idle, Window!NoMatch, Asked, Settled
<1>5. CASE ~TooFar(dist)
  <2>1. status' = status
    BY <1>5 DEF AppendLz
  <2>2. SinkSeen' = SinkSeen
    BY <1>1, <2>1 DEF SinkSeen
  <2> QED
    <3>1. Asked = Window!NoMatch
      BY <1>1 DEF Asked, Window!NoMatch
    <3>2. /\ copy' = [left |-> n, offset |-> Back(dist), dist |-> dist]
          /\ n \in Nat \ {0} /\ dist \in Nat
      BY <1>5, BoundAssumption, DictSizeAssumption DEF AppendLz
    <3>3. copy' # NoCopy /\ copy'.left = n /\ copy'.dist = dist
      BY <3>2 DEF NoCopy
    <3>4. len' - settled' = 0 /\ len \in Nat /\ settled = len
      BY <1>1, <1>2, Sizes DEF Copying
    <3>5. Asked' = [n |-> n, dist |-> dist]
      BY <1>1, <2>1, <3>2, <3>3, <3>4 DEF Asked
    <3>6. Window!Servable(dist)
      <4>1. Len(Settled) = settled /\ settled \in Nat
        BY <1>1, <1>2, SeenFacts
      <4> QED
        BY <1>5, <3>2, <3>4, <4>1, DictSizeAssumption
           DEF TooFar, Window!Servable, Window!Available, Settled
    <3> QED
      BY <1>1, <1>3, <2>1, <2>2, <3>1, <3>5, <3>6
         DEF Window!AskLz, Window!Idle, Settled
<1> QED
  BY <1>4, <1>5

\* Bytes appended do not change the settled ones.
LEMMA SettledStays ==
    ASSUME TypeOK, Ring, NEW b \in Byte, out' = Append(out, b), settled' = settled
    PROVE  Settled' = Settled
<1>1. /\ out \in Seq(Byte) /\ settled \in Nat /\ settled <= Len(out)
      /\ Len(out) \in Nat
  BY Sizes DEF TypeOK
<1>2. /\ Append(out, b) \in Seq(Byte) /\ Len(Append(out, b)) = Len(out) + 1
      /\ \A i \in 1..Len(out) : Append(out, b)[i] = out[i]
  BY <1>1, AppendByte
<1> DEFINE s == SubSeq(out, 1, settled)
           t == SubSeq(out', 1, settled)
<1>3. s \in Seq(Byte) /\ Len(s) = settled /\ \A i \in 1..settled : s[i] = out[i]
  BY <1>1, FirstBytes
<1>4. t \in Seq(Byte) /\ Len(t) = settled /\ \A i \in 1..settled : t[i] = out'[i]
  <2>1. out' \in Seq(Byte) /\ settled <= Len(out')
    BY <1>1, <1>2
  <2> QED
    BY <1>1, <2>1, FirstBytes
<1>5. s = t
  <2> HIDE DEF s, t
  <2>1. \A i \in 1..Len(s) : s[i] = t[i]
    BY <1>1, <1>2, <1>3, <1>4
  <2> QED
    BY <1>3, <1>4, <2>1, SeqEqual
<1> QED
  BY <1>5 DEF Settled

\* The match under way: what it was asked for, and the bytes it has copied.
LEMMA MatchFacts ==
    ASSUME TypeOK, Ring, Copying, status = "open", copy # NoCopy
    PROVE  LET n == len - settled + copy.left
           IN  /\ n \in 1..MaxLen /\ copy.left \in Nat \ {0}
               /\ copy.dist \in 1..DictSize /\ copy.dist <= settled
               /\ settled \in Nat /\ settled <= len
<1>1. /\ copy.left \in Nat /\ copy.left > 0
      /\ settled \in Nat /\ settled <= len
      /\ copy.dist \in 0..DictSize /\ copy.dist > 0 /\ copy.dist <= settled
      /\ len - settled + copy.left <= MaxLen
  BY DEF TypeOK, Copying
<1> QED
  BY SMTT(30), <1>1, BoundAssumption, Sizes

\* The same facts, in a form that can be primed.
Open == TypeOK /\ Ring /\ Copying /\ status = "open"
Seen ==
    /\ SinkSeen \in Seq(Byte) /\ Begins(SinkSeen, Settled)
    /\ Len(SinkSeen) = Len(sink) \/ Len(SinkSeen) = settled

LEMMA SeenOpen == Open => Seen
  BY SeenFacts DEF Open, Seen

\* One byte of a match is copied, and it is not the last.
LEMMA CopySome ==
    ASSUME IInv, IInv', CopyByte, Put(Get(copy.offset)), status' = status,
           settled' = settled
    PROVE  Window!Drain
<1> DEFINE b == Get(copy.offset)
<1>1. status = "open" /\ copy # NoCopy /\ memlimit' = memlimit
  BY DEF CopyByte, NoCopy
<1>2. /\ TypeOK /\ Ring /\ Copying
      /\ TypeOK' /\ Ring' /\ Copying' /\ status' = "open"
  BY <1>1 DEF IInv
<1>3. b \in Byte
  BY <1>1, <1>2, CopiedByte
<1>4. Put(b)
  OBVIOUS
<1> HIDE DEF b
<1>5. out' = Append(out, b) /\ Len(sink) <= Len(sink') /\ len' = len + 1
  BY <1>2, <1>3, <1>4, PutRing
<1>6. Settled' = Settled
  BY <1>2, <1>3, <1>5, SettledStays
<1>7. /\ Settled \in Seq(Byte) /\ Len(Settled) = settled /\ Begins(Settled, out)
      /\ SinkSeen \in Seq(Byte) /\ Begins(SinkSeen, Settled)
      /\ settled \in Nat /\ Len(SinkSeen) <= settled
      /\ Len(SinkSeen) = Len(sink) \/ Len(SinkSeen) = settled
      /\ Begins(SinkSeen, sink)
  BY <1>1, <1>2, SeenFacts
<1>8. /\ SinkSeen' \in Seq(Byte) /\ Begins(SinkSeen', Settled')
      /\ Len(SinkSeen') = Len(sink') \/ Len(SinkSeen') = settled'
  <2>1. Open'
    BY <1>2 DEF Open
  <2>2. Seen'
    BY <2>1, SeenOpen, PTL
  <2> QED
    BY <2>2 DEF Seen, Begins
<1>9. Len(SinkSeen) <= Len(SinkSeen')
  <2>1. Len(SinkSeen) <= Len(sink)
    BY <1>7 DEF Begins
  <2>2. Len(sink) \in Nat /\ Len(sink') \in Nat /\ Len(SinkSeen) \in Nat
    BY <1>2, <1>7, LenProperties DEF TypeOK
  <2> QED
    BY <1>5, <1>7, <1>8, <2>1, <2>2
<1>10. Begins(SinkSeen, SinkSeen')
  BY <1>6, <1>7, <1>8, <1>9, BeginsLinear
<1>11. /\ Window!IsPrefixOf(SinkSeen, SinkSeen')
       /\ Window!IsPrefixOf(SinkSeen', Settled)
  BY <1>6, <1>7, <1>8, <1>10, BeginsIsPrefix
<1>12. Asked' = Asked
  <2>1. /\ copy.left # 1
        /\ copy' = [copy EXCEPT !.left = @ - 1, !.offset = NextOffset]
    <3>1. ~PutFails(Get(copy.offset))
      BY <1>2 DEF PutFails
    <3>2. settled' # len'
      BY <1>1, <1>2, <1>5, MatchFacts, Sizes
    <3> QED
      BY <3>1, <3>2 DEF CopyByte
  <2>2. /\ copy.left \in Nat \ {0} /\ copy'.left = copy.left - 1
        /\ copy'.dist = copy.dist
    BY <1>1, <1>2, <2>1, MatchFacts DEF TypeOK
  <2>3. copy' # NoCopy
    <3>1. copy'.left # 0
      BY <2>1, <2>2
    <3> QED
      BY <3>1 DEF NoCopy
  <2>4. len' - settled' + copy'.left = len - settled + copy.left
    <3>1. len \in Nat
      BY <1>2, Sizes
    <3>2. settled \in Nat
      BY <1>7
    <3>3. len' = len + 1
      BY <1>5
    <3> QED
      BY <2>2, <3>1, <3>2, <3>3
  <2> QED
    BY <1>1, <1>2, <2>2, <2>3, <2>4 DEF Asked
<1> QED
  BY <1>1, <1>2, <1>6, <1>11, <1>12 DEF Window!Drain, Settled

\* The last byte of a match is copied: append_lz returns.
LEMMA CopyLast ==
    ASSUME IInv, IInv', CopyByte, Put(Get(copy.offset)), status' = status,
           copy.left = 1, settled' = len'
    PROVE  \E n \in 1..MaxLen, dist \in 1..DictSize : Window!AppendLz(n, dist)
<1> DEFINE b == Get(copy.offset)
           n == len - settled + copy.left
           dist == copy.dist
<1>1. status = "open" /\ copy # NoCopy /\ memlimit' = memlimit
  BY DEF CopyByte, NoCopy
<1>2. /\ TypeOK /\ Ring /\ Copying
      /\ TypeOK' /\ Ring' /\ Copying' /\ status' = "open" /\ RefusedAtLimit'
  BY <1>1 DEF IInv
<1>3. b \in Byte
  BY <1>1, <1>2, CopiedByte
<1>4. Put(b)
  OBVIOUS
<1>5. /\ n \in 1..MaxLen /\ dist \in 1..DictSize /\ dist <= settled
      /\ settled \in Nat /\ settled <= len /\ n = len - settled + 1
  BY <1>1, <1>2, MatchFacts
<1>6. out' = Append(out, b) /\ len' = len + 1 /\ len \in Nat
  <2> HIDE DEF b
  <2> QED
    BY <1>2, <1>3, <1>4, PutRing, Sizes
<1>7. \A i \in (settled + 1)..(len + 1) : out'[i] = out'[i - dist]
  BY <1>1, <1>2, <1>6, Repeated
<1>8. Window!Extends /\ Settled' = Append(out, b) /\ Len(Settled') = len + 1
  <2> HIDE DEF b
  <2> QED
    BY <1>1, <1>2, <1>3, <1>4, PutExtends
<1>9. Len(Settled) = settled
  BY <1>1, <1>2, SeenFacts
<1>10. Asked = [n |-> n, dist |-> dist] /\ Asked' = Window!NoMatch
  <2>1. copy' = NoCopy
    BY <1>2 DEF CopyByte, PutFails
  <2> QED
    BY <1>1, <2>1 DEF Asked, Window!NoMatch
<1> HIDE DEF b, n, dist
<1>11. Window!Available = settled
  BY <1>5, <1>9 DEF Window!Available, Settled
<1>12. Window!Fits(n)
  <2>1. len + 1 <= memlimit \/ DictSize <= memlimit
    BY <1>1, <1>2, <1>6 DEF RefusedAtLimit
  <2> QED
    BY <1>5, <1>6, <1>11, <2>1 DEF Window!Fits
<1>13. Window!Repeats(Settled', Len(Settled), dist)
  BY <1>6, <1>7, <1>8, <1>9 DEF Window!Repeats
<1>14. Len(Settled') = Len(Settled) + n
  BY <1>5, <1>6, <1>8, <1>9
<1>15. dist <= DictSize
  BY <1>5, DictSizeAssumption
<1>16. Window!AppendLz(n, dist)
  BY <1>1, <1>5, <1>8, <1>10, <1>11, <1>12, <1>13, <1>14, <1>15
     DEF Window!AppendLz, Window!Asked, Window!Servable, Settled
<1> QED
  BY <1>5, <1>16

\* A byte of a match cannot be appended: the match fails, having delivered
\* some of its bytes or none.
LEMMA CopyFails ==
    ASSUME IInv, IInv', CopyByte, PutFails(Get(copy.offset)), settled' = settled
    PROVE  \E n \in 1..MaxLen, dist \in 1..DictSize : Window!FailLz(n, dist)
<1> DEFINE b == Get(copy.offset)
           n == len - settled + copy.left
           dist == copy.dist
<1>1. status = "open" /\ copy # NoCopy /\ memlimit' = memlimit
  BY DEF CopyByte, NoCopy
<1>2. TypeOK /\ Ring /\ Copying
  BY <1>1 DEF IInv
<1>3. b \in Byte
  BY <1>1, <1>2, CopiedByte
<1>4. /\ n \in 1..MaxLen /\ copy.left \in Nat \ {0}
      /\ dist \in 1..DictSize /\ dist <= settled
      /\ settled \in Nat /\ settled <= len /\ len \in Nat
      /\ settled + n = len + copy.left
  BY <1>1, <1>2, MatchFacts, Sizes
<1>5. /\ Settled \in Seq(Byte) /\ Len(Settled) = settled /\ Begins(Settled, out)
      /\ SinkSeen \in Seq(Byte) /\ Begins(SinkSeen, sink)
      /\ out \in Seq(Byte) /\ sink \in Seq(Byte)
  BY <1>1, <1>2, SeenFacts DEF TypeOK
<1>6. dist <= DictSize /\ Window!Available = settled
  BY <1>4, <1>5, DictSizeAssumption DEF Window!Available, Settled
<1>7. Asked = [n |-> n, dist |-> dist] /\ (status' # "open" => Asked' = Window!NoMatch)
  BY <1>1 DEF Asked, Window!NoMatch
<1>8. PutFails(b)
  OBVIOUS
<1> HIDE DEF b
<1>9. CASE SetFails(cursor) /\ status' = "limit"
           /\ UNCHANGED <<sink, buf, cursor, len, out>>
  <2>1. Settled' = Settled /\ SinkSeen' = sink
    BY <1>9 DEF Settled, SinkSeen
  <2>2. Window!IsPrefixOf(SinkSeen, SinkSeen')
    BY <1>5, <2>1, BeginsIsPrefix
  <2>3. ~Window!Fits(n)
    <3>1. len = memlimit /\ memlimit < DictSize
      BY <1>1, <1>9 DEF IInv, RefusedAtLimit
    <3> HIDE DEF n
    <3> QED
      BY <1>4, <1>6, <3>1, DictSizeAssumption DEF Window!Fits
  <2>4. Begins(sink, out)
    BY <1>2, Sizes DEF Ring, Begins
  <2>5. CASE Len(sink) <= settled
    <3>1. Begins(sink, Settled)
      BY <1>5, <2>4, <2>5, BeginsLinear
    <3>2. Window!IsPrefixOf(SinkSeen', Settled)
      BY <1>5, <2>1, <3>1, BeginsIsPrefix
    <3>3. Window!FailLz(n, dist)
      <4> HIDE DEF n, dist
      <4> QED
        BY <1>1, <1>4, <1>6, <1>7, <1>9, <2>1, <2>2, <2>3, <3>2
           DEF Window!FailLz, Window!Fails, Window!Asked, Window!Servable, Settled
    <3> QED
      BY <1>4, <3>3
  <2>6. CASE Len(sink) > settled
    <3>1. Begins(Settled, sink)
      <4>1. Len(Settled) <= Len(sink)
        BY <1>2, <1>4, <1>5, <2>6, Sizes
      <4> QED
        BY <1>5, <2>4, <4>1, BeginsLinear
    <3>2. Window!IsPrefixOf(Settled, SinkSeen')
      BY <1>5, <2>1, <3>1, BeginsIsPrefix
    <3>3. Len(SinkSeen') <= Len(Settled) + n
      <4> HIDE DEF n
      <4> QED
        BY <1>2, <1>4, <1>5, <2>1, Sizes
    <3>4. Window!Repeats(SinkSeen', Len(Settled), dist)
      <4>1. ASSUME NEW i \in (settled + 1)..Len(sink)
            PROVE  sink[i] = sink[i - dist]
        <5>1. /\ i \in 1..Len(sink) /\ i - dist \in 1..Len(sink)
              /\ i \in (settled + 1)..len
          BY SMTT(30), <1>2, <1>4, Sizes
        <5> QED
          BY <1>2, <5>1 DEF Ring, Copying
      <4> QED
        BY <1>5, <2>1, <4>1 DEF Window!Repeats
    <3>5. Window!FailLz(n, dist)
      <4> HIDE DEF n, dist
      <4> QED
        BY <1>1, <1>4, <1>6, <1>7, <1>9, <2>1, <2>2, <2>3, <3>2, <3>3, <3>4
           DEF Window!FailLz, Window!Fails, Window!Asked, Window!Servable, Settled
    <3> QED
      BY <1>4, <3>5
  <2> QED
    BY <1>2, <1>4, <2>5, <2>6, Sizes
<1>10. CASE SinkMayFail /\ status' = "io"
  <2>1. /\ sink' \in Seq(Byte) /\ out' \in Seq(Byte) /\ out' = Append(out, b)
        /\ Begins(sink, sink') /\ Begins(sink', out')
    BY <1>2, <1>3, <1>8, <1>10, FailedSink
  <2>2. Settled' = Settled /\ SinkSeen' = sink'
    <3>1. Settled' = Settled
      BY <1>2, <1>3, <2>1, SettledStays
    <3> QED
      BY <1>10, <3>1 DEF SinkSeen
  <2>3. Window!IsPrefixOf(SinkSeen, SinkSeen')
    <3>1. Begins(SinkSeen, sink')
      BY <1>5, <2>1, BeginsTransitive
    <3> QED
      BY <1>5, <2>1, <2>2, <3>1, BeginsIsPrefix
  <2>4. Len(out') = len + 1 /\ Len(sink') \in Nat /\ Len(sink') <= len + 1
    BY <1>2, <1>3, <1>5, <2>1, AppendByte, Sizes, LenProperties DEF Begins
  <2>5. Begins(Settled, out')
    <3>1. Begins(out, out')
      BY <1>2, <1>3, <1>5, <2>1, AppendByte, Sizes DEF Begins
    <3> QED
      BY <1>5, <2>1, <3>1, BeginsTransitive
  <2>6. CASE Len(sink') <= settled
    <3>1. Begins(sink', Settled)
      BY <1>5, <2>1, <2>5, <2>6, BeginsLinear
    <3>2. Window!IsPrefixOf(SinkSeen', Settled)
      BY <1>5, <2>1, <2>2, <3>1, BeginsIsPrefix
    <3>3. Window!FailLz(n, dist)
      <4> HIDE DEF n, dist
      <4> QED
        BY <1>1, <1>4, <1>6, <1>7, <1>10, <2>2, <2>3, <3>2
           DEF Window!FailLz, Window!Fails, Window!Asked, Window!Servable, Settled
    <3> QED
      BY <1>4, <3>3
  <2>7. CASE Len(sink') > settled
    <3>1. Begins(Settled, sink')
      <4>1. Len(Settled) <= Len(sink')
        BY <1>4, <1>5, <2>4, <2>7
      <4> QED
        BY <1>5, <2>1, <2>5, <4>1, BeginsLinear
    <3>2. Window!IsPrefixOf(Settled, SinkSeen')
      BY <1>5, <2>1, <2>2, <3>1, BeginsIsPrefix
    <3>3. Len(SinkSeen') <= Len(Settled) + n
      <4> HIDE DEF n
      <4> QED
        BY <1>4, <1>5, <2>2, <2>4
    <3>4. Window!Repeats(SinkSeen', Len(Settled), dist)
      <4>1. \A i \in (settled + 1)..(len + 1) : out'[i] = out'[i - dist]
        BY <1>1, <1>2, <2>1, Repeated DEF b
      <4>2. ASSUME NEW i \in (settled + 1)..Len(sink')
            PROVE  sink'[i] = sink'[i - dist]
        <5>1. /\ i \in 1..Len(sink') /\ i - dist \in 1..Len(sink')
              /\ i \in (settled + 1)..(len + 1)
          BY <1>4, <2>4
        <5> QED
          BY <2>1, <4>1, <5>1 DEF Begins
      <4> QED
        BY <1>5, <2>2, <4>2 DEF Window!Repeats
    <3>5. Window!FailLz(n, dist)
      <4> HIDE DEF n, dist
      <4> QED
        BY <1>1, <1>4, <1>6, <1>7, <1>10, <2>2, <2>3, <3>2, <3>3, <3>4
           DEF Window!FailLz, Window!Fails, Window!Asked, Window!Servable, Settled
    <3> QED
      BY <1>4, <3>5
  <2> QED
    BY <1>4, <2>4, <2>6, <2>7
<1> QED
  BY <1>8, <1>9, <1>10 DEF PutFails

LEMMA FinishRefines ==
    ASSUME IInv, Finish
    PROVE  Window!Finish \/ Window!FailFlush
<1>1. status = "open" /\ copy = NoCopy
      /\ UNCHANGED <<memlimit, buf, cursor, len, copy, out, settled>>
  BY DEF Finish, Idle
<1>2. TypeOK /\ Ring /\ Copying
  BY <1>1 DEF IInv
<1>3. /\ Settled = out /\ SinkSeen = sink /\ Settled' = Settled
      /\ out \in Seq(Byte) /\ sink \in Seq(Byte)
  BY <1>1, <1>2, SeenFacts DEF TypeOK, Settled
<1>4. CASE status' = "closed" /\ sink' = sink \o SubSeq(buf, 1, cursor)
  <2>1. sink' \in Seq(Byte) /\ Len(sink') = Len(out) /\ Begins(sink', out)
    <3>1. cursor \in 0..cursor /\ Len(sink) + cursor = Len(out)
      BY <1>2, Sizes
    <3> QED
      BY <1>2, <1>4, <3>1, PendingBytes
  <2>2. sink' = out
    BY <1>3, <2>1, SeqEqual DEF Begins
  <2>3. SinkSeen' = sink'
    BY <1>4 DEF SinkSeen
  <2>4. Window!Finish
    BY <1>1, <1>3, <1>4, <2>2, <2>3 DEF Window!Finish, Window!Idle, Window!NoMatch, Asked, Settled
  <2> QED
    BY <2>4
<1>5. CASE /\ SinkMayFail /\ status' = "io"
           /\ \E k \in 0..cursor : sink' = sink \o SubSeq(buf, 1, k)
  <2>1. PICK k \in 0..cursor : sink' = sink \o SubSeq(buf, 1, k)
    BY <1>5
  <2>2. sink' \in Seq(Byte) /\ Len(sink') = Len(sink) + k /\ Begins(sink', out)
    BY <1>2, <2>1, PendingBytes
  <2>3. Begins(sink, sink')
    <3>1. Begins(sink, out)
      BY <1>2, Sizes DEF Ring, Begins
    <3>2. Len(sink) <= Len(sink')
      BY <1>2, <2>1, <2>2, Sizes
    <3> QED
      BY <1>3, <2>2, <3>1, <3>2, BeginsLinear
  <2>4. SinkSeen' = sink'
    BY <1>5 DEF SinkSeen
  <2>5. /\ Window!IsPrefixOf(SinkSeen, SinkSeen')
        /\ Window!IsPrefixOf(SinkSeen', Settled)
    BY <1>3, <2>2, <2>3, <2>4, BeginsIsPrefix
  <2>6. Window!FailFlush
    BY <1>1, <1>3, <1>5, <2>5 DEF Window!FailFlush, Window!Fails, Window!Idle, Window!NoMatch, Asked, Settled
  <2> QED
    BY <2>6
<1> QED
  BY <1>4, <1>5 DEF Finish

LEMMA StepRefines ==
    IInv /\ IInv' /\ [Next]_vars => [Window!Next]_WindowVars
<1> SUFFICES ASSUME IInv, IInv', [Next]_vars
             PROVE  Window!Next \/ UNCHANGED WindowVars
  OBVIOUS
<1>1. ASSUME NEW b \in Byte, AppendLiteral(b)
      PROVE  Window!AppendLiteral \/ Window!FailLiteral
  BY <1>1, LiteralRefines, FailedLiteralRefines DEF AppendLiteral
<1>2. ASSUME NEW n \in 1..MaxLen, NEW dist \in 1..(DictSize + 1),
             AppendLz(n, dist)
      PROVE  Window!Next
  <2>1. CASE Window!FailDistance
    BY <2>1 DEF Window!Next
  <2>2. CASE Window!AskLz(n, dist)
    <3>1. dist \in 1..DictSize
      BY <2>2, DictSizeAssumption DEF Window!AskLz, Window!Servable
    <3> QED
      BY <2>2, <3>1 DEF Window!Next
  <2> QED
    BY <1>2, <2>1, <2>2, AppendLzRefines
<1>3. ASSUME CopyByte
      PROVE  \/ Window!Drain
             \/ \E n \in 1..MaxLen, dist \in 1..DictSize :
                   Window!AppendLz(n, dist) \/ Window!FailLz(n, dist)
  <2>1. CASE PutFails(Get(copy.offset)) /\ settled' = settled
    BY <1>3, <2>1, CopyFails
  <2>2. CASE /\ Put(Get(copy.offset)) /\ status' = status
             /\ copy.left = 1 /\ settled' = len'
    BY <1>3, <2>2, CopyLast
  <2>3. CASE /\ Put(Get(copy.offset)) /\ status' = status
             /\ settled' = settled
    BY <1>3, <2>3, CopySome
  <2> QED
    BY <1>3, <2>1, <2>2, <2>3 DEF CopyByte
<1>4. ASSUME Finish PROVE Window!Finish \/ Window!FailFlush
  BY <1>4, FinishRefines
<1>5. CASE UNCHANGED vars
  BY <1>5 DEF vars, WindowVars, Settled, SinkSeen, Asked
<1> QED
  BY <1>1, <1>2, <1>3, <1>4, <1>5 DEF Next, Window!Next

\* The ring of dict_size bytes implements the unbounded window, which appends
\* nothing but literals and the matches it is asked for: a match under way ends
\* with as many bytes as were asked for, which repeat what is at the distance
\* that was asked for, or fails; the sink gets every byte once and in order.
THEOREM RingImplementsWindow == Spec => ImplementsWindow
<1>1. IInv /\ IInv' /\ [Next]_vars => [Window!Next]_WindowVars
  BY StepRefines
<1>2. WindowVars = Window!vars
  BY DEF WindowVars, Window!vars, Settled
<1> QED
  BY <1>1, <1>2, Inductive, InitRefines, PTL
     DEF Spec, ImplementsWindow, Window!Spec, WindowVars, Window!vars, Settled

=============================================================================
