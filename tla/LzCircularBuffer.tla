-------------------------- MODULE LzCircularBuffer --------------------------
(***************************************************************************)
(* decode::lzbuffer::LzCircularBuffer, the window of the .lzma decoders: a *)
(* ring of dict_size bytes that grows as it is first filled, is written to *)
(* the sink each time the cursor comes round, and serves the matches.      *)
(*                                                                         *)
(* A match is copied a byte a step, each through append_literal, so that   *)
(* the ring may wrap, be flushed, reach its limit or fail in the middle of *)
(* one.  Positions in buf are counted from 0, as in the code.              *)
(***************************************************************************)
EXTENDS Integers, Sequences

CONSTANTS
    Byte,         \* the values of a byte
    DictSize,     \* dict_size
    MemLimits,    \* the memory limits a window may be given
    MaxLen,       \* the longest match
    MaxOut,       \* bound: bytes appended
    SinkMayFail   \* the output sink may return an error

ASSUME ByteAssumption == Byte \subseteq Nat /\ 0 \in Byte
ASSUME DictSizeAssumption == DictSize \in Nat \ {0}
ASSUME LimitAssumption == MemLimits \subseteq Nat
ASSUME BoundAssumption == MaxLen \in Nat /\ MaxOut \in Nat
ASSUME SinkAssumption == SinkMayFail \in BOOLEAN

VARIABLES
    memlimit, \* memlimit
    sink,     \* what the output sink has received
    buf,      \* buf
    cursor,   \* cursor
    len,      \* len
    copy,     \* the append_lz under way, or NoCopy
    status,   \* "open", then the error an operation met, or "closed"
    out,      \* history: every byte appended
    settled   \* history: how many of them by operations that returned

vars == <<memlimit, sink, buf, cursor, len, copy, status, out, settled>>

NoCopy == [left |-> 0, offset |-> 0, dist |-> 0]

Init ==
    /\ memlimit \in MemLimits
    /\ sink = <<>> /\ buf = <<>> /\ cursor = 0 /\ len = 0
    /\ copy = NoCopy /\ status = "open"
    /\ out = <<>> /\ settled = 0

Idle == status = "open" /\ copy = NoCopy

-----------------------------------------------------------------------------
(* get, last_or, last_n *)

Get(i) == IF i < Len(buf) THEN buf[i + 1] ELSE 0

\* A slip for Back: the ring's end is not wrapped around.
BackUnwrapped(dist) == IF dist <= cursor THEN cursor - dist ELSE 0

\* Where the byte dist bytes back is.
Back(dist) == (DictSize + cursor - dist) % DictSize

LastOr(lit) == IF len = 0 THEN lit ELSE Get(Back(1))

TooFar(dist) == dist > DictSize \/ dist > len

-----------------------------------------------------------------------------
(* set, and what append_literal does with a byte *)

\* Slips for SetFails: the limit taken for an index, or not to be reached.
SetFailsLate(i)  == Len(buf) < i + 1 /\ i > memlimit
SetFailsEarly(i) == Len(buf) < i + 1 /\ i + 1 >= memlimit

SetFails(i) == Len(buf) < i + 1 /\ i + 1 > memlimit

\* buf once set(i, value) has resized it if it must.
Set(i, value) ==
    IF Len(buf) < i + 1
    THEN [j \in 1..(i + 1) |->
             IF j = i + 1 THEN value ELSE IF j <= Len(buf) THEN buf[j] ELSE 0]
    ELSE [buf EXCEPT ![i + 1] = value]

Stored(b) ==
    /\ ~SetFails(cursor)
    /\ buf' = Set(cursor, b)
    /\ len' = len + 1 /\ out' = Append(out, b)

\* A slip for Put: the part of the ring before the cursor is written.
PutShort(b) ==
    /\ Stored(b)
    /\ IF cursor + 1 = DictSize
       THEN cursor' = 0 /\ sink' = sink \o SubSeq(buf', 1, cursor)
       ELSE cursor' = cursor + 1 /\ UNCHANGED sink

\* append_literal(b) returns Ok; a full ring has been written to the sink.
Put(b) ==
    /\ Stored(b)
    /\ IF cursor + 1 = DictSize
       THEN cursor' = 0 /\ sink' = sink \o buf'
       ELSE cursor' = cursor + 1 /\ UNCHANGED sink

\* append_literal(b) fails: on the limit, or on a sink that takes a part.
PutFails(b) ==
    \/ /\ SetFails(cursor) /\ status' = "limit"
       /\ UNCHANGED <<sink, buf, cursor, len, out>>
    \/ /\ SinkMayFail /\ cursor + 1 = DictSize /\ status' = "io"
       /\ Stored(b) /\ cursor' = cursor + 1
       /\ \E k \in 0..(DictSize - 1) : sink' = sink \o SubSeq(buf', 1, k)

-----------------------------------------------------------------------------
(* The operations *)

AppendLiteral(b) ==
    /\ Idle /\ len + 1 <= MaxOut
    /\ \/ Put(b) /\ settled' = len' /\ UNCHANGED status
       \/ PutFails(b) /\ UNCHANGED settled
    /\ UNCHANGED <<memlimit, copy>>

\* append_lz(n, dist), up to its loop.
AppendLz(n, dist) ==
    /\ Idle /\ len + n <= MaxOut
    /\ IF TooFar(dist)
       THEN status' = "distance" /\ UNCHANGED copy
       ELSE /\ copy' = [left |-> n, offset |-> Back(dist), dist |-> dist]
            /\ UNCHANGED status
    /\ UNCHANGED <<memlimit, sink, buf, cursor, len, out, settled>>

\* A slip for NextOffset: the offset is left to run past the ring's end.
NextOffsetUnwrapped == copy.offset + 1

NextOffset == IF copy.offset + 1 = DictSize THEN 0 ELSE copy.offset + 1

\* One turn of the loop of append_lz, and its return after the last one.
CopyByte ==
    /\ status = "open" /\ copy.left > 0 /\ UNCHANGED memlimit
    /\ \/ /\ Put(Get(copy.offset))
          /\ IF copy.left = 1
             THEN copy' = NoCopy /\ settled' = len'
             ELSE /\ copy' = [copy EXCEPT !.left = @ - 1, !.offset = NextOffset]
                  /\ UNCHANGED settled
          /\ UNCHANGED status
       \/ PutFails(Get(copy.offset)) /\ UNCHANGED <<copy, settled>>

\* finish: what is before the cursor is written, and the sink flushed.
Finish ==
    /\ Idle
    /\ \/ status' = "closed" /\ sink' = sink \o SubSeq(buf, 1, cursor)
       \/ /\ SinkMayFail /\ status' = "io"
          /\ \E k \in 0..cursor : sink' = sink \o SubSeq(buf, 1, k)
    /\ UNCHANGED <<memlimit, buf, cursor, len, copy, out, settled>>

Next ==
    \/ \E b \in Byte : AppendLiteral(b)
    \/ \E n \in 1..MaxLen, dist \in 1..(DictSize + 1) : AppendLz(n, dist)
    \/ CopyByte \/ Finish

Spec == Init /\ [][Next]_vars

-----------------------------------------------------------------------------
(* Properties *)

Errors == {"limit", "distance", "io"}

\* Type invariant: the ring never outgrows dict_size, nor memlimit.
TypeOK ==
    /\ memlimit \in MemLimits
    /\ sink \in Seq(Byte) /\ out \in Seq(Byte)
    /\ buf \in Seq(Byte) /\ Len(buf) <= DictSize /\ Len(buf) <= memlimit
    /\ cursor \in 0..DictSize
    /\ len \in Nat /\ settled \in 0..len
    /\ copy \in [left : Nat, offset : 0..(DictSize - 1), dist : 0..DictSize]
    /\ status \in {"open", "closed"} \cup Errors

\* The sink and what the ring holds before its cursor are the bytes appended,
\* in order: none is written twice, none is overwritten before it is written,
\* wherever the wraps fall (append_literal and finish).
InOrder == status = "open" => out = sink \o SubSeq(buf, 1, cursor)

\* The reads the decoder bases a literal's context and a match on: at every
\* distance last_n accepts, and whatever was overwritten, it answers the byte
\* appended that many bytes ago; last_or answers the last one.
ReadsBack ==
    status = "open" =>
        /\ \A dist \in 1..DictSize :
              ~TooFar(dist) => Get(Back(dist)) = out[len - dist + 1]
        /\ \A lit \in Byte : len > 0 => LastOr(lit) = out[len]

\* memlimit refuses a byte only when the ring holds memlimit bytes and would
\* have to grow: a dictionary within the limit is never refused anything, in
\* the middle of a match or not, however much goes through it.
RefusedAtLimit ==
    /\ status = "limit" => len = memlimit /\ memlimit < DictSize
    /\ status = "open" => len <= memlimit \/ DictSize <= memlimit

\* The sink as an observer between two operations sees it: what a match under
\* way has sent of itself counts once append_lz returns, or fails.
SinkSeen ==
    IF status = "open" /\ Len(sink) > settled THEN SubSeq(sink, 1, settled)
                                              ELSE sink

\* The match append_lz is at: all its bytes, those that are copied included.
Asked ==
    IF status # "open" \/ copy = NoCopy THEN [n |-> 0, dist |-> 0]
    ELSE [n |-> len - settled + copy.left, dist |-> copy.dist]

\* The window the decoder is promised, with the operations of the trait only:
\* between the request for a match and its last byte nothing else is appended,
\* and the bytes appended are as many as were asked for and repeat what is at
\* the distance asked for, although the ring is overwritten while it is read;
\* the sink gets the bytes in order; the limit and the sink fail an operation
\* only as they may.
Window ==
    INSTANCE LzWindow WITH
        produced <- SubSeq(out, 1, settled), sink <- SinkSeen, base <- 0, asked <- Asked,
        Reach <- DictSize, LimitMatches <- TRUE

ImplementsWindow == Window!Spec

=============================================================================
