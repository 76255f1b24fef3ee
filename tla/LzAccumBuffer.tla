---------------------------- MODULE LzAccumBuffer ----------------------------
(***************************************************************************)
(* decode::lzbuffer::LzAccumBuffer, the window of the LZMA2 decoder: it    *)
(* keeps every byte since the last dictionary reset, and writes them to    *)
(* the sink when it is reset or finished.  Positions in buf are counted    *)
(* from 0, as in the code.                                                 *)
(***************************************************************************)
EXTENDS LzCopy

CONSTANTS
    Byte,         \* the values of a byte
    MemLimit,     \* memlimit (usize::MAX in the LZMA2 decoder)
    MaxLen,       \* the longest match, and bound: the longest append_bytes
    MaxOut,       \* bound: bytes appended
    SinkMayFail   \* the output sink may return an error

ASSUME ByteAssumption == Byte \subseteq Nat
ASSUME BoundAssumption == MemLimit \in Nat /\ MaxLen \in Nat /\ MaxOut \in Nat
ASSUME SinkAssumption == SinkMayFail \in BOOLEAN

VARIABLES
    sink,    \* what the output sink has received
    buf,     \* buf
    len,     \* len
    status,  \* "open", then the error an operation met, or "closed"
    out,     \* history: every byte appended
    base     \* history: how many of them before the last reset

vars == <<sink, buf, len, status, out, base>>

Init ==
    /\ sink = <<>> /\ buf = <<>> /\ len = 0 /\ status = "open"
    /\ out = <<>> /\ base = 0

Open == status = "open"

First(s, n) == SubSeq(s, 1, n)

\* A slip for Push: the bytes are not counted.
PushUncounted(s) == buf' = buf \o s /\ out' = out \o s /\ UNCHANGED len

\* The bytes s are pushed.
Push(s) == buf' = buf \o s /\ out' = out \o s /\ len' = len + Len(s)

\* The sink fails after at most n bytes of buf.
WriteFails(n) ==
    /\ SinkMayFail /\ status' = "io"
    /\ \E k \in 0..n : sink' = sink \o First(buf, k)

-----------------------------------------------------------------------------

\* append_bytes, of an uncompressed chunk.
AppendBytes(s) ==
    /\ Open /\ Len(out) + Len(s) <= MaxOut
    /\ Push(s)
    /\ UNCHANGED <<sink, status, base>>

AppendLiteral(b) ==
    /\ Open /\ Len(out) + 1 <= MaxOut
    /\ IF len + 1 > MemLimit
       THEN status' = "limit" /\ UNCHANGED <<buf, out, len>>
       ELSE Push(<<b>>) /\ UNCHANGED status
    /\ UNCHANGED <<sink, base>>

\* A slip for Copied: the bytes are taken before any is pushed.
CopiedAtOnce(n, dist) ==
    [i \in 1..n |-> LET k == Len(buf) - dist + i
                    IN  IF k <= Len(buf) THEN buf[k] ELSE 0]

\* What the loop of append_lz pushes.
Copied(n, dist) == Repeated(buf, n, dist)

TooFar(dist) == dist > Len(buf)

AppendLz(n, dist) ==
    /\ Open /\ Len(out) + n <= MaxOut
    /\ IF TooFar(dist)
       THEN status' = "distance" /\ UNCHANGED <<buf, out, len>>
       ELSE Push(Copied(n, dist)) /\ UNCHANGED status
    /\ UNCHANGED <<sink, base>>

\* A slip for Reset: the dictionary is written and kept.
ResetKeeps ==
    /\ Open
    /\ sink' = sink \o buf /\ len' = 0 /\ base' = Len(out)
    /\ UNCHANGED <<buf, status, out>>

\* reset: the dictionary is written out and forgotten.
Reset ==
    /\ Open
    /\ \/ sink' = sink \o buf /\ buf' = <<>> /\ len' = 0 /\ base' = Len(out)
          /\ UNCHANGED status
       \/ WriteFails(Len(buf) - 1) /\ UNCHANGED <<buf, len, base>>
    /\ UNCHANGED out

\* finish: the dictionary is written, and the sink flushed, which may fail too.
Finish ==
    /\ Open
    /\ \/ status' = "closed" /\ sink' = sink \o buf
       \/ WriteFails(Len(buf))
    /\ UNCHANGED <<buf, len, out, base>>

Next ==
    \/ \E n \in 1..MaxLen : \E s \in [1..n -> Byte] : AppendBytes(s)
    \/ \E b \in Byte : AppendLiteral(b)
    \/ \E n \in 1..MaxLen, dist \in 1..(MaxOut + 1) : AppendLz(n, dist)
    \/ Reset \/ Finish

Spec == Init /\ [][Next]_vars

-----------------------------------------------------------------------------
(* Properties *)

\* Type invariant: len, which literals are counted against, is the length of
\* the buffer they are pushed to.
TypeOK ==
    /\ sink \in Seq(Byte) /\ out \in Seq(Byte) /\ buf \in Seq(Byte)
    /\ len = Len(buf) /\ base \in 0..Len(out)
    /\ status \in {"open", "closed", "limit", "distance", "io"}

\* A match that append_lz accepts repeats what is dist bytes before, the bytes
\* it appends itself included, and nothing from before the last reset.
MatchesRepeat ==
    [][\A n \in 1..MaxLen, dist \in 1..MaxOut :
          AppendLz(n, dist) /\ status' = "open" =>
              \A i \in (Len(out) + 1)..(Len(out) + n) :
                  i - dist > base /\ out'[i] = out'[i - dist]]_vars

\* The window that is promised, over resets: what was appended before one is
\* in the sink, entire and in order, and no byte is delivered twice.
Window ==
    INSTANCE LzWindow WITH
        memlimit <- MemLimit, produced <- out,
        asked <- [n |-> 0, dist |-> 0],  \* a match is one step
        Reach <- MemLimit + MaxOut + 1, LimitMatches <- FALSE

ImplementsWindow == Window!SpecWithRaw

=============================================================================
