------------------------- MODULE LzAccumBufferProofs -------------------------
(***************************************************************************)
(* The accumulating window: it implements the window the symbol decoder is *)
(* promised (LzWindow), whatever the bytes, the limits and the sink.       *)
(***************************************************************************)
EXTENDS LzAccumBuffer, RecursionLemmas, SequenceTheorems

-----------------------------------------------------------------------------
(* What the loop of append_lz pushes *)

LEMMA CopiedRepeats ==
    ASSUME buf \in Seq(Byte), NEW n \in Nat, NEW dist \in 1..Len(buf)
    PROVE  /\ Copied(n, dist) \in Seq(Byte) /\ Len(Copied(n, dist)) = n
           /\ \A i \in 1..n : Copied(n, dist)[i] = (buf \o Copied(n, dist))[Len(buf) - dist + i]
BY RepeatedRepeats DEF Copied

-----------------------------------------------------------------------------
(* The inductive invariant *)

LEMMA Joined ==
    ASSUME NEW r \in Seq(Byte), NEW s \in Seq(Byte), NEW t \in Seq(Byte)
    PROVE  r \o s \in Seq(Byte) /\ (r \o s) \o t = r \o (s \o t)
BY ConcatAssociative

LEMMA LenJoined ==
    ASSUME NEW s \in Seq(Byte), NEW t \in Seq(Byte)
    PROVE  /\ Len(s \o t) = Len(s) + Len(t)
           /\ \A k \in 1..Len(t) : (s \o t)[Len(s) + k] = t[k]
OBVIOUS

\* While the window is open, the sink and the dictionary make up what was
\* appended, and the sink has what comes before the last reset.
Split == status = "open" => sink \o buf = out /\ Len(sink) = base

IInv == TypeOK /\ Split

LEMMA InitHolds == Init => IInv
BY DEF Init, IInv, TypeOK, Split

\* The bytes pushed get into the history and into the dictionary alike.
LEMMA PushKeeps ==
    ASSUME IInv, Open, NEW s \in Seq(Byte), Push(s), UNCHANGED <<sink, base, status>>
    PROVE  IInv'
<1>1. /\ sink \in Seq(Byte) /\ buf \in Seq(Byte) /\ out \in Seq(Byte)
      /\ len = Len(buf) /\ base \in 0..Len(out) /\ status = "open"
      /\ sink \o buf = out /\ Len(sink) = base
  BY DEF IInv, TypeOK, Split, Open
<1>2. buf' = buf \o s /\ out' = out \o s /\ len' = len + Len(s)
  BY DEF Push
<1>3. /\ buf' \in Seq(Byte) /\ out' \in Seq(Byte) /\ len' = Len(buf')
      /\ Len(out') = Len(out) + Len(s)
  BY <1>1, <1>2
<1>4. sink \o buf' = out'
  <2>0. sink \in Seq(Byte) /\ buf \in Seq(Byte)
    BY <1>1
  <2>1. (sink \o buf) \o s = sink \o (buf \o s)
    BY <2>0, Joined, Zenon
  <2> QED
    BY <1>1, <1>2, <2>1
<1>5. base \in 0..Len(out')
  BY <1>1, <1>3
<1> QED
  BY <1>1, <1>3, <1>4, <1>5 DEF IInv, TypeOK, Split

LEMMA AppendBytesKeeps ==
    ASSUME IInv, NEW n \in 1..MaxLen, NEW s \in [1..n -> Byte], AppendBytes(s)
    PROVE  IInv'
<1>1. s \in Seq(Byte)
  OBVIOUS
<1> QED
  BY <1>1, PushKeeps DEF AppendBytes

LEMMA AppendLiteralKeeps ==
    ASSUME IInv, NEW b \in Byte, AppendLiteral(b)
    PROVE  IInv'
<1>1. <<b>> \in Seq(Byte)
  OBVIOUS
<1>2. CASE len + 1 > MemLimit
  BY <1>2 DEF AppendLiteral, IInv, TypeOK, Split
<1>3. CASE ~ (len + 1 > MemLimit)
  BY <1>1, <1>3, PushKeeps DEF AppendLiteral
<1> QED
  BY <1>2, <1>3

LEMMA AppendLzKeeps ==
    ASSUME IInv, NEW n \in 1..MaxLen, NEW dist \in 1..(MaxOut + 1), AppendLz(n, dist)
    PROVE  IInv'
<1>1. CASE TooFar(dist)
  BY <1>1 DEF AppendLz, IInv, TypeOK, Split
<1>2. CASE ~ TooFar(dist)
  <2>1. buf \in Seq(Byte)
    BY DEF IInv, TypeOK
  <2>2. dist \in 1..Len(buf) /\ n \in Nat
    BY <1>2, <2>1, BoundAssumption DEF TooFar
  <2>3. Copied(n, dist) \in Seq(Byte)
    BY <2>1, <2>2, CopiedRepeats
  <2> QED
    BY <1>2, <2>3, PushKeeps DEF AppendLz
<1> QED
  BY <1>1, <1>2

\* What the sink has when it fails is a part of what was appended.
LEMMA WriteFailsKeeps ==
    ASSUME IInv, Open, NEW n \in Int, n <= Len(buf), WriteFails(n)
    PROVE  /\ sink' \in Seq(Byte) /\ status' = "io"
           /\ Window!IsPrefixOf(sink, sink') /\ Window!IsPrefixOf(sink', out)
<1>1. /\ sink \in Seq(Byte) /\ buf \in Seq(Byte) /\ sink \o buf = out
  BY DEF IInv, TypeOK, Split, Open
<1>2. PICK k \in 0..n : sink' = sink \o SubSeq(buf, 1, k)
  BY DEF WriteFails, First
<1>3. k \in 0..Len(buf)
  BY <1>1
<1>4. SubSeq(buf, 1, k) \in Seq(Byte) /\ Len(SubSeq(buf, 1, k)) = k
  BY <1>1, <1>3
<1>5. sink' \in Seq(Byte) /\ Len(sink') = Len(sink) + k
  BY <1>1, <1>2, <1>4
<1>6. Len(out) = Len(sink) + Len(buf)
  BY <1>1
<1>7. SubSeq(sink', 1, Len(sink)) = sink
  BY <1>1, <1>2, <1>4
<1>8. SubSeq(out, 1, Len(sink')) = sink'
  BY <1>1, <1>2, <1>3, <1>4, <1>5
<1> QED
  BY <1>1, <1>3, <1>5, <1>6, <1>7, <1>8 DEF WriteFails, Window!IsPrefixOf

LEMMA ResetHolds ==
    ASSUME IInv, Reset
    PROVE  IInv'
<1>1. /\ sink \in Seq(Byte) /\ buf \in Seq(Byte) /\ out \in Seq(Byte)
      /\ len = Len(buf) /\ base \in 0..Len(out) /\ sink \o buf = out /\ Open
  BY DEF IInv, TypeOK, Split, Reset, Open
<1>2. CASE WriteFails(Len(buf) - 1) /\ UNCHANGED <<buf, len, base, out>>
  <2>1. Len(buf) - 1 \in Int /\ Len(buf) - 1 <= Len(buf)
    BY <1>1
  <2>2. sink' \in Seq(Byte) /\ status' = "io"
    BY <1>1, <1>2, <2>1, WriteFailsKeeps
  <2> QED
    BY <1>1, <1>2, <2>2 DEF IInv, TypeOK, Split
<1>3. CASE /\ sink' = sink \o buf /\ buf' = <<>> /\ len' = 0
           /\ base' = Len(out) /\ UNCHANGED <<status, out>>
  <2>1. /\ sink' = out /\ sink' \o buf' = out /\ Len(buf') = 0 /\ buf' \in Seq(Byte)
        /\ base' \in 0..Len(out)
    BY <1>1, <1>3
  <2> QED
    BY <1>1, <1>3, <2>1 DEF IInv, TypeOK, Split
<1> QED
  BY <1>2, <1>3 DEF Reset

LEMMA FinishKeeps ==
    ASSUME IInv, Finish
    PROVE  IInv'
<1>1. /\ sink \in Seq(Byte) /\ buf \in Seq(Byte) /\ sink \o buf = out /\ Open
  BY DEF IInv, TypeOK, Split, Finish, Open
<1>2. CASE status' = "closed" /\ sink' = sink \o buf
  <2>1. sink' \in Seq(Byte)
    BY <1>1, <1>2, Joined
  <2> QED
    BY <1>2, <2>1 DEF Finish, IInv, TypeOK, Split
<1>3. CASE WriteFails(Len(buf))
  <2>1. Len(buf) \in Int /\ Len(buf) <= Len(buf)
    BY <1>1
  <2>2. sink' \in Seq(Byte) /\ status' = "io"
    BY <1>1, <1>3, <2>1, WriteFailsKeeps
  <2> QED
    BY <2>2 DEF Finish, IInv, TypeOK, Split
<1> QED
  BY <1>2, <1>3 DEF Finish

LEMMA NextKeeps == IInv /\ [Next]_vars => IInv'
<1> SUFFICES ASSUME IInv, [Next]_vars PROVE IInv'
  OBVIOUS
<1>1. CASE UNCHANGED vars
  BY <1>1 DEF vars, IInv, TypeOK, Split
<1>2. CASE Next
  BY <1>2, AppendBytesKeeps, AppendLiteralKeeps, AppendLzKeeps, ResetHolds, FinishKeeps
     DEF Next
<1> QED
  BY <1>1, <1>2

LEMMA Inductive == Spec => []IInv
BY InitHolds, NextKeeps, PTL DEF Spec

\* The lengths and the histories have their types, and len, which the limit is
\* compared with, is the length of the buffer after every operation.
THEOREM TypeCorrect == Spec => []TypeOK
<1>1. IInv => TypeOK
  BY DEF IInv
<1> QED
  BY <1>1, Inductive, PTL

-----------------------------------------------------------------------------
(* Matches *)

\* What a match adds repeats what is dist bytes before it, since the last reset.
LEMMA MatchRepeats ==
    ASSUME IInv, Open, NEW n \in 1..MaxLen, NEW dist \in 1..Len(buf)
    PROVE  /\ Len(out \o Copied(n, dist)) = Len(out) + n
           /\ \A i \in (Len(out) + 1)..(Len(out) + n) :
                 /\ i - dist > base
                 /\ (out \o Copied(n, dist))[i] = (out \o Copied(n, dist))[i - dist]
<1> DEFINE c == Copied(n, dist)
<1>1. /\ sink \in Seq(Byte) /\ buf \in Seq(Byte) /\ out \in Seq(Byte) /\ n \in Nat
      /\ sink \o buf = out /\ Len(sink) = base
  BY BoundAssumption DEF IInv, TypeOK, Split, Open
<1>2. /\ c \in Seq(Byte) /\ Len(c) = n
      /\ \A j \in 1..n : c[j] = (buf \o c)[Len(buf) - dist + j]
  BY <1>1, CopiedRepeats
<1> HIDE DEF c
<1>3. out \o c = sink \o (buf \o c)
  <2>1. sink \in Seq(Byte) /\ buf \in Seq(Byte) /\ c \in Seq(Byte)
    BY <1>1, <1>2
  <2>2. (sink \o buf) \o c = sink \o (buf \o c)
    BY <2>1, Joined, Zenon
  <2> QED
    BY <1>1, <2>2
<1>4. /\ buf \o c \in Seq(Byte) /\ Len(buf \o c) = Len(buf) + n
      /\ Len(out) = base + Len(buf) /\ Len(buf) \in Nat /\ base \in Nat
  <2>1. buf \o c \in Seq(Byte) /\ Len(buf \o c) = Len(buf) + n
    BY <1>1, <1>2, LenJoined, Joined
  <2>2. Len(out) = base + Len(buf)
    BY <1>1, LenJoined
  <2> QED
    BY <1>1, <2>1, <2>2
<1>5. \A k \in 1..(Len(buf) + n) : (out \o c)[base + k] = (buf \o c)[k]
  <2>1. sink \in Seq(Byte) /\ buf \o c \in Seq(Byte) /\ Len(buf \o c) = Len(buf) + n
        /\ Len(sink) = base
    BY <1>1, <1>4
  <2> QED
    BY <2>1, <1>3, LenJoined
<1>6. \A j \in 1..n : (buf \o c)[Len(buf) + j] = c[j]
  BY <1>1, <1>2
<1>7. ASSUME NEW i \in (Len(out) + 1)..(Len(out) + n)
      PROVE  i - dist > base /\ (out \o c)[i] = (out \o c)[i - dist]
  <2> DEFINE j == i - Len(out)
  <2>1. /\ j \in 1..n /\ i = base + (Len(buf) + j)
        /\ i - dist = base + (Len(buf) - dist + j)
        /\ Len(buf) + j \in 1..(Len(buf) + n)
        /\ Len(buf) - dist + j \in 1..(Len(buf) + n)
    BY <1>4
  <2> HIDE DEF j
  <2>2. (out \o c)[i] = c[j]
    BY <2>1, <1>5, <1>6
  <2>3. (out \o c)[i - dist] = (buf \o c)[Len(buf) - dist + j]
    BY <2>1, <1>5
  <2>4. i - dist > base
    BY <2>1, <1>4
  <2> QED
    BY <2>1, <2>2, <2>3, <2>4, <1>2
<1>8. Len(out \o c) = Len(out) + n
  BY <1>1, <1>2
<1> QED
  BY <1>7, <1>8 DEF c

\* A match that is accepted repeats the bytes at its distance, those it appends
\* itself included, and reaches no byte from before the last reset.
THEOREM MatchesAlwaysRepeat == Spec => MatchesRepeat
<1> DEFINE Repeats(n, dist) ==
        \A i \in (Len(out) + 1)..(Len(out) + n) :
            i - dist > base /\ out'[i] = out'[i - dist]
<1>1. ASSUME IInv, NEW n \in 1..MaxLen, NEW dist \in 1..MaxOut,
             AppendLz(n, dist), status' = "open"
      PROVE  Repeats(n, dist)
  <2>1. Open /\ out' = out \o Copied(n, dist) /\ ~ TooFar(dist)
    BY <1>1 DEF AppendLz, Push
  <2>2. dist \in 1..Len(buf)
    <3>1. buf \in Seq(Byte)
      BY <1>1 DEF IInv, TypeOK
    <3> QED
      BY <2>1, <3>1, BoundAssumption DEF TooFar
  <2> QED
    BY <1>1, <2>1, <2>2, MatchRepeats
<1>2. IInv => \A n \in 1..MaxLen, dist \in 1..MaxOut :
                  AppendLz(n, dist) /\ status' = "open" => Repeats(n, dist)
  BY <1>1
<1> QED
  BY <1>2, Inductive, PTL DEF MatchesRepeat

-----------------------------------------------------------------------------
(* The refinement *)

WindowVars == <<MemLimit, out, base, sink, [n |-> 0, dist |-> 0], status>>

LEMMA InitRefines == Init => Window!Init
BY BoundAssumption DEF Init, Window!Init, Window!NoMatch

LEMMA PrefixOfJoined ==
    ASSUME NEW s \in Seq(Byte), NEW t \in Seq(Byte)
    PROVE  Window!IsPrefixOf(s, s \o t) /\ Window!IsPrefixOf(s, s)
BY DEF Window!IsPrefixOf

\* What is appended extends the window, and the sink stays behind.
LEMMA PushExtends ==
    ASSUME IInv, Open, NEW s \in Seq(Byte), Push(s), UNCHANGED <<sink, base, status>>
    PROVE  Window!Extends
<1>1. /\ sink \in Seq(Byte) /\ buf \in Seq(Byte) /\ out \in Seq(Byte)
      /\ sink \o buf = out /\ out' = out \o s /\ sink' = sink
  BY DEF IInv, TypeOK, Split, Open, Push
<1>2. Window!IsPrefixOf(out, out')
  BY <1>1, PrefixOfJoined
<1>3. Window!IsPrefixOf(sink, sink')
  BY <1>1, PrefixOfJoined
<1>4. buf \o s \in Seq(Byte) /\ out' = sink \o (buf \o s)
  <2>1. sink \in Seq(Byte) /\ buf \in Seq(Byte)
    BY <1>1
  <2>2. buf \o s \in Seq(Byte) /\ (sink \o buf) \o s = sink \o (buf \o s)
    BY <2>1, Joined, Zenon
  <2> QED
    BY <1>1, <2>2
<1>5. Window!IsPrefixOf(sink', out')
  BY <1>1, <1>4, PrefixOfJoined
<1> QED
  BY <1>2, <1>3, <1>5 DEF Window!Extends

LEMMA AppendBytesRefines ==
    ASSUME IInv, NEW n \in 1..MaxLen, NEW s \in [1..n -> Byte], AppendBytes(s)
    PROVE  Window!AppendBytes
<1>1. s \in Seq(Byte) /\ out \in Seq(Byte)
  BY DEF IInv, TypeOK
<1>2. Window!Extends
  BY <1>1, PushExtends DEF AppendBytes
<1>3. out' \in Seq(Byte)
  BY <1>1, Joined DEF AppendBytes, Push
<1> QED
  BY <1>2, <1>3 DEF AppendBytes, Open, Window!AppendBytes, Window!Idle, Window!NoMatch

\* The bytes a match may copy from are those in the buffer.
LEMMA AvailableIsLen == IInv /\ Open => Window!Available = len
<1> SUFFICES ASSUME IInv, Open PROVE Window!Available = len
  OBVIOUS
<1>1. /\ sink \in Seq(Byte) /\ buf \in Seq(Byte) /\ sink \o buf = out
      /\ Len(sink) = base /\ len = Len(buf)
  BY DEF IInv, TypeOK, Split, Open
<1>2. Len(out) = Len(sink) + Len(buf) /\ Len(sink) \in Nat /\ Len(buf) \in Nat
  BY <1>1
<1> QED
  BY <1>1, <1>2 DEF Window!Available

LEMMA AppendLiteralRefines ==
    ASSUME IInv, NEW b \in Byte, AppendLiteral(b)
    PROVE  Window!AppendLiteral \/ Window!FailLiteral
<1>1. /\ <<b>> \in Seq(Byte) /\ out \in Seq(Byte) /\ sink \in Seq(Byte)
      /\ Open /\ len \in Nat
  BY DEF AppendLiteral, IInv, TypeOK
<1>2. Window!Available = len
  BY <1>1, AvailableIsLen
<1>3. MemLimit \in Nat /\ ~ (MemLimit + MaxOut + 1 <= MemLimit)
  BY BoundAssumption
<1>4. CASE len + 1 > MemLimit
  <2>1. ~ Window!Fits(1)
    BY <1>1, <1>2, <1>3, <1>4 DEF Window!Fits
  <2>2. Window!IsPrefixOf(sink, sink') /\ status' = "limit" /\ UNCHANGED <<out, base, sink>>
    BY <1>1, <1>4, PrefixOfJoined DEF AppendLiteral
  <2> QED
    BY <1>1, <2>1, <2>2 DEF Window!FailLiteral, Window!Fails, Window!Idle, Window!NoMatch, Open
<1>5. CASE ~ (len + 1 > MemLimit)
  <2>1. Window!Fits(1)
    BY <1>1, <1>2, <1>3, <1>5 DEF Window!Fits
  <2>2. Window!Extends
    BY <1>1, <1>5, PushExtends DEF AppendLiteral
  <2>3. out' = Append(out, b)
    BY <1>1, <1>5, AppendIsConcat DEF AppendLiteral, Push
  <2> QED
    BY <1>1, <2>1, <2>2, <2>3 DEF Window!AppendLiteral, Window!Idle, Window!NoMatch, Open
<1> QED
  BY <1>4, <1>5

LEMMA AppendLzRefines ==
    ASSUME IInv, NEW n \in 1..MaxLen, NEW dist \in 1..(MaxOut + 1), AppendLz(n, dist)
    PROVE  Window!Next
<1> DEFINE Reach == MemLimit + MaxOut + 1
<1>1. /\ out \in Seq(Byte) /\ sink \in Seq(Byte) /\ buf \in Seq(Byte)
      /\ len = Len(buf) /\ Open
  BY DEF AppendLz, IInv, TypeOK
<1>2. CASE TooFar(dist)
  <2>1. Window!IsPrefixOf(sink, sink') /\ status' = "distance" /\ UNCHANGED <<out, base, sink>>
    BY <1>1, <1>2, PrefixOfJoined DEF AppendLz
  <2>2. Window!FailDistance
    BY <1>1, <2>1 DEF Window!FailDistance, Window!Fails, Window!Idle, Window!NoMatch, Open
  <2> QED
    BY <2>2 DEF Window!Next
<1>3. CASE ~ TooFar(dist)
  <2>1. dist \in 1..Len(buf) /\ n \in Nat
    BY <1>1, <1>3, BoundAssumption DEF TooFar
  <2>2. Copied(n, dist) \in Seq(Byte)
    BY <1>1, <2>1, CopiedRepeats
  <2>3. Window!Extends /\ out' = out \o Copied(n, dist)
    BY <1>1, <1>3, <2>2, PushExtends DEF AppendLz, Push
  <2>4. Window!Available = Len(buf)
    BY <1>1, AvailableIsLen
  <2>5. dist \in 1..Reach /\ dist <= Reach /\ dist <= Window!Available
    BY <2>1, <2>4, BoundAssumption
  <2>6. Len(out') = Len(out) + n
    BY <1>1, <2>1, <2>3, MatchRepeats
  <2>7. Window!Repeats(out', Len(out), dist)
    BY <1>1, <2>1, <2>3, <2>6, MatchRepeats DEF Window!Repeats
  <2> HIDE DEF Reach
  <2>8. Window!AppendLz(n, dist)
    BY <1>1, <2>3, <2>5, <2>6, <2>7 DEF Window!AppendLz, Window!Asked, Window!Servable, Window!NoMatch, Open, Reach
  <2> QED
    BY <2>5, <2>8 DEF Window!Next, Reach
<1> QED
  BY <1>2, <1>3

LEMMA ResetRefines ==
    ASSUME IInv, Reset
    PROVE  Window!Reset \/ Window!FailFlush
<1>1. sink \o buf = out /\ Open /\ buf \in Seq(Byte)
  BY DEF IInv, TypeOK, Split, Reset, Open
<1>2. CASE WriteFails(Len(buf) - 1) /\ UNCHANGED <<buf, len, base, out>>
  <2>1. Len(buf) - 1 \in Int /\ Len(buf) - 1 <= Len(buf)
    BY <1>1
  <2>2. /\ Window!IsPrefixOf(sink, sink') /\ Window!IsPrefixOf(sink', out)
        /\ status' = "io" /\ SinkMayFail
    BY <1>1, <1>2, <2>1, WriteFailsKeeps DEF WriteFails
  <2> QED
    BY <1>1, <1>2, <2>2 DEF Window!FailFlush, Window!Fails, Window!Idle, Window!NoMatch, Open
<1>3. CASE /\ sink' = sink \o buf /\ buf' = <<>> /\ len' = 0
           /\ base' = Len(out) /\ UNCHANGED <<status, out>>
  BY <1>1, <1>3 DEF Window!Reset, Window!Idle, Window!NoMatch, Open
<1> QED
  BY <1>2, <1>3 DEF Reset

LEMMA FinishRefines ==
    ASSUME IInv, Finish
    PROVE  Window!Finish \/ Window!FailFlush
<1>1. sink \o buf = out /\ Open /\ buf \in Seq(Byte) /\ UNCHANGED <<out, base>>
  BY DEF IInv, TypeOK, Split, Finish, Open
<1>2. CASE WriteFails(Len(buf))
  <2>1. Len(buf) \in Int /\ Len(buf) <= Len(buf)
    BY <1>1
  <2>2. /\ Window!IsPrefixOf(sink, sink') /\ Window!IsPrefixOf(sink', out)
        /\ status' = "io" /\ SinkMayFail
    BY <1>1, <1>2, <2>1, WriteFailsKeeps DEF WriteFails
  <2> QED
    BY <1>1, <2>2 DEF Window!FailFlush, Window!Fails, Window!Idle, Window!NoMatch, Open
<1>3. CASE status' = "closed" /\ sink' = sink \o buf
  BY <1>1, <1>3 DEF Window!Finish, Window!Idle, Window!NoMatch, Open
<1> QED
  BY <1>2, <1>3 DEF Finish

WindowNext == Window!Next \/ Window!AppendBytes \/ Window!Reset

LEMMA StepRefines == IInv /\ [Next]_vars => [WindowNext]_WindowVars
<1> SUFFICES ASSUME IInv, [Next]_vars
             PROVE  WindowNext \/ UNCHANGED WindowVars
  OBVIOUS
<1>1. ASSUME NEW n \in 1..MaxLen, NEW s \in [1..n -> Byte], AppendBytes(s)
      PROVE  WindowNext
  BY <1>1, AppendBytesRefines DEF WindowNext
<1>2. ASSUME NEW b \in Byte, AppendLiteral(b) PROVE WindowNext
  BY <1>2, AppendLiteralRefines DEF WindowNext, Window!Next
<1>3. ASSUME NEW n \in 1..MaxLen, NEW dist \in 1..(MaxOut + 1), AppendLz(n, dist)
      PROVE  WindowNext
  BY <1>3, AppendLzRefines DEF WindowNext
<1>4. ASSUME Reset PROVE WindowNext
  BY <1>4, ResetRefines DEF WindowNext, Window!Next
<1>5. ASSUME Finish PROVE WindowNext
  BY <1>5, FinishRefines DEF WindowNext, Window!Next
<1>6. CASE UNCHANGED vars
  BY <1>6 DEF vars, WindowVars
<1> QED
  BY <1>1, <1>2, <1>3, <1>4, <1>5, <1>6 DEF Next

\* The buffer that keeps everything since a reset implements the unbounded
\* window: matches repeat what is at their distance, the sink gets every byte
\* once and in order, resets included, and the limit and the sink fail an
\* operation only as they may.
THEOREM AccumImplementsWindow == Spec => ImplementsWindow
<1>1. WindowVars = Window!vars
  BY DEF WindowVars, Window!vars
<1> QED
  BY <1>1, Inductive, InitRefines, StepRefines, PTL
     DEF Spec, ImplementsWindow, Window!SpecWithRaw, WindowNext, WindowVars, Window!vars

=============================================================================
