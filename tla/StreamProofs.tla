---------------------------- MODULE StreamProofs ----------------------------
(***************************************************************************)
(* Proofs that the buffers of Stream keep their bounds and lose no byte,   *)
(* and that every step of Stream is one StreamContract allows, or none,    *)
(* for every set of well-formed inputs and all values of the constants.    *)
(***************************************************************************)
EXTENDS Stream, RecursionLemmas, SequenceTheorems, TLAPS

-----------------------------------------------------------------------------
(* Sequences of bytes *)

\* ConcatProperties, for sequences of bytes.
LEMMA ConcatNat ==
    ASSUME NEW s \in Seq(Nat), NEW t \in Seq(Nat)
    PROVE  /\ Len(s) \in Nat /\ Len(t) \in Nat
           /\ s \o t \in Seq(Nat)
           /\ Len(s \o t) = Len(s) + Len(t)
           /\ \A i \in 1..Len(s) : (s \o t)[i] = s[i]
           /\ \A i \in 1..Len(t) : (s \o t)[Len(s) + i] = t[i]
  <1>1. /\ Len(s) \in Nat /\ Len(t) \in Nat
        /\ s \o t \in Seq(Nat) /\ Len(s \o t) = Len(s) + Len(t)
        /\ \A i \in 1..Len(s) + Len(t) :
              (s \o t)[i] = IF i <= Len(s) THEN s[i] ELSE t[i - Len(s)]
    BY ConcatProperties, LenProperties
  <1> QED BY <1>1

\* Part of a sequence of bytes, from position n + 1.
LEMMA SkipNat ==
    ASSUME NEW s \in Seq(Nat), NEW n \in 0..Len(s)
    PROVE  /\ Skip(s, n) \in Seq(Nat) /\ Len(Skip(s, n)) = Len(s) - n
           /\ \A i \in 1..Len(s) - n : Skip(s, n)[i] = s[n + i]
  <1>1. Len(s) \in Nat /\ \A i \in n + 1..Len(s) : s[i] \in Nat
    BY LenProperties
  <1>2. /\ SubSeq(s, n + 1, Len(s)) \in Seq(Nat)
        /\ Len(SubSeq(s, n + 1, Len(s)))
              = IF n + 1 <= Len(s) THEN Len(s) - (n + 1) + 1 ELSE 0
        /\ \A i \in 1..Len(s) - (n + 1) + 1 :
              SubSeq(s, n + 1, Len(s))[i] = s[n + 1 + i - 1]
    <2>1. n + 1 \in Int /\ Len(s) \in Int
      BY <1>1
    <2> DEFINE m == n + 1
               e == Len(s)
    <2>2. m \in Int /\ e \in Int /\ \A i \in m..e : s[i] \in Nat
      BY <1>1, <2>1
    <2> HIDE DEF m, e
    <2>3. /\ SubSeq(s, m, e) \in Seq(Nat)
          /\ Len(SubSeq(s, m, e)) = IF m <= e THEN e - m + 1 ELSE 0
          /\ \A i \in 1..e - m + 1 : SubSeq(s, m, e)[i] = s[m + i - 1]
      BY <2>2, SubSeqProperties
    <2> QED BY <2>3 DEF m, e
  <1> QED BY <1>1, <1>2 DEF Skip

\* A run of bytes is a sequence with the expected length.
LEMMA RunIsSeq ==
    ASSUME NEW a \in Nat, NEW b \in Nat, a <= b
    PROVE  Run(a, b) \in Seq(Nat) /\ Len(Run(a, b)) = b - a
  BY DEF Run

\* Two runs that touch make one.
LEMMA RunConcat ==
    ASSUME NEW a \in Nat, NEW b \in Nat, NEW c \in Nat, a <= b, b <= c
    PROVE  Run(a, b) \o Run(b, c) = Run(a, c)
  BY DEF Run

\* What is left of a run once its first n bytes are taken.
LEMMA SkipRun ==
    ASSUME NEW a \in Nat, NEW b \in Nat, NEW n \in Nat, a + n <= b
    PROVE  Skip(Run(a, b), n) = Run(a + n, b)
  BY DEF Run, Skip

LEMMA FirstRun ==
    ASSUME NEW a \in Nat, NEW b \in Nat, NEW n \in Nat, a + n <= b
    PROVE  First(Run(a, b), n) = Run(a, a + n)
  BY DEF Run, First

\* First and Skip split a sequence.
LEMMA SplitSeq ==
    ASSUME NEW s \in Seq(Nat), NEW n \in 0..Len(s)
    PROVE  /\ First(s, n) \in Seq(Nat) /\ Len(First(s, n)) = n
           /\ Skip(s, n) \in Seq(Nat) /\ Len(Skip(s, n)) = Len(s) - n
           /\ First(s, n) \o Skip(s, n) = s
  <1>1. Len(s) \in Nat /\ \A i \in 1..Len(s) : s[i] \in Nat
    BY LenProperties
  <1>2. First(s, n) \in Seq(Nat) /\ Len(First(s, n)) = n
    BY <1>1, SubSeqProperties DEF First
  <1>3. Skip(s, n) \in Seq(Nat) /\ Len(Skip(s, n)) = Len(s) - n
    BY <1>1, SubSeqProperties DEF Skip
  <1>4. SubSeq(s, 1, n) \o SubSeq(s, n + 1, Len(s)) = SubSeq(s, 1, Len(s))
    <2>1. 1 \in 1..Len(s) + 1 /\ n \in (1 - 1)..Len(s) /\ Len(s) \in n..Len(s)
      BY <1>1
    <2> QED BY <2>1, ConcatAdjacentSubSeq, Zenon
  <1> QED
    BY <1>2, <1>3, <1>4, SubSeqFull DEF First, Skip

\* Skipping in a concatenation skips in its first part.
LEMMA SkipConcat ==
    ASSUME NEW s \in Seq(Nat), NEW t \in Seq(Nat), NEW n \in 0..Len(s)
    PROVE  Skip(s \o t, n) = Skip(s, n) \o t
  <1>1. /\ Len(s) \in Nat /\ Len(t) \in Nat /\ s \o t \in Seq(Nat)
        /\ Len(s \o t) = Len(s) + Len(t)
        /\ \A i \in 1..Len(s) : (s \o t)[i] = s[i]
        /\ \A i \in 1..Len(t) : (s \o t)[Len(s) + i] = t[i]
    BY ConcatNat
  <1> DEFINE st == s \o t
             l == Skip(st, n)
             k == Skip(s, n)
             r == k \o t
  <1>2. /\ l \in Seq(Nat) /\ Len(l) = Len(st) - n
        /\ \A i \in 1..Len(st) - n : l[i] = st[n + i]
    <2>1. n \in 0..Len(st)
      BY <1>1
    <2> HIDE DEF st
    <2> QED BY <1>1, <2>1, SkipNat DEF st
  <1>3. /\ k \in Seq(Nat) /\ Len(k) = Len(s) - n
        /\ \A i \in 1..Len(s) - n : k[i] = s[n + i]
    BY SkipNat
  <1>4. /\ r \in Seq(Nat) /\ Len(r) = Len(k) + Len(t)
        /\ \A i \in 1..Len(k) : r[i] = k[i]
        /\ \A i \in 1..Len(t) : r[Len(k) + i] = t[i]
    <2> HIDE DEF k
    <2> QED BY <1>3, ConcatNat
  <1>5. ASSUME NEW i \in 1..Len(l) PROVE l[i] = r[i]
    <2>1. CASE i <= Len(k)
      <3> HIDE DEF st, l, k, r
      <3>1. l[i] = st[n + i] /\ st[n + i] = s[n + i]
        BY SMTT(30), <2>1, <1>1, <1>2, <1>3 DEF st
      <3>2. i \in 1..Len(k) /\ i \in 1..(Len(s) - n)
        BY <2>1, <1>1, <1>2, <1>3
      <3>3. r[i] = k[i] /\ k[i] = s[n + i]
        BY <3>2, <1>3, <1>4
      <3> QED BY <3>1, <3>3
    <2>2. CASE i > Len(k)
      <3> DEFINE j == i - Len(k)
      <3> HIDE DEF st, l, k, r
      <3>1. j \in 1..Len(t) /\ i = Len(k) + j /\ n + i = Len(s) + j
        BY <2>2, <1>1, <1>2, <1>3 DEF st
      <3> HIDE DEF j
      <3>2. i \in 1..Len(st) - n
        BY <1>2
      <3>3. l[i] = st[n + i] /\ st[Len(s) + j] = t[j]
        BY <3>1, <3>2, <1>1, <1>2 DEF st
      <3>4. r[Len(k) + j] = t[j]
        BY <3>1, <1>4
      <3> QED BY <3>1, <3>3, <3>4
    <2> HIDE DEF st, l, k, r
    <2> QED BY <2>1, <2>2, <1>1, <1>2, <1>3 DEF st
  <1>6. Len(l) = Len(r)
    <2> HIDE DEF l, k, r
    <2> QED BY <1>1, <1>2, <1>3, <1>4
  <1>7. l = r
    <2> HIDE DEF l, r
    <2> QED BY <1>2, <1>4, <1>5, <1>6, SeqEqual
  <1> QED BY <1>7

\* The name keeps the provers from rewriting the equation.
IsRun(s, a, b) == s = Run(a, b)

\* What precedes the end of a run is a run.
LEMMA RunPrefix ==
    ASSUME NEW p \in Seq(Nat), NEW q \in Seq(Nat),
           NEW a \in Nat, NEW b \in Nat, NEW c \in Nat,
           a <= b, c <= b, IsRun(q, c, b), IsRun(p \o q, a, b)
    PROVE  a <= c /\ IsRun(p, a, c)
  <1> USE DEF IsRun
  <1>1. /\ Len(q) = b - c
        /\ Run(a, b) \in Seq(Nat) /\ Len(Run(a, b)) = b - a
    BY RunIsSeq
  <1>2. /\ Len(p) \in Nat /\ Len(p) + Len(q) = Len(Run(a, b))
        /\ \A i \in 1..Len(p) : Run(a, b)[i] = p[i]
    <2>1. /\ Len(p) \in Nat /\ Len(p \o q) = Len(p) + Len(q)
          /\ \A i \in 1..Len(p) : (p \o q)[i] = p[i]
      BY ConcatNat
    <2> QED BY <2>1
  <1>3. a <= c /\ Len(p) = c - a
    BY <1>1, <1>2
  <1>4. Run(a, c) \in Seq(Nat) /\ Len(Run(a, c)) = c - a
    BY <1>3, RunIsSeq
  <1>5. ASSUME NEW i \in 1..Len(p) PROVE p[i] = Run(a, c)[i]
    <2>1. i \in 1..(b - a) /\ i \in 1..(c - a)
      BY <1>3
    <2>2. Run(a, b)[i] = a + i /\ Run(a, c)[i] = a + i
      BY <2>1 DEF Run
    <2> QED BY <1>2, <2>2
  <1> QED
    BY <1>3, <1>4, <1>5, SeqEqual

-----------------------------------------------------------------------------
(* The inductive invariant *)

\* What NoByteLost needs besides the types: the loop only runs on a stream
\* whose header is read, tmp and partial_input_buf never both hold bytes, and
\* no symbol is counted before its bytes have come.
Tidy ==
    /\ Looping => state = "Data"
    /\ pc = "tmp" => partial = <<>>
    /\ state = "Header" => done = 0
    /\ state = "Data" /\ pc # "closed"
          => /\ tmp = <<>> \/ partial = <<>>
             /\ SizeMet(file, done) \/ Prefix + file.ends[done] <= Horizon

IInv == TypeOK /\ NoByteLost /\ RoomToRefill /\ Tidy

\* The constants are numbers.
LEMMA Numbers ==
    /\ HeaderLen \in Nat /\ StartBytes \in Nat /\ MaxReq \in Nat
    /\ MaxReq > 0 /\ Prefix \in Nat /\ Prefix > 0
    /\ MaxTmp \in Nat /\ Prefix <= MaxTmp /\ MaxChunk \in Nat
  BY HeaderAssumption, MaxReqAssumption, MaxHeaderAssumption,
     MaxChunkAssumption DEF Prefix, MaxTmp

\* What is used of a well-formed input.
LEMMA FileFacts ==
    ASSUME NEW f, WellFormed(f), NEW i \in 0..f.count
    PROVE  /\ f.count \in Nat /\ f.len \in Nat /\ f.ends[i] \in Nat
           /\ f.outs[i] \in Nat
           /\ i < f.count => /\ i + 1 \in 0..f.count /\ f.ends[i + 1] \in Nat
                             /\ f.ends[i] <= f.ends[i + 1]
  <1>1. /\ f.count \in Nat /\ f.len \in Nat
        /\ f.ends \in [0..f.count -> Nat] /\ f.outs \in [0..f.count -> Nat]
        /\ \A j \in 0..(f.count - 1) : f.ends[j] <= f.ends[j + 1]
    BY DEF WellFormed
  <1> QED BY <1>1

\* Nothing is decoded before the first symbol.
LEMMA FirstSymbol ==
    ASSUME NEW f, WellFormed(f)
    PROVE  0 \in 0..f.count /\ f.ends[0] = 0 /\ f.len \in Nat
  BY DEF WellFormed

\* ConcatAssociative, for sequences of bytes.
LEMMA AssocNat ==
    ASSUME NEW s \in Seq(Nat), NEW t \in Seq(Nat), NEW u \in Seq(Nat)
    PROVE  (s \o t) \o u = s \o (t \o u)
  BY ConcatAssociative

\* The empty sequence is neutral, and nothing follows the end of a sequence.
LEMMA EmptyConcat ==
    ASSUME NEW s \in Seq(Nat)
    PROVE  <<>> \o s = s /\ s \o <<>> = s /\ Len(s) \in Nat
           /\ (Len(s) = 0 => s = <<>>) /\ Skip(s, Len(s)) = <<>>
           /\ Len(<<>>) = 0 /\ <<>> \in Seq(Nat)
  BY ConcatEmptySeq, LenProperties, EmptySeq, SubSeqEmpty DEF Skip

\* What the reader still holds once the buffer is taken from it.
Beyond == IF partial = <<>> THEN <<>> ELSE Skip(rest, Len(Refill))

\* The buffer the next symbol is decoded from is a prefix of what is held,
\* and all of it unless it is large enough for any symbol.
LEMMA BufFacts ==
    ASSUME TypeOK
    PROVE  /\ Refill \in Seq(Nat) /\ Len(Refill) \in 0..Len(rest)
           /\ Buf \in Seq(Nat) /\ Beyond \in Seq(Nat)
           /\ Buf \o Beyond = partial \o rest
           /\ partial # <<>> => Len(Buf) <= MaxReq
           /\ partial # <<>> => Len(Buf) = Len(partial) + Len(Refill)
           /\ Len(Buf) < MaxReq => Beyond = <<>>
  <1> USE Numbers
  <1>1. /\ partial \in Seq(Nat) /\ Len(partial) <= MaxReq /\ rest \in Seq(Nat)
        /\ Len(partial) \in Nat /\ Len(rest) \in Nat
    BY LenProperties DEF TypeOK
  <1> DEFINE k == Least(MaxReq - Len(partial), Len(rest))
  <1>2. /\ k \in 0..Len(rest) /\ k <= MaxReq - Len(partial)
        /\ k < MaxReq - Len(partial) => k = Len(rest)
    BY <1>1 DEF Least
  <1> HIDE DEF k
  <1>3. /\ First(rest, k) \in Seq(Nat) /\ Len(First(rest, k)) = k
        /\ Skip(rest, k) \in Seq(Nat) /\ First(rest, k) \o Skip(rest, k) = rest
    BY <1>1, <1>2, SplitSeq
  <1>4. Refill = First(rest, k) /\ Len(Refill) = k /\ Refill \in Seq(Nat)
    BY <1>3 DEF Refill, k
  <1>5. CASE partial = <<>>
    <2>1. Buf = rest /\ Beyond = <<>>
      BY <1>5 DEF Buf, Beyond
    <2> QED BY <1>1, <1>2, <1>4, <1>5, <2>1, EmptyConcat
  <1>6. CASE partial # <<>>
    <2>1. Buf = partial \o Refill /\ Beyond = Skip(rest, k)
      BY <1>4, <1>6 DEF Buf, Beyond
    <2>2. Buf \in Seq(Nat) /\ Len(Buf) = Len(partial) + k
      BY <1>1, <1>4, <2>1, ConcatNat
    <2>3. (partial \o Refill) \o Skip(rest, k)
             = partial \o (Refill \o Skip(rest, k))
      BY <1>1, <1>3, <1>4, AssocNat, Zenon
    <2>4. Len(Buf) < MaxReq => Skip(rest, k) = <<>>
      BY <1>1, <1>2, <2>2, EmptyConcat
    <2> QED BY <1>1, <1>2, <1>3, <1>4, <2>1, <2>2, <2>3, <2>4
  <1> QED BY <1>5, <1>6

-----------------------------------------------------------------------------
(* Each action preserves the invariant *)

\* The answers the calls give.
LEMMA ResultTypes ==
    /\ None \in Results /\ WriteErr \in Results /\ FinishErr \in Results
    /\ \A k \in Nat : Wrote(k) \in Results /\ Done(k) \in Results
  BY DEF Results, None, WriteErr, FinishErr, Wrote, Done

LEMMA InitIInv == Init => IInv
  <1> SUFFICES ASSUME Init PROVE IInv
    OBVIOUS
  <1> USE Numbers
  <1>1. WellFormed(file)
    BY FilesAssumption DEF Init
  <1>2. TypeOK
    BY <1>1, FirstSymbol, ResultTypes DEF Init, TypeOK
  <1>3. Run(0, 0) = <<>>
    BY DEF Run
  <1> QED BY <1>2, <1>3 DEF Init, IInv, NoByteLost, RoomToRefill, Tidy, Looping

\* A call of write that fails, or one of finish that returns, leaves nothing
\* that the invariant speaks of.
LEMMA WriteFailsKeeps ==
    ASSUME IInv, WriteFails, UNCHANGED <<file, done>>,
           tmp' \in Seq(Nat), Len(tmp') <= MaxTmp,
           partial' \in Seq(Nat), Len(partial') <= MaxReq
    PROVE  IInv'
  <1>1. TypeOK'
    BY ResultTypes, EmptyConcat, Numbers DEF IInv, TypeOK, WriteFails
  <1>2. NoByteLost' /\ RoomToRefill' /\ Tidy'
    BY DEF NoByteLost, RoomToRefill, Tidy, Looping, WriteFails
  <1> QED BY <1>1, <1>2 DEF IInv

LEMMA FinishReturnsKeeps ==
    ASSUME IInv, NEW r \in Results, FinishReturns(r), UNCHANGED <<file, tmp>>,
           done' \in 0..file.count, state # "Header",
           partial' \in Seq(Nat), Len(partial') <= MaxReq
    PROVE  IInv'
  <1>1. TypeOK'
    BY EmptyConcat, Numbers DEF IInv, TypeOK, FinishReturns
  <1>2. NoByteLost' /\ RoomToRefill' /\ Tidy'
    BY DEF IInv, NoByteLost, RoomToRefill, Tidy, Looping, FinishReturns
  <1> QED BY <1>1, <1>2 DEF IInv

\* process_mode returns from a call in which nothing was lost so far.
LEMMA LoopReturnsKeeps ==
    ASSUME IInv, Looping, NEW d \in 0..file.count, NEW r \in Seq(Nat),
           LoopReturns(d, r), done' = d, UNCHANGED file,
           partial' \in Seq(Nat), Len(partial') <= MaxReq,
           \/ SizeMet(file, d)
           \/ /\ partial' \o r = Run(Prefix + file.ends[d], Horizon)
              /\ Prefix + file.ends[d] <= Horizon
              /\ Len(partial') < MaxReq
              /\ pc = "tmp" => r = <<>>,
           pc = "input" => /\ Len(r) <= Len(rest)
                           /\ r = Run(Horizon - Len(r), Horizon)
    PROVE  IInv'
  <1> DEFINE a == Prefix + file.ends[d]
  <1>1. /\ state = "Data" /\ sent \in Nat /\ Len(chunk) \in Nat
        /\ Len(r) \in Nat /\ chunk \in Seq(Nat) /\ a \in Nat
        /\ WellFormed(file) /\ file.len \in Nat
        /\ file.outs[d] \in Nat
    <2>1. WellFormed(file)
      BY DEF IInv, TypeOK
    <2>2. file.len \in Nat /\ file.ends[d] \in Nat /\ file.outs[d] \in Nat
      BY <2>1, FileFacts
    <2>3. state = "Data"
      BY DEF IInv, Tidy
    <2>4. sent \in Nat /\ chunk \in Seq(Nat)
      BY <2>2 DEF IInv, TypeOK
    <2> QED BY <2>1, <2>2, <2>3, <2>4, Numbers, LenProperties
  <1>2. CASE pc = "tmp"
    <2>1. /\ tmp' = <<>> /\ pc' = "input" /\ rest' = chunk
          /\ UNCHANGED <<sent, state, chunk, result>>
      BY <1>2 DEF LoopReturns
    <2>2. TypeOK'
      BY <2>1, Numbers, EmptyConcat DEF IInv, TypeOK
    <2>3. sent + Len(chunk) <= file.len /\ chunk = Run(sent, sent + Len(chunk))
      BY <1>2 DEF IInv, NoByteLost
    <2>4. CASE ~SizeMet(file, d)
      <3>1. partial' = Run(a, sent) /\ a <= sent
        BY <1>2, <2>4, EmptyConcat DEF Horizon
      <3>2. partial' \o chunk = Run(a, sent + Len(chunk))
        <4> DEFINE b == sent
                   c == sent + Len(chunk)
        <4>1. /\ a \in Nat /\ b \in Nat /\ c \in Nat /\ a <= b /\ b <= c
              /\ partial' = Run(a, b) /\ chunk = Run(b, c)
          BY <1>1, <2>3, <3>1
        <4> HIDE DEF a, b, c
        <4>2. Run(a, b) \o Run(b, c) = Run(a, c)
          BY <4>1, RunConcat
        <4>3. partial' \o chunk = Run(a, c)
          BY <4>1, <4>2
        <4> QED BY <4>3 DEF c
      <3>3. Held' = Run(Prefix + file.ends[done], Horizon)'
        BY <2>1, <3>2 DEF Held, Looping, Horizon
      <3>4. (Prefix + file.ends[done] <= Horizon)'
        BY <1>1, <2>1, <3>1 DEF Horizon
      <3>5. NoByteLost'
        BY <1>1, <2>1, <2>3, <3>3 DEF NoByteLost
      <3>6. RoomToRefill' /\ Tidy'
        BY <1>1, <2>1, <3>4 DEF RoomToRefill, Tidy, Looping
      <3> QED BY <2>2, <3>5, <3>6 DEF IInv
    <2> QED
      BY <1>1, <2>1, <2>2, <2>3, <2>4
      DEF IInv, NoByteLost, RoomToRefill, Tidy, Looping
  <1>3. CASE pc = "input"
    <2> DEFINE n == Len(chunk) - Len(r)
               h == sent + Len(chunk)
    <2>1. /\ tmp = <<>> /\ Len(rest) <= Len(chunk) /\ Len(rest) \in Nat
          /\ h <= file.len /\ Horizon = h
      BY <1>3, LenProperties DEF IInv, TypeOK, NoByteLost, Horizon
    <2>2. n \in Nat /\ sent + n = h - Len(r) /\ sent + n \in 0..file.len
      BY <1>1, <1>3, <2>1
    <2>3. /\ sent' = sent + n /\ result' = Wrote(n) /\ pc' = "idle"
          /\ chunk' = <<>> /\ rest' = <<>> /\ UNCHANGED <<state, tmp>>
      BY <1>3 DEF LoopReturns, WriteReturns
    <2>4. TypeOK'
      BY <2>2, <2>3, Numbers, EmptyConcat, ResultTypes DEF IInv, TypeOK
    <2>5. CASE ~SizeMet(file, d)
      <3>1. partial' \o r = Run(a, h) /\ r = Run(h - Len(r), h) /\ a <= h
        BY <1>3, <2>1, <2>5
      <3>2. a <= sent + n /\ partial' = Run(a, sent + n)
        <4> DEFINE p == partial'
                   c == h - Len(r)
        <4>1. /\ p \in Seq(Nat) /\ p \o r = Run(a, h) /\ r = Run(c, h)
              /\ a \in Nat /\ c \in Nat /\ h \in Nat /\ c <= h /\ a <= h
          BY <1>1, <2>2, <3>1
        <4> HIDE DEF a, h, p, c
        <4>2. a <= c /\ p = Run(a, c)
          <5>1. IsRun(r, c, h) /\ IsRun(p \o r, a, h)
            BY <4>1 DEF IsRun
          <5>2. a <= c /\ IsRun(p, a, c)
            BY <4>1, <5>1, RunPrefix
          <5> QED BY <5>2 DEF IsRun
        <4> QED BY <2>2, <4>2 DEF p, c
      <3>3. partial' \o tmp' = Run(a, sent + n)
        BY <2>1, <2>3, <3>2, EmptyConcat
      <3> QED
        BY <1>1, <2>1, <2>3, <2>4, <2>5, <3>2, <3>3
        DEF IInv, NoByteLost, RoomToRefill, Tidy, Looping, Held, Horizon
    <2> QED
      BY <1>1, <2>1, <2>3, <2>4, <2>5
      DEF IInv, NoByteLost, RoomToRefill, Tidy, Looping
  <1>4. CASE pc = "flush"
    <2>1. \E res \in Results : FinishReturns(res) /\ UNCHANGED tmp
      BY <1>1, <1>4, ResultTypes DEF LoopReturns
    <2> QED BY <1>1, <2>1, FinishReturnsKeeps
  <1> QED BY <1>2, <1>3, <1>4 DEF Looping

\* Whatever the reader of the chunk gives up, what it keeps is the chunk's end.
LEMMA RestSuffix ==
    ASSUME IInv, pc = "input", NEW m \in 0..Len(rest)
    PROVE  /\ Skip(rest, m) \in Seq(Nat) /\ Len(Skip(rest, m)) <= Len(rest)
           /\ Skip(rest, m) = Run(Horizon - Len(Skip(rest, m)), Horizon)
  <1> DEFINE h == sent + Len(chunk)
             a == h - Len(rest)
  <1>1. /\ rest \in Seq(Nat) /\ Len(rest) \in Nat /\ Len(chunk) \in Nat
        /\ WellFormed(file)
    BY LenProperties DEF IInv, TypeOK
  <1>2. /\ Horizon = h /\ rest = Run(a, h) /\ h \in Nat /\ a \in Nat
        /\ a + m <= h
    BY <1>1, FirstSymbol DEF IInv, TypeOK, NoByteLost, Horizon
  <1>3. /\ Skip(rest, m) \in Seq(Nat)
        /\ Len(Skip(rest, m)) = Len(rest) - m
    BY <1>1, SplitSeq
  <1>4. Skip(rest, m) = Run(a + m, h)
    <2> HIDE DEF a, h
    <2> QED BY <1>2, SkipRun
  <1>5. a + m = h - Len(Skip(rest, m)) /\ Len(Skip(rest, m)) <= Len(rest)
    <2> HIDE DEF h
    <2> QED BY <1>1, <1>2, <1>3
  <1> QED BY <1>2, <1>3, <1>4, <1>5

\* Taking the next symbol off the buffer leaves what follows that symbol.
LEMMA NextSymbol ==
    ASSUME IInv, Looping, ~LoopEnds, ~Short
    PROVE  /\ done + 1 \in 0..file.count
           /\ NextLen \in 0..Len(Buf) /\ Len(Buf) \in Nat
           /\ Skip(Buf, NextLen) \in Seq(Nat)
           /\ Len(Skip(Buf, NextLen)) = Len(Buf) - NextLen
           /\ Prefix + file.ends[done + 1] <= Horizon
           /\ Skip(Buf, NextLen) \o Beyond
                 = Run(Prefix + file.ends[done + 1], Horizon)
  <1> DEFINE a == Prefix + file.ends[done]
             n == NextLen
             b == Buf
             y == Beyond
             h == Horizon
  <1>1. /\ TypeOK /\ WellFormed(file) /\ done \in 0..file.count
        /\ done < file.count /\ n <= Len(b)
    <2>1. TypeOK /\ WellFormed(file) /\ done \in 0..file.count
      BY DEF IInv, TypeOK
    <2>2. Len(b) \in Nat
      BY <2>1, BufFacts, LenProperties
    <2>3. done < file.count /\ file.count \in Nat /\ ~(n > Len(b))
      BY <2>1, FileFacts DEF Short
    <2>4. n \in Int
      BY <2>1, <2>3, FileFacts DEF NextLen
    <2> QED BY <2>1, <2>2, <2>3, <2>4
  <1>2. /\ file.ends[done] \in Nat /\ file.ends[done + 1] \in Nat
        /\ file.ends[done] <= file.ends[done + 1]
        /\ file.len \in Nat /\ done + 1 \in 0..file.count
    BY <1>1, FileFacts
  <1>3. /\ b \in Seq(Nat) /\ y \in Seq(Nat) /\ b \o y = partial \o rest
        /\ Len(b) \in Nat
    BY <1>1, BufFacts, LenProperties
  <1>4. n \in 0..Len(b) /\ a + n = Prefix + file.ends[done + 1]
    BY SMTT(30), <1>1, <1>2, <1>3, Numbers DEF NextLen
  <1>5. ~SizeMet(file, done)
    BY DEF LoopEnds, SizeMet
  <1>6. /\ partial \o rest = Run(a, h) /\ a <= h
        /\ a \in Nat /\ h \in Nat
    <2>1. state = "Data" /\ pc # "closed"
      BY DEF IInv, Tidy, Looping
    <2>2. Held = Run(a, h) /\ a <= h
      BY <1>5, <2>1 DEF IInv, NoByteLost, Tidy
    <2>3. sent \in Nat /\ Len(chunk) \in Nat
      BY <1>1, <1>2, LenProperties DEF TypeOK
    <2> QED BY <1>2, <2>2, <2>3, Numbers DEF Held, Horizon
  <1>7. /\ Skip(b, n) \in Seq(Nat) /\ Len(Skip(b, n)) = Len(b) - n
    <2> HIDE DEF b, n
    <2> QED BY <1>3, <1>4, SplitSeq
  <1>8. Len(b) + Len(y) = h - a
    <2> HIDE DEF a, b, y, h
    <2>1. Len(b \o y) = Len(b) + Len(y)
      BY <1>3, ConcatNat
    <2>2. Len(Run(a, h)) = h - a
      BY <1>6, RunIsSeq
    <2> QED BY <1>3, <1>6, <2>1, <2>2
  <1>9. a + n <= h
    <2> HIDE DEF a, b, n, y, h
    <2> QED BY <1>3, <1>4, <1>6, <1>8, LenProperties
  <1>10. Skip(b, n) \o y = Run(a + n, h)
    <2> HIDE DEF a, b, n, y, h
    <2>1. Skip(b \o y, n) = Skip(b, n) \o y
      BY <1>3, <1>4, SkipConcat
    <2>2. Skip(Run(a, h), n) = Run(a + n, h)
      BY <1>4, <1>6, <1>9, SkipRun
    <2> QED BY <1>3, <1>6, <2>1, <2>2
  <1> QED BY <1>2, <1>3, <1>4, <1>7, <1>9, <1>10

LEMMA LoopFailsKeeps ==
    ASSUME IInv, Looping, LoopFails, UNCHANGED <<file, partial, done>>
    PROVE  IInv'
  <1>1. tmp' = tmp /\ state = "Data"
    BY DEF LoopFails, IInv, Tidy
  <1>2. CASE Finishing
    BY <1>1, <1>2, FinishReturnsKeeps, ResultTypes DEF LoopFails, IInv, TypeOK
  <1>3. CASE ~Finishing
    BY <1>1, <1>3, WriteFailsKeeps DEF LoopFails, IInv, TypeOK
  <1> QED BY <1>2, <1>3

LEMMA LoopStopsKeeps ==
    ASSUME IInv, LoopStops
    PROVE  IInv'
  <1>1. /\ Looping /\ LoopEnds /\ LoopReturns(done, rest)
        /\ UNCHANGED <<file, partial, done>>
    BY DEF LoopStops
  <1>2. /\ done \in 0..file.count /\ rest \in Seq(Nat)
        /\ partial \in Seq(Nat) /\ Len(partial) <= MaxReq
    BY DEF IInv, TypeOK
  <1>5. pc = "input" => /\ Len(rest) <= Len(rest)
                        /\ rest = Run(Horizon - Len(rest), Horizon)
    <2> SUFFICES ASSUME pc = "input"
                 PROVE  /\ Len(rest) <= Len(rest)
                        /\ rest = Run(Horizon - Len(rest), Horizon)
      OBVIOUS
    <2>1. Len(rest) <= Len(rest)
      BY <1>2, LenProperties
    <2>2. Horizon = sent + Len(chunk)
      BY DEF Horizon
    <2>3. IsRun(rest, sent + Len(chunk) - Len(rest), sent + Len(chunk))
      BY DEF IInv, NoByteLost, IsRun
    <2>4. sent + Len(chunk) - Len(rest) = (sent + Len(chunk)) - Len(rest)
      BY <1>2, <2>1, LenProperties, FirstSymbol DEF IInv, TypeOK
    <2>5. IsRun(rest, Horizon - Len(rest), Horizon)
      BY <2>2, <2>3, <2>4
    <2> QED BY <2>1, <2>5 DEF IsRun
  <1>3. CASE SizeMet(file, done)
    BY <1>1, <1>2, <1>3, <1>5, LoopReturnsKeeps
  <1>4. CASE ~SizeMet(file, done)
    <2>1. rest = <<>> /\ partial = <<>>
      BY <1>1, <1>4 DEF LoopEnds, SizeMet
    <2>2. /\ partial \o rest = Run(Prefix + file.ends[done], Horizon)
          /\ Prefix + file.ends[done] <= Horizon
      BY <1>1, <1>4 DEF IInv, NoByteLost, Tidy, Looping, Held
    <2>3. Len(partial) < MaxReq
      BY <2>1, Numbers, EmptyConcat
    <2> QED BY <1>1, <1>2, <1>5, <2>1, <2>2, <2>3, LoopReturnsKeeps
  <1> QED BY <1>3, <1>4

LEMMA WaitForInputKeeps ==
    ASSUME IInv, WaitForInput
    PROVE  IInv'
  <1> DEFINE r == Skip(rest, Len(Buf) - Len(partial))
             d == done
  <1>1. /\ Looping /\ ~LoopEnds /\ Len(Buf) < MaxReq
        /\ partial' = Buf /\ LoopReturns(d, r) /\ UNCHANGED <<file, done>>
    BY DEF WaitForInput, MustWait
  <1>2. /\ TypeOK /\ done \in 0..file.count /\ rest \in Seq(Nat)
        /\ Len(rest) \in Nat /\ partial \in Seq(Nat) /\ Len(partial) \in Nat
    BY LenProperties DEF IInv, TypeOK
  <1>3. /\ Beyond = <<>> /\ Buf \in Seq(Nat) /\ Buf \o Beyond = partial \o rest
        /\ Len(Refill) \in 0..Len(rest)
        /\ partial # <<>> => Len(Buf) = Len(partial) + Len(Refill)
    BY <1>1, <1>2, BufFacts
  <1>4. r = <<>>
    <2>1. CASE partial = <<>>
      BY <1>2, <2>1, EmptyConcat DEF Buf
    <2>2. CASE partial # <<>>
      BY <1>2, <1>3, <2>2 DEF Beyond
    <2> QED BY <2>1, <2>2
  <1>5. ~SizeMet(file, done)
    BY <1>1 DEF LoopEnds, SizeMet
  <1>6. /\ partial \o rest = Run(Prefix + file.ends[done], Horizon)
        /\ Prefix + file.ends[done] <= Horizon
    BY <1>1, <1>5 DEF IInv, NoByteLost, Tidy, Looping, Held
  <1>7. partial' \o r = Run(Prefix + file.ends[d], Horizon)
    BY <1>1, <1>3, <1>4, <1>6
  <1>8. pc = "input" => /\ Len(r) <= Len(rest)
                        /\ r = Run(Horizon - Len(r), Horizon)
    <2> SUFFICES ASSUME pc = "input"
                 PROVE  /\ Len(r) <= Len(rest)
                        /\ r = Run(Horizon - Len(r), Horizon)
      OBVIOUS
    <2>1. Skip(rest, Len(rest)) = <<>>
      BY <1>2, EmptyConcat
    <2>2. Len(rest) \in 0..Len(rest)
      BY <1>2
    <2> QED BY <1>4, <2>1, <2>2, RestSuffix
  <1>9. /\ r \in Seq(Nat) /\ partial' \in Seq(Nat) /\ Len(partial') < MaxReq
        /\ Len(partial') <= MaxReq
    <2>1. r \in Seq(Nat)
      <3> HIDE DEF r
      <3> QED BY <1>4
    <2>2. Len(Buf) \in Nat
      BY <1>3, LenProperties
    <2>3. Buf \in Seq(Nat) /\ Len(Buf) < MaxReq /\ Len(Buf) <= MaxReq
      BY <1>1, <1>3, <2>2, Numbers
    <2> QED BY <1>1, <2>1, <2>3
  <1> HIDE DEF r, d
  <1> QED
    BY <1>1, <1>2, <1>4, <1>6, <1>7, <1>8, <1>9, LoopReturnsKeeps DEF d

LEMMA DecodeMarkerKeeps ==
    ASSUME IInv, DecodeMarker
    PROVE  IInv'
  <1> DEFINE r == IF partial = <<>> THEN <<>> ELSE Skip(rest, Len(Refill))
             d == done + 1
  <1>1. /\ Looping /\ ~LoopEnds /\ ~Short /\ NextLen = Len(Buf)
        /\ done' = d /\ partial' = <<>> /\ LoopReturns(d, r) /\ UNCHANGED file
    BY DEF DecodeMarker
  <1>2. TypeOK /\ Len(rest) \in Nat /\ rest \in Seq(Nat)
    BY LenProperties DEF IInv, TypeOK
  <1>3. /\ r = Beyond /\ r \in Seq(Nat) /\ Buf \in Seq(Nat)
        /\ Len(Refill) \in 0..Len(rest)
    BY <1>2, BufFacts DEF Beyond
  <1>4. /\ d \in 0..file.count /\ Prefix + file.ends[d] <= Horizon
        /\ Skip(Buf, NextLen) \o Beyond = Run(Prefix + file.ends[d], Horizon)
    BY <1>1, NextSymbol
  <1>5. Skip(Buf, NextLen) = <<>>
    BY <1>1, <1>3, EmptyConcat
  <1>6. partial' \o r = Run(Prefix + file.ends[d], Horizon)
    BY <1>1, <1>3, <1>4, <1>5
  <1>7. pc = "tmp" => r = <<>>
    BY DEF IInv, Tidy
  <1>8. pc = "input" => /\ Len(r) <= Len(rest)
                        /\ r = Run(Horizon - Len(r), Horizon)
    <2> SUFFICES ASSUME pc = "input"
                 PROVE  /\ Len(r) <= Len(rest)
                        /\ r = Run(Horizon - Len(r), Horizon)
      OBVIOUS
    <2>1. Skip(rest, Len(rest)) = <<>> /\ Len(rest) \in 0..Len(rest)
      BY <1>2, EmptyConcat
    <2>2. CASE partial = <<>>
      BY <2>1, <2>2, RestSuffix
    <2>3. CASE partial # <<>>
      BY <1>3, <2>3, RestSuffix
    <2> QED BY <2>2, <2>3
  <1>9. /\ partial' \in Seq(Nat) /\ Len(partial') < MaxReq
        /\ Len(partial') <= MaxReq
    BY <1>1, Numbers, EmptyConcat
  <1> HIDE DEF r, d
  <1> QED
    BY <1>1, <1>3, <1>4, <1>6, <1>7, <1>8, <1>9, LoopReturnsKeeps

LEMMA DecodeSymbolKeeps ==
    ASSUME IInv, DecodeSymbol
    PROVE  IInv'
  <1>1. Looping /\ ~LoopEnds /\ ~Short /\ UNCHANGED file
    BY DEF DecodeSymbol
  <1>2. CASE LoopFails /\ UNCHANGED <<partial, done>>
    BY <1>1, <1>2, LoopFailsKeeps
  <1>3. CASE Consume /\ UNCHANGED <<sent, state, tmp, pc, chunk, result>>
    <2> DEFINE a == Prefix + file.ends[done + 1]
    <2>1. /\ TypeOK /\ rest \in Seq(Nat) /\ partial \in Seq(Nat)
          /\ state = "Data" /\ done' = done + 1
      BY <1>1, <1>3 DEF IInv, TypeOK, Tidy, Consume
    <2>2. /\ Refill \in Seq(Nat) /\ Len(Refill) \in 0..Len(rest)
          /\ Buf \in Seq(Nat) /\ Beyond \in Seq(Nat)
          /\ partial # <<>> => Len(Buf) <= MaxReq
      BY <2>1, BufFacts
    <2>3. /\ done + 1 \in 0..file.count
          /\ NextLen \in 0..Len(Buf) /\ Len(Buf) \in Nat
          /\ Skip(Buf, NextLen) \in Seq(Nat)
          /\ Len(Skip(Buf, NextLen)) = Len(Buf) - NextLen
          /\ a <= Horizon
          /\ Skip(Buf, NextLen) \o Beyond = Run(a, Horizon)
      BY <1>1, NextSymbol
    <2>4. /\ partial' \in Seq(Nat) /\ Len(partial') <= MaxReq
          /\ rest' \in Seq(Nat) /\ partial' \o rest' = Run(a, Horizon)
          /\ partial = <<>> => partial' = <<>>
          /\ \E m \in 0..Len(rest) : rest' = Skip(rest, m)
      <3>1. CASE partial = <<>>
        <4>1. Buf = rest /\ Beyond = <<>>
          BY <3>1 DEF Buf, Beyond
        <4>2. partial' = <<>> /\ rest' = Skip(rest, NextLen)
          BY <1>3, <3>1 DEF Consume
        <4>3. <<>> \o rest' = rest' /\ rest' \o <<>> = rest'
          BY <2>3, <4>1, <4>2, EmptyConcat
        <4>4. Len(<<>>) <= MaxReq /\ <<>> \in Seq(Nat)
          BY Numbers
        <4> QED BY <2>3, <3>1, <4>1, <4>2, <4>3, <4>4
      <3>2. CASE partial # <<>>
        <4>1. partial' = Skip(Buf, NextLen) /\ rest' = Beyond
          BY <1>3, <3>2 DEF Consume, Beyond
        <4>2. Len(Buf) - NextLen <= MaxReq
          BY <2>2, <2>3, <3>2, Numbers
        <4>3. rest' = Skip(rest, Len(Refill))
          BY <3>2, <4>1 DEF Beyond
        <4> QED BY <2>2, <2>3, <3>2, <4>1, <4>2, <4>3
      <3> QED BY <3>1, <3>2
    <2>5. TypeOK'
      BY <1>1, <1>3, <2>1, <2>3, <2>4 DEF TypeOK
    <2>6. Horizon' = Horizon /\ (Prefix + file.ends[done])' = a
      BY <1>1, <1>3, <2>1 DEF Horizon
    <2>7. /\ Looping' /\ pc' = pc /\ pc # "closed"
          /\ tmp' = tmp /\ chunk' = chunk /\ sent' = sent
          /\ file' = file /\ state' = "Data"
      BY <1>1, <1>3, <2>1 DEF Looping
    <2>8. Held' = Run(a, Horizon)
      BY <2>4, <2>7 DEF Held
    <2>9. ASSUME pc = "input"
          PROVE  /\ tmp = <<>> /\ Len(rest') <= Len(chunk)
                 /\ rest' = Run(sent + Len(chunk) - Len(rest'), sent + Len(chunk))
      <3>1. PICK m \in 0..Len(rest) : rest' = Skip(rest, m)
        BY <2>4
      <3>2. /\ Len(rest') <= Len(rest)
            /\ IsRun(rest', Horizon - Len(rest'), Horizon)
        BY <2>9, <3>1, RestSuffix DEF IsRun
      <3>3. /\ Horizon = sent + Len(chunk)
            /\ sent + Len(chunk) - Len(rest') = (sent + Len(chunk)) - Len(rest')
            /\ Len(rest) \in Nat /\ Len(rest') \in Nat /\ Len(chunk) \in Nat
        BY <2>1, <2>4, <2>9, LenProperties, FirstSymbol DEF TypeOK, Horizon
      <3>4. IsRun(rest', sent + Len(chunk) - Len(rest'), sent + Len(chunk))
        BY <3>2, <3>3
      <3>5. tmp = <<>> /\ Len(rest) <= Len(chunk)
        BY <2>9 DEF IInv, NoByteLost
      <3> QED BY <3>2, <3>3, <3>4, <3>5 DEF IsRun
    <2>10. NoByteLost'
      <3>1. (pc \in {"write", "tmp", "input"}
               => /\ sent + Len(chunk) <= file.len
                  /\ chunk = Run(sent, sent + Len(chunk)))'
        BY <2>7 DEF IInv, NoByteLost
      <3>2. (pc = "input"
               => /\ tmp = <<>> /\ Len(rest) <= Len(chunk)
                  /\ rest = Run(sent + Len(chunk) - Len(rest),
                                sent + Len(chunk)))'
        BY <2>7, <2>9
      <3> QED BY <2>6, <2>7, <2>8, <3>1, <3>2 DEF NoByteLost
    <2>11. RoomToRefill'
      BY <1>1, <2>7 DEF RoomToRefill, Looping
    <2>12. Tidy'
      <3>1. tmp = <<>> \/ partial = <<>>
        BY <1>1, <2>1 DEF IInv, Tidy, Looping
      <3>2. pc = "tmp" => partial = <<>>
        BY DEF IInv, Tidy
      <3> QED BY <2>3, <2>4, <2>6, <2>7, <3>1, <3>2 DEF Tidy
    <2> QED BY <2>5, <2>10, <2>11, <2>12 DEF IInv
  <1> QED BY <1>2, <1>3 DEF DecodeSymbol

LEMMA DecodeFailsKeeps ==
    ASSUME IInv, DecodeFails
    PROVE  IInv'
  BY LoopFailsKeeps DEF DecodeFails

LEMMA WriteKeeps ==
    ASSUME IInv, NEW n \in 0..MaxChunk, Write(n)
    PROVE  IInv'
  <1>1. /\ pc = "idle" /\ pc' = "write" /\ sent + n <= file.len
        /\ chunk' = Run(sent, sent + n)
        /\ UNCHANGED <<file, sent, state, tmp, partial, done, rest, result>>
    BY DEF Write
  <1>2. /\ sent \in Nat /\ file.len \in Nat /\ n \in Nat /\ n <= MaxChunk
    BY FirstSymbol, Numbers DEF IInv, TypeOK
  <1>3. chunk' \in Seq(Nat) /\ Len(chunk') = n
    <2> DEFINE e == sent + n
    <2>1. e \in Nat /\ sent <= e /\ e - sent = n
      BY <1>2
    <2> HIDE DEF e
    <2>2. Run(sent, e) \in Seq(Nat) /\ Len(Run(sent, e)) = e - sent
      BY <1>2, <2>1, RunIsSeq
    <2> QED BY <1>1, <2>1, <2>2 DEF e
  <1>4. TypeOK'
    BY <1>1, <1>2, <1>3 DEF IInv, TypeOK
  <1>5. NoByteLost'
    BY <1>1, <1>3 DEF IInv, NoByteLost, Held, Horizon, Looping
  <1>6. RoomToRefill' /\ Tidy'
    BY <1>1 DEF IInv, RoomToRefill, Tidy, Looping, Horizon
  <1> QED BY <1>4, <1>5, <1>6 DEF IInv

LEMMA FinishKeeps ==
    ASSUME IInv, Finish
    PROVE  IInv'
  <1>1. /\ pc = "idle" /\ pc' = "finish"
        /\ UNCHANGED <<file, sent, state, tmp, partial, done, chunk, rest,
                       result>>
    BY DEF Finish
  <1>2. TypeOK'
    BY <1>1 DEF IInv, TypeOK
  <1>3. NoByteLost' /\ RoomToRefill' /\ Tidy'
    BY <1>1
    DEF IInv, NoByteLost, RoomToRefill, Tidy, Held, Horizon, Looping
  <1> QED BY <1>2, <1>3 DEF IInv

LEMMA WriteDeadKeeps ==
    ASSUME IInv, WriteDead
    PROVE  IInv'
  <1>1. /\ pc = "write" /\ state = "None" /\ sent' = sent + 0
        /\ result' = Wrote(0) /\ pc' = "idle" /\ chunk' = <<>> /\ rest' = <<>>
        /\ UNCHANGED <<file, state, tmp, partial, done>>
    BY DEF WriteDead, WriteReturns
  <1>2. sent' = sent
    BY <1>1, FirstSymbol DEF IInv, TypeOK
  <1>3. TypeOK'
    BY <1>1, <1>2, ResultTypes, EmptyConcat, Numbers DEF IInv, TypeOK
  <1>4. NoByteLost' /\ RoomToRefill' /\ Tidy'
    BY <1>1 DEF NoByteLost, RoomToRefill, Tidy, Looping
  <1> QED BY <1>3, <1>4 DEF IInv

LEMMA FinishStepsKeep ==
    ASSUME IInv, FinishEarly \/ FinishChecked \/ FinishUnchecked
    PROVE  IInv'
  <1>1. CASE FinishEarly
    <2>1. /\ pc' = "closed" /\ chunk' = <<>> /\ rest' = <<>>
          /\ result' \in Results
          /\ UNCHANGED <<file, sent, state, tmp, partial, done>>
      BY <1>1, ResultTypes DEF FinishEarly, FinishReturns
    <2>2. TypeOK'
      BY <2>1, EmptyConcat, Numbers DEF IInv, TypeOK
    <2>3. NoByteLost' /\ RoomToRefill' /\ Tidy'
      BY <2>1 DEF IInv, NoByteLost, RoomToRefill, Tidy, Looping
    <2> QED BY <2>2, <2>3 DEF IInv
  <1>2. CASE FinishChecked
    <2>1. /\ pc = "finish" /\ state = "Data" /\ pc' = "flush" /\ rest' = tmp
          /\ UNCHANGED <<file, sent, state, tmp, partial, done, chunk, result>>
      BY <1>2 DEF FinishChecked
    <2>2. TypeOK'
      BY <2>1 DEF IInv, TypeOK
    <2>3. NoByteLost' /\ RoomToRefill' /\ Tidy'
      BY <2>1
      DEF IInv, NoByteLost, RoomToRefill, Tidy, Held, Horizon, Looping
    <2> QED BY <2>2, <2>3 DEF IInv
  <1>3. CASE FinishUnchecked
    <2>1. WellFormed(file) /\ done \in 0..file.count
      BY DEF IInv, TypeOK
    <2>2. file.outs[done] \in Nat
      BY <2>1, FileFacts
    <2>3. \E r \in Results : FinishReturns(r)
      BY <1>3, <2>2, ResultTypes DEF FinishUnchecked
    <2> QED BY <1>3, <2>3, FinishReturnsKeeps DEF FinishUnchecked, IInv, TypeOK
  <1> QED BY <1>1, <1>2, <1>3

LEMMA WriteDataKeeps ==
    ASSUME IInv, WriteData
    PROVE  IInv'
  <1>1. /\ pc = "write" /\ state = "Data"
        /\ UNCHANGED <<file, sent, state, tmp, partial, done, chunk, result>>
    BY DEF WriteData
  <1> DEFINE a == Prefix + file.ends[done]
  <1>2. /\ sent + Len(chunk) <= file.len /\ chunk = Run(sent, sent + Len(chunk))
        /\ tmp = <<>> \/ partial = <<>>
    BY <1>1 DEF IInv, NoByteLost, Tidy
  <1>3. /\ sent \in Nat /\ chunk \in Seq(Nat) /\ Len(chunk) \in Nat
        /\ partial \in Seq(Nat) /\ a \in Nat
    BY FileFacts, LenProperties, Numbers DEF IInv, TypeOK
  <1>4. ~SizeMet(file, done) => partial \o tmp = Run(a, sent) /\ a <= sent
    BY <1>1 DEF IInv, NoByteLost, Tidy, Held, Horizon, Looping
  <1>5. CASE tmp # <<>>
    <2>1. pc' = "tmp" /\ rest' = tmp
      BY <1>5 DEF WriteData
    <2>2. TypeOK'
      BY <1>1, <2>1 DEF IInv, TypeOK
    <2>3. NoByteLost'
      BY <1>1, <1>2, <1>4, <2>1 DEF NoByteLost, Held, Horizon, Looping
    <2>4. RoomToRefill' /\ Tidy'
      BY <1>1, <1>2, <1>4, <1>5, <2>1
      DEF RoomToRefill, Tidy, Horizon, Looping
    <2> QED BY <2>2, <2>3, <2>4 DEF IInv
  <1>6. CASE tmp = <<>>
    <2>1. pc' = "input" /\ rest' = chunk
      BY <1>6 DEF WriteData
    <2>2. TypeOK'
      BY <1>1, <2>1 DEF IInv, TypeOK
    <2>3. ASSUME ~SizeMet(file, done)
          PROVE  /\ partial \o chunk = Run(a, sent + Len(chunk))
                 /\ a <= sent + Len(chunk)
      <3> DEFINE b == sent
                 c == sent + Len(chunk)
      <3>1. /\ a \in Nat /\ b \in Nat /\ c \in Nat /\ a <= b /\ b <= c
            /\ partial = Run(a, b) /\ chunk = Run(b, c)
        BY <1>2, <1>3, <1>4, <1>6, <2>3, EmptyConcat
      <3> HIDE DEF a, b, c
      <3>2. Run(a, b) \o Run(b, c) = Run(a, c)
        BY <3>1, RunConcat
      <3>3. partial \o chunk = Run(a, c) /\ a <= c
        BY <3>1, <3>2
      <3> QED BY <3>3 DEF c
    <2>4. (sent + Len(chunk)) - Len(chunk) = sent
          /\ sent + Len(chunk) - Len(chunk) = sent
      BY <1>3
    <2>5. NoByteLost'
      BY <1>1, <1>2, <1>3, <1>6, <2>1, <2>3, <2>4
      DEF NoByteLost, Held, Horizon, Looping
    <2>6. RoomToRefill' /\ Tidy'
      BY <1>1, <1>6, <2>1, <2>3 DEF RoomToRefill, Tidy, Horizon, Looping
    <2> QED BY <2>2, <2>5, <2>6 DEF IInv
  <1> QED BY <1>5, <1>6

LEMMA WriteHeaderKeeps ==
    ASSUME IInv, WriteHeader
    PROVE  IInv'
  <1> DEFINE k == Least(MaxTmp - Len(tmp), Len(chunk))
             e == sent + k
  <1>1. /\ pc = "write" /\ state = "Header" /\ UNCHANGED <<file, partial, done>>
        /\ tmp = Run(0, sent) /\ partial = <<>> /\ done = 0
        /\ sent + Len(chunk) <= file.len /\ chunk = Run(sent, sent + Len(chunk))
    BY DEF WriteHeader, IInv, NoByteLost, Tidy
  <1>2. /\ sent \in Nat /\ tmp \in Seq(Nat) /\ chunk \in Seq(Nat)
        /\ Len(tmp) \in Nat /\ Len(chunk) \in Nat /\ Len(tmp) <= MaxTmp
        /\ Len(chunk) <= MaxChunk /\ file.len \in Nat /\ WellFormed(file)
    BY FirstSymbol, LenProperties DEF IInv, TypeOK
  <1>3. /\ k \in 0..Len(chunk) /\ k <= MaxTmp - Len(tmp) /\ k \in Nat
        /\ MaxTmp - Len(tmp) >= Len(chunk) => k = Len(chunk)
        /\ e \in Nat /\ sent <= e /\ e <= file.len
    <2>1. MaxTmp - Len(tmp) \in Nat
      BY <1>2, Numbers
    <2>2. k = IF MaxTmp - Len(tmp) <= Len(chunk) THEN MaxTmp - Len(tmp)
                                                 ELSE Len(chunk)
      BY DEF Least
    <2> HIDE DEF k
    <2>3. /\ k \in 0..Len(chunk) /\ k <= MaxTmp - Len(tmp) /\ k \in Nat
          /\ MaxTmp - Len(tmp) >= Len(chunk) => k = Len(chunk)
      BY <1>2, <2>1, <2>2
    <2> QED BY <1>1, <1>2, <2>3
  <1>4. Len(tmp) = sent
    BY <1>1, <1>2, RunIsSeq
  <1>5. Moved = Run(sent, e) /\ Moved \in Seq(Nat) /\ Len(Moved) = k
    <2> DEFINE c == sent + Len(chunk)
    <2>1. c \in Nat /\ chunk = Run(sent, c) /\ sent + k <= c
      BY <1>1, <1>2, <1>3
    <2>2. Moved = First(chunk, k)
      BY DEF Moved
    <2> HIDE DEF c, k
    <2>3. First(Run(sent, c), k) = Run(sent, sent + k)
      BY <1>2, <1>3, <2>1, FirstRun
    <2>4. First(chunk, k) \in Seq(Nat) /\ Len(First(chunk, k)) = k
      BY <1>2, <1>3, SplitSeq
    <2> QED BY <2>1, <2>2, <2>3, <2>4
  <1>6. /\ tmp \o Moved = Run(0, e) /\ tmp \o Moved \in Seq(Nat)
        /\ Len(tmp \o Moved) = e /\ e <= MaxTmp
    <2>1. Run(0, sent) \o Run(sent, e) = Run(0, e)
      <3> DEFINE z == 0
      <3>1. z \in Nat /\ z <= sent /\ e \in Nat /\ sent <= e
        BY <1>2, <1>3
      <3> HIDE DEF e, z
      <3>2. Run(z, sent) \o Run(sent, e) = Run(z, e)
        BY <1>2, <3>1, RunConcat
      <3> QED BY <3>2 DEF z
    <2>2. tmp \o Moved \in Seq(Nat) /\ Len(tmp \o Moved) = Len(tmp) + Len(Moved)
      BY <1>2, <1>5, ConcatNat
    <2> HIDE DEF k
    <2> QED BY SMTT(30), <1>1, <1>2, <1>3, <1>4, <1>5, <2>1, <2>2, Numbers
  <1>7. CASE /\ WriteFails
             /\ tmp' = IF tmp = <<>> THEN tmp ELSE HeaderInput
    <2>1. tmp' \in Seq(Nat) /\ Len(tmp') <= MaxTmp
      <3> HIDE DEF e, k
      <3> QED BY <1>2, <1>6, <1>7 DEF HeaderInput
    <2> QED BY <1>1, <1>7, <2>1, WriteFailsKeeps DEF IInv, TypeOK
  <1>8. CASE /\ HeaderRead(HeaderInput) /\ state' = "Data"
             /\ tmp = <<>> /\ tmp' = tmp /\ WriteReturns(Prefix)
    <2>1. sent = 0 /\ HeaderInput = chunk /\ Prefix <= Len(chunk)
      BY <1>4, <1>8, Numbers DEF HeaderInput, HeaderRead
    <2>2. /\ sent' = Prefix /\ result' = Wrote(Prefix) /\ pc' = "idle"
          /\ chunk' = <<>> /\ rest' = <<>> /\ tmp' = <<>> /\ partial' = <<>>
          /\ done' = done /\ file' = file
      BY <1>1, <1>8, <2>1, Numbers DEF WriteReturns
    <2>3. /\ file.ends[done] = 0 /\ Prefix + 0 = Prefix
          /\ Prefix \in 0..file.len
      BY <1>1, <1>2, <2>1, FirstSymbol, Numbers
    <2>4. TypeOK'
      BY <1>1, <1>8, <2>2, <2>3, Numbers, ResultTypes, EmptyConcat
      DEF IInv, TypeOK
    <2>5. Run(Prefix, Prefix) = <<>> /\ <<>> \o <<>> = <<>>
      BY Numbers, EmptyConcat DEF Run
    <2>6. NoByteLost'
      BY <1>8, <2>2, <2>3, <2>5 DEF NoByteLost, Held, Horizon, Looping
    <2>7. RoomToRefill' /\ Tidy'
      BY <1>8, <2>2, <2>3, Numbers, EmptyConcat
      DEF RoomToRefill, Tidy, Horizon, Looping
    <2> QED BY <2>4, <2>6, <2>7 DEF IInv
  <1>9. CASE /\ HeaderRead(HeaderInput) /\ state' = "Data"
             /\ tmp # <<>> /\ tmp' = Skip(HeaderInput, Prefix)
             /\ WriteReturns(Len(Moved))
    <2>1. HeaderInput = Run(0, e) /\ Prefix <= e
      BY <1>6, <1>9 DEF HeaderInput, HeaderRead
    <2>2. /\ sent' = e /\ result' = Wrote(k) /\ pc' = "idle"
          /\ chunk' = <<>> /\ rest' = <<>> /\ partial' = <<>>
          /\ done' = done /\ file' = file
      BY <1>1, <1>5, <1>9 DEF WriteReturns
    <2>3. tmp' = Run(Prefix, e) /\ tmp' \in Seq(Nat) /\ Len(tmp') <= MaxTmp
      <3> DEFINE z == 0
                 p == Prefix
      <3>1. z \in Nat /\ z + p = p /\ p \in Nat /\ p <= e /\ e \in Nat
            /\ tmp' = Skip(Run(z, e), p)
        BY <1>3, <1>9, <2>1, Numbers
      <3> HIDE DEF e, z, p
      <3>2. Skip(Run(z, e), p) = Run(z + p, e)
        BY <3>1, SkipRun
      <3>3. Run(p, e) \in Seq(Nat) /\ Len(Run(p, e)) = e - p
        BY <3>1, RunIsSeq
      <3>4. e - p <= MaxTmp
        BY <1>6, <3>1, Numbers
      <3> QED BY <3>1, <3>2, <3>3, <3>4 DEF p
    <2>4. file.ends[done] = 0 /\ Prefix + 0 = Prefix
      BY <1>1, <1>2, FirstSymbol, Numbers
    <2>5. TypeOK'
      <3> HIDE DEF e, k
      <3> QED BY <1>1, <1>2, <1>3, <1>9, <2>2, <2>3, Numbers, ResultTypes,
                 EmptyConcat DEF IInv, TypeOK
    <2>6. <<>> \o tmp' = tmp'
      BY <2>3, EmptyConcat
    <2>7. NoByteLost'
      <3> HIDE DEF e, k
      <3> QED BY <1>9, <2>2, <2>3, <2>4, <2>6
              DEF NoByteLost, Held, Horizon, Looping
    <2>8. RoomToRefill' /\ Tidy'
      <3> HIDE DEF e, k
      <3> QED BY <1>9, <2>1, <2>2, <2>4, Numbers, EmptyConcat
              DEF RoomToRefill, Tidy, Horizon, Looping
    <2> QED BY <2>5, <2>7, <2>8 DEF IInv
  <1>10. CASE /\ ~HeaderBad(HeaderInput) /\ ~HeaderRead(HeaderInput)
              /\ tmp' = tmp \o Moved /\ WriteReturns(Len(Moved))
              /\ UNCHANGED state
    <2>1. /\ sent' = e /\ result' = Wrote(k) /\ pc' = "idle"
          /\ chunk' = <<>> /\ rest' = <<>> /\ partial' = <<>>
          /\ done' = done /\ file' = file /\ state' = "Header"
      BY <1>1, <1>5, <1>10 DEF WriteReturns
    <2>2. tmp' = Run(0, e) /\ tmp' \in Seq(Nat) /\ Len(tmp') <= MaxTmp
      <3> HIDE DEF e, k
      <3> QED BY <1>6, <1>10
    <2>3. TypeOK'
      <3> HIDE DEF e, k
      <3> QED BY <1>1, <1>2, <1>3, <2>1, <2>2, Numbers, ResultTypes,
                 EmptyConcat DEF IInv, TypeOK
    <2>4. NoByteLost' /\ RoomToRefill' /\ Tidy'
      <3> HIDE DEF e, k
      <3> QED BY <1>1, <2>1, <2>2 DEF NoByteLost, RoomToRefill, Tidy, Looping
    <2> QED BY <2>3, <2>4 DEF IInv
  <1> QED BY <1>7, <1>8, <1>9, <1>10 DEF WriteHeader

-----------------------------------------------------------------------------
(* The theorems *)

\* Every step preserves the invariant, one lemma per action.
LEMMA NextIInv == IInv /\ [Next]_vars => IInv'
  <1> SUFFICES ASSUME IInv, [Next]_vars PROVE IInv'
    OBVIOUS
  <1>1. CASE \E n \in 0..MaxChunk : Write(n)
    BY <1>1, WriteKeeps
  <1>2. CASE Finish
    BY <1>2, FinishKeeps
  <1>3. CASE WriteHeader
    BY <1>3, WriteHeaderKeeps
  <1>4. CASE WriteDead
    BY <1>4, WriteDeadKeeps
  <1>5. CASE WriteData
    BY <1>5, WriteDataKeeps
  <1>6. CASE LoopStops
    BY <1>6, LoopStopsKeeps
  <1>7. CASE WaitForInput
    BY <1>7, WaitForInputKeeps
  <1>8. CASE DecodeSymbol
    BY <1>8, DecodeSymbolKeeps
  <1>9. CASE DecodeMarker
    BY <1>9, DecodeMarkerKeeps
  <1>10. CASE DecodeFails
    BY <1>10, DecodeFailsKeeps
  <1>11. CASE FinishEarly \/ FinishChecked \/ FinishUnchecked
    BY <1>11, FinishStepsKeep
  <1>12. CASE UNCHANGED vars
    <2>1. TypeOK' /\ NoByteLost'
      BY <1>12
      DEF vars, IInv, TypeOK, NoByteLost, Held, Horizon, Looping
    <2>2. RoomToRefill' /\ Tidy'
      BY <1>12 DEF vars, IInv, RoomToRefill, Tidy, Horizon, Looping
    <2> QED BY <2>1, <2>2 DEF IInv
  <1> QED
    BY <1>1, <1>2, <1>3, <1>4, <1>5, <1>6, <1>7, <1>8, <1>9, <1>10, <1>11,
       <1>12 DEF Next, Step

\* IInv holds in every reachable state.
LEMMA Inductive == Spec => []IInv
  BY InitIInv, NextIInv, PTL DEF Spec

\* The buffers of the stream never overflow their fixed capacity (the slices
\* of write and process_mode never panic), and every value has its type.
THEOREM TypeCorrect == Spec => []TypeOK
  <1>1. IInv => TypeOK
    BY DEF IInv
  <1> QED BY <1>1, Inductive, PTL

\* However the input is cut into chunks, and whatever its symbols need, no
\* byte that write accepted is lost, repeated or reordered before it is
\* decoded, and write counts as accepted what it took.
THEOREM NothingLost == Spec => []NoByteLost
  <1>1. IInv => NoByteLost
    BY DEF IInv
  <1> QED BY <1>1, Inductive, PTL

\* A call of write never finds partial_input_buf full, so that it can always
\* take at least one byte of a nonempty chunk.
THEOREM AlwaysRoom == Spec => []RoomToRefill
  <1>1. IInv => RoomToRefill
    BY DEF IInv
  <1> QED BY <1>1, Inductive, PTL

-----------------------------------------------------------------------------
(* allow_incomplete *)

\* The next symbol has bytes that have not been accepted.
Exhausted ==
    ~SizeMet(file, done) /\ done < file.count /\ Kind(file, done + 1) = "data"
       /\ Tried
    => Prefix + file.ends[done + 1] > sent

\* When the header is all that tmp has room for besides what starts the range
\* decoder, tmp never holds symbols; and each call decodes all it can.
KeepsUp ==
    /\ state = "Data" => tmp = <<>>
    /\ pc # "tmp"
    /\ state = "Data" /\ (pc \in {"idle", "finish"} \/ (pc = "closed" /\ result # FinishErr))
          => Exhausted

\* The loop ends without an error: there is no symbol it could still decode.
LEMMA NoneLeft ==
    ASSUME IInv, LoopStops \/ WaitForInput \/ DecodeMarker, pc # "tmp"
    PROVE  state = "Data" /\ tmp' = tmp /\ (state' = "Data" /\ result' # FinishErr => Exhausted')
  <1>1. (Looping /\ ~LoopEnds) \/ LoopStops
    BY DEF WaitForInput, DecodeMarker
  <1>2. pc \in {"input", "flush"} /\ state = "Data"
    <2>1. Looping
      BY DEF LoopStops, WaitForInput, DecodeMarker
    <2> QED BY <2>1 DEF IInv, Tidy, Looping
  <1>3. TypeOK /\ WellFormed(file) /\ done \in 0..file.count
    BY DEF IInv, TypeOK
  <1>4. /\ file.count \in Nat /\ file.ends[done] \in Nat
        /\ done < file.count => file.ends[done + 1] \in Nat
    BY <1>3, FileFacts
  <1>5. ~SizeMet(file, done) =>
           /\ partial \o rest = Run(Prefix + file.ends[done], Horizon)
           /\ Prefix + file.ends[done] <= Horizon
    BY <1>2 DEF IInv, NoByteLost, Tidy, Looping, Held
  <1>6. sent \in Nat /\ Horizon \in Nat /\ Prefix \in Nat
    BY <1>3, FirstSymbol, Numbers, LenProperties DEF TypeOK, Horizon
  <1>7. CASE LoopStops
    <2>1. LoopEnds /\ LoopReturns(done, rest) /\ UNCHANGED <<file, partial, done>>
      BY <1>7 DEF LoopStops
    <2>2. CASE SizeMet(file, done)
      BY <1>2, <2>1, <2>2 DEF Exhausted, LoopReturns, WriteReturns, FinishReturns
    <2>3. CASE ~SizeMet(file, done)
      <3>1. rest = <<>> /\ partial = <<>> /\ file.size = NoSize
        BY <2>1, <2>3 DEF LoopEnds, SizeMet
      <3>2. Prefix + file.ends[done] = Horizon
        <4>1. partial \o rest = <<>>
          BY <3>1
        <4>2. Len(Run(Prefix + file.ends[done], Horizon)) = Horizon - (Prefix + file.ends[done])
          <5>1. Prefix + file.ends[done] \in Nat
            BY <1>4, <1>6
          <5> QED BY <1>5, <1>6, <2>3, <5>1, RunIsSeq
        <4> QED BY <1>4, <1>5, <1>6, <2>3, <4>1, <4>2
      <3>3. sent' = Horizon /\ tmp' = tmp
        <4>1. CASE pc = "input"
          <5>1. sent' = sent + (Len(chunk) - Len(rest)) /\ tmp' = tmp
            BY <2>1, <4>1 DEF LoopReturns, WriteReturns
          <5>2. Len(rest) = 0 /\ Len(chunk) \in Nat
            BY <1>3, <3>1 DEF TypeOK
          <5> QED BY <1>6, <4>1, <5>1, <5>2 DEF Horizon
        <4>2. CASE pc = "flush"
          BY <2>1, <4>2 DEF LoopReturns, FinishReturns, Horizon
        <4> QED BY <1>2, <4>1, <4>2
      <3>4. done < file.count /\ NextLen > 0 => file.ends[done + 1] > file.ends[done]
        BY <1>4 DEF NextLen
      <3>5. done < file.count /\ NextLen > 0 => Prefix + file.ends[done + 1] > sent'
        BY <1>4, <1>6, <3>2, <3>3, <3>4
      <3>6. Exhausted'
        BY <2>1, <3>1, <3>5 DEF Exhausted, Tried, NextLen
      <3> QED BY <1>2, <3>3, <3>6
    <2> QED BY <2>2, <2>3
  <1>8. CASE WaitForInput
    <2> DEFINE r == Skip(rest, Len(Buf) - Len(partial))
    <2>1. /\ ~LoopEnds /\ Len(Buf) < MaxReq /\ Short /\ ~Finishing
          /\ LoopReturns(done, r) /\ UNCHANGED <<file, done>>
      BY <1>8 DEF WaitForInput, MustWait
    <2>2. pc = "input"
      BY <1>2, <2>1 DEF Finishing
    <2>3. ~SizeMet(file, done)
      BY <2>1 DEF LoopEnds, SizeMet
    <2>4. /\ partial \in Seq(Nat) /\ rest \in Seq(Nat) /\ Len(partial) \in Nat
          /\ Len(rest) \in Nat /\ Len(chunk) \in Nat
      BY <1>3, LenProperties DEF TypeOK
    <2>5. /\ Beyond = <<>> /\ Buf \in Seq(Nat) /\ Buf \o Beyond = partial \o rest
          /\ Len(Refill) \in 0..Len(rest)
          /\ partial # <<>> => Len(Buf) = Len(partial) + Len(Refill)
      BY <1>3, <2>1, BufFacts
    <2>6. r = <<>>
      <3>1. CASE partial = <<>>
        BY <2>4, <3>1, EmptyConcat DEF Buf
      <3>2. CASE partial # <<>>
        <4>1. Len(Buf) - Len(partial) = Len(Refill)
          BY <2>4, <2>5, <3>2
        <4> QED BY <2>5, <3>2, <4>1 DEF Beyond
      <3> QED BY <3>1, <3>2
    <2>7. sent' = Horizon /\ tmp' = tmp
      <3>1. sent' = sent + (Len(chunk) - Len(r)) /\ tmp' = tmp
        BY <2>1, <2>2 DEF LoopReturns, WriteReturns
      <3>2. Len(r) = 0
        BY <2>6
      <3> HIDE DEF r
      <3> QED BY <1>6, <2>2, <2>4, <3>1, <3>2 DEF Horizon
    <2>8. Len(Buf) = Horizon - (Prefix + file.ends[done])
      <3>1. Buf = partial \o rest
        BY <2>5, EmptyConcat
      <3>2. Prefix + file.ends[done] \in Nat
        BY <1>4, <1>6
      <3> QED BY <1>5, <1>6, <2>3, <3>1, <3>2, RunIsSeq
    <2>9. done < file.count => Prefix + file.ends[done + 1] > sent'
      <3>1. done < file.count => file.ends[done + 1] - file.ends[done] > Len(Buf)
        BY <2>1 DEF Short, NextLen
      <3> QED BY <1>4, <1>6, <2>7, <2>8, <3>1
    <2>10. Exhausted'
      BY <2>1, <2>9 DEF Exhausted
    <2> QED BY <1>2, <2>7, <2>10
  <1>9. CASE DecodeMarker
    <2>1. /\ NextKind = "eos" /\ done' = done + 1 /\ UNCHANGED file
          /\ \E r : LoopReturns(done + 1, r)
      BY <1>9 DEF DecodeMarker
    <2>2. done' = file.count
      BY <2>1 DEF NextKind, Kind
    <2>3. tmp' = tmp
      BY <1>2, <2>1 DEF LoopReturns, WriteReturns
    <2>4. Exhausted'
      BY <1>4, <2>1, <2>2 DEF Exhausted
    <2> QED BY <1>2, <2>3, <2>4
  <1> QED BY <1>7, <1>8, <1>9

\* The header is all there, and the symbols begin.
LEMMA HeaderKeepsUp ==
    ASSUME IInv, KeepsUp, WriteHeader, HeaderLen = MaxHeaderLen
    PROVE  KeepsUp'
  <1>1. state = "Header" /\ UNCHANGED <<file, partial, done>> /\ pc' = "idle"
    BY DEF WriteHeader, WriteFails, WriteReturns
  <1>2. CASE state' # "Data"
    BY <1>1, <1>2 DEF KeepsUp
  <1>3. CASE state' = "Data"
    <2>1. /\ HeaderRead(HeaderInput)
          /\ IF tmp = <<>> THEN tmp' = tmp /\ WriteReturns(Prefix)
                           ELSE /\ tmp' = Skip(HeaderInput, Prefix)
                                /\ WriteReturns(Len(Moved))
      BY <1>1, <1>3 DEF WriteHeader, WriteFails
    <2>2. /\ WellFormed(file) /\ done = 0 /\ tmp = Run(0, sent) /\ tmp \in Seq(Nat)
          /\ chunk \in Seq(Nat) /\ sent \in Nat
      BY <1>1, FirstSymbol DEF IInv, TypeOK, Tidy, NoByteLost
    <2>3. /\ Len(tmp) = sent /\ Len(tmp) <= MaxTmp /\ Len(chunk) \in Nat
      BY <2>2, RunIsSeq, LenProperties DEF IInv, TypeOK
    <2>4. Prefix = MaxTmp /\ Prefix \in Nat
      BY Numbers DEF Prefix, MaxTmp
    <2>5. sent' = Prefix /\ tmp' = <<>>
      <3>1. CASE tmp = <<>>
        <4>1. sent' = sent + Prefix /\ tmp' = <<>> /\ sent = 0
          BY <2>1, <2>3, <3>1 DEF WriteReturns
        <4> QED BY <2>4, <4>1
      <3>2. CASE tmp # <<>>
        <4> DEFINE k == Least(MaxTmp - Len(tmp), Len(chunk))
        <4>1. k \in 0..Len(chunk) /\ k <= MaxTmp - Len(tmp)
          BY <2>2, <2>3, <2>4 DEF Least
        <4>2. Moved = First(chunk, k)
          BY DEF Moved
        <4> HIDE DEF k
        <4>3. Moved \in Seq(Nat) /\ Len(Moved) = k
          BY <2>2, <4>1, <4>2, SplitSeq
        <4>4. HeaderInput = tmp \o Moved
          BY <3>2 DEF HeaderInput
        <4>5. HeaderInput \in Seq(Nat) /\ Len(HeaderInput) = sent + k
          BY <2>2, <2>3, <4>3, <4>4, ConcatNat
        <4>6. sent + k = Prefix
          <5>1. sent + k >= Prefix
            BY <2>1, <4>5 DEF HeaderRead
          <5> QED BY <2>2, <2>3, <2>4, <4>1, <5>1
        <4>7. sent' = sent + Len(Moved) /\ tmp' = Skip(HeaderInput, Prefix)
          BY <2>1, <3>2 DEF WriteReturns
        <4>8. Skip(HeaderInput, Len(HeaderInput)) = <<>>
          BY <4>5, EmptyConcat
        <4> QED BY <4>3, <4>5, <4>6, <4>7, <4>8
      <3> QED BY <3>1, <3>2
    <2>6. file.ends[0] = 0 /\ (0 < file.count => file.ends[1] \in Nat)
      <3>1. 0 \in 0..file.count
        BY <2>2, FirstSymbol
      <3>2. 0 < file.count => file.ends[0 + 1] \in Nat
        BY <2>2, <3>1, FileFacts
      <3> QED BY <2>2, <3>2, FirstSymbol
    <2>7. Exhausted'
      BY <1>1, <2>2, <2>4, <2>5, <2>6 DEF Exhausted, Tried, NextLen
    <2> QED BY <1>1, <2>5, <2>7 DEF KeepsUp
  <1> QED BY <1>2, <1>3

LEMMA NextKeepsUp ==
    ASSUME HeaderLen = MaxHeaderLen
    PROVE  IInv /\ KeepsUp /\ [Next]_vars => KeepsUp'
  <1> SUFFICES ASSUME IInv, KeepsUp, [Next]_vars PROVE KeepsUp'
    OBVIOUS
  <1>1. CASE UNCHANGED vars
    BY <1>1 DEF vars, KeepsUp, Exhausted, Tried, NextLen
  <1>2. CASE \E n \in 0..MaxChunk : Write(n)
    BY <1>2 DEF Write, KeepsUp
  <1>3. CASE Finish
    BY <1>3 DEF Finish, KeepsUp, Exhausted, Tried, NextLen
  <1>4. CASE WriteHeader
    BY <1>4, HeaderKeepsUp
  <1>5. CASE WriteDead
    BY <1>5 DEF WriteDead, WriteReturns, KeepsUp
  <1>6. CASE WriteData
    BY <1>6 DEF WriteData, KeepsUp
  <1>7. CASE LoopStops \/ WaitForInput \/ DecodeMarker
    <2>1. /\ pc # "tmp" /\ state = "Data" /\ tmp = <<>> /\ tmp' = tmp
          /\ state' = "Data" /\ result' # FinishErr => Exhausted'
      BY <1>7, NoneLeft DEF KeepsUp
    <2>2. pc' # "tmp" /\ (pc' = "idle" => result' # FinishErr) /\ pc' # "finish"
      <3>1. \E d, r : LoopReturns(d, r)
        BY <1>7 DEF LoopStops, WaitForInput, DecodeMarker
      <3> QED BY <2>1, <3>1
          DEF LoopReturns, WriteReturns, FinishReturns, Wrote, FinishErr
    <2> QED BY <2>1, <2>2 DEF KeepsUp
  <1>8. CASE DecodeSymbol \/ DecodeFails
    <2>1. Looping /\ pc # "tmp"
      BY <1>8 DEF DecodeSymbol, DecodeFails, KeepsUp
    <2>2. CASE LoopFails
      BY <2>1, <2>2 DEF LoopFails, WriteFails, FinishReturns, KeepsUp
    <2>3. CASE UNCHANGED <<sent, state, tmp, pc, chunk, result>>
      BY <2>1, <2>3 DEF Looping, KeepsUp
    <2> QED BY <1>8, <2>2, <2>3 DEF DecodeSymbol, DecodeFails
  <1>9. CASE FinishEarly \/ FinishChecked
    BY <1>9 DEF FinishEarly, FinishChecked, FinishReturns, KeepsUp
  <1>10. CASE FinishUnchecked
    BY <1>10 DEF FinishUnchecked, FinishReturns, KeepsUp, Exhausted, Tried, NextLen
  <1> QED BY <1>1, <1>2, <1>3, <1>4, <1>5, <1>6, <1>7, <1>8, <1>9, <1>10 DEF Next, Step

\* With the default options, whose header has all the bytes a header can have,
\* finish with allow_incomplete delivers the output of every symbol whose bytes
\* were accepted, for every input and however it is cut, but for the symbols
\* that take no byte when no size is known: the loop leaves at the end of a
\* chunk before it decodes those, and finish does not go on.  (With a provided
\* size even symbols that take bytes are left out: tmp may then hold them.)
THEOREM IncompleteDecodesAll ==
    ASSUME HeaderLen = MaxHeaderLen
    PROVE  Spec => []IncompleteKeepsAll
  <1>1. Init => KeepsUp
    BY DEF Init, KeepsUp
  <1>2. KeepsUp => IncompleteKeepsAll
    BY DEF KeepsUp, IncompleteKeepsAll, Exhausted
  <1>3. IInv /\ KeepsUp /\ [Next]_vars => KeepsUp'
    BY NextKeepsUp
  <1> QED BY <1>1, <1>2, <1>3, InitIInv, NextIInv, PTL DEF Spec

-----------------------------------------------------------------------------
(* What the one-shot decoder does with a prefix of the input *)

\* A later symbol does not end before an earlier one.
LEMMA InOrder ==
    ASSUME NEW f, WellFormed(f), NEW d \in 0..f.count, NEW i \in 0..d
    PROVE  f.ends[i] <= f.ends[d]
  <1> DEFINE P == {m \in 0..(d - i) : f.ends[i] <= f.ends[i + m]}
  <1>1. f.count \in Nat /\ d - i \in Nat /\ i \in 0..f.count
    BY DEF WellFormed
  <1>2. \A j \in 0..f.count : f.ends[j] \in Nat
    BY FileFacts
  <1>3. 0 \in P
    BY <1>1, <1>2
  <1>4. ASSUME NEW m \in 1..(d - i), m - 1 \in P PROVE m \in P
    <2>1. i + (m - 1) \in 0..f.count /\ i + (m - 1) < f.count /\ (i + (m - 1)) + 1 = i + m
      BY <1>1
    <2>2. f.ends[i + (m - 1)] <= f.ends[(i + (m - 1)) + 1]
      BY <2>1, FileFacts
    <2>3. i + m \in 0..f.count
      BY <1>1
    <2>4. f.ends[i] \in Nat /\ f.ends[i + (m - 1)] \in Nat /\ f.ends[i + m] \in Nat
      BY <1>1, <1>2, <2>1, <2>3
    <2>5. f.ends[i] <= f.ends[i + (m - 1)]
      BY <1>4
    <2>6. f.ends[i] <= f.ends[i + m]
      BY <2>1, <2>2, <2>4, <2>5
    <2> QED BY <1>1, <2>6
  <1>5. \A m \in P : f.ends[i] <= f.ends[i + m]
    OBVIOUS
  <1> HIDE DEF P
  <1>6. 0..(d - i) \subseteq P
    BY <1>1, <1>3, <1>4, InductionUpTo
  <1>7. d - i \in P /\ i + (d - i) = d
    BY <1>1, <1>6
  <1> QED BY <1>5, <1>7

\* The one-shot decoder, given p bytes behind the header, decodes d symbols
\* and more; symbol d may be an end marker that ended an earlier prefix.
Passed(f, d, p) ==
    /\ d = 0 \/ Kind(f, d) = "data" \/ (Kind(f, d) = "eos" /\ d \in f.zero)
    /\ f.ends[d] <= p
    /\ \A j \in 0..(d - 1) : ~Leaves(f, j, p)

\* It does not stop earlier when it is given more.
LEMMA PassedWithMore ==
    ASSUME NEW f, WellFormed(f), NEW d \in 0..f.count, NEW p \in Nat, Passed(f, d, p),
           NEW q \in Nat, p <= q
    PROVE  Passed(f, d, q)
  <1>1. f.ends[d] \in Nat /\ f.ends[d] <= p /\ f.count \in Nat
    BY FileFacts DEF Passed
  <1>2. ASSUME NEW j \in 0..(d - 1) PROVE ~Leaves(f, j, q)
    <2>1. ~Leaves(f, j, p)
      BY DEF Passed
    <2>2. j \in 0..d /\ j \in 0..f.count
      BY <1>1
    <2>3. f.ends[j] <= f.ends[d] /\ f.ends[j] \in Nat
      BY <2>2, InOrder, FileFacts
    <2>4. f.ends[j] = q => q = p
      BY <1>1, <2>3
    <2> QED BY <2>1, <2>4 DEF Leaves, AtCleanEnd
  <1>3. f.ends[d] <= q
    BY <1>1
  <1> QED BY <1>2, <1>3 DEF Passed

\* With d symbols decoded of p bytes it can neither leave the loop nor decode
\* one more symbol, nor an end marker with nothing behind it.
Stuck(f, d, p) ==
    /\ ~Leaves(f, d, p)
    /\ d < f.count =>
          \/ f.ends[d + 1] > p
          \/ d + 1 = f.count /\ f.last = "bad"
          \/ d + 1 = f.count /\ f.last = "eos"
                /\ (f.size # NoSize \/ ~AtCleanEnd(f, d + 1, p))

\* A decoder that is stuck accepts nothing.
LEMMA StuckRejects ==
    ASSUME NEW f, WellFormed(f), NEW d \in 0..f.count, NEW n \in Nat,
           Passed(f, d, n - Prefix), Stuck(f, d, n - Prefix)
    PROVE  ~OneShotOk(f, n)
  <1> SUFFICES ASSUME NEW i \in 0..f.count, AcceptsWith(f, n, i) PROVE FALSE
    BY DEF OneShotOk
  <1> DEFINE p == n - Prefix
  <1>1. f.count \in Nat /\ n >= Prefix /\ p \in Nat /\ f.ends[d] \in Nat
    BY FileFacts, Numbers DEF AcceptsWith
  <1>2. EndsWith(f, i, p) /\ (f.size = NoSize \/ f.outs[i] = f.size)
    BY DEF AcceptsWith
  <1>3. Passed(f, d, p) /\ Stuck(f, d, p)
    OBVIOUS
  <1>4. f.ends[i] \in Nat
    BY FileFacts
  <1> HIDE DEF p
  <1>5. d < i => /\ d + 1 \in 0..f.count /\ d < f.count /\ f.ends[d + 1] <= f.ends[i]
                 /\ f.ends[d + 1] \in Nat
    <2>1. d < i => d + 1 \in 0..f.count /\ d + 1 \in 0..i /\ d < f.count
      BY <1>1
    <2> QED BY <2>1, InOrder, FileFacts
  <1>6. CASE Reached(f, i, p) /\ Leaves(f, i, p)
    <2>1. ~(i < d)
      <3>1. i < d => i \in 0..(d - 1)
        BY <1>1
      <3> QED BY <1>3, <1>6, <3>1 DEF Passed
    <2>2. i # d
      BY <1>3, <1>6 DEF Stuck
    <2>3. d < i
      BY <1>1, <2>1, <2>2
    <2>4. d + 1 = f.count /\ f.last \in {"bad", "eos"}
      <3>1. ~(f.ends[d + 1] > p)
        BY <1>1, <1>4, <1>5, <1>6, <2>3 DEF Reached
      <3> QED BY <1>3, <1>5, <2>3, <3>1 DEF Stuck
    <2>5. i = f.count
      BY <1>1, <2>3, <2>4
    <2> QED BY <1>6, <2>3, <2>4, <2>5 DEF Reached, Kind
  <1>7. CASE /\ i > 0 /\ Kind(f, i) = "eos" /\ AtCleanEnd(f, i, p)
             /\ Reached(f, i - 1, p) /\ ~Leaves(f, i - 1, p)
    <2>1. i = f.count /\ f.last = "eos"
      BY <1>7 DEF Kind
    <2>2. f.size = NoSize
      <3>1. i - 1 \in 0..(f.count - 1) /\ (i - 1) + 1 = i /\ i - 1 \in 0..f.count
        BY <1>1, <1>7
      <3>2. f.outs[i - 1] = f.outs[i]
        BY <1>7, <3>1 DEF WellFormed
      <3>3. f.outs[i] \in Nat
        BY FileFacts
      <3>4. f.size # NoSize => f.outs[i] >= f.size
        BY <1>2, <3>3
      <3> QED BY <1>7, <3>2, <3>4 DEF Leaves, SizeMet
    <2>3. CASE d = f.count
      BY <1>3, <1>7, <2>1, <2>2, <2>3 DEF Stuck, Leaves
    <2>4. CASE d # f.count
      <3>1. d < f.count /\ d < i
        BY <1>1, <2>1, <2>4
      <3>2. ~(f.ends[d + 1] > p)
        BY <1>1, <1>4, <1>5, <1>7, <3>1 DEF AtCleanEnd
      <3> QED BY <1>3, <1>7, <2>1, <2>2, <3>1, <3>2 DEF Stuck
    <2> QED BY <2>3, <2>4
  <1> QED BY <1>2, <1>6, <1>7 DEF EndsWith

\* It leaves the loop at its head after d symbols.
LEMMA LeavesAtHead ==
    ASSUME NEW f, WellFormed(f), NEW d \in 0..f.count, NEW p \in Nat,
           Passed(f, d, p), Leaves(f, d, p)
    PROVE  EndsWith(f, d, p) /\ (f.size # NoSize => Reached(f, d, p))
  <1>1. f.count \in Nat /\ f.ends[d] \in Nat
    BY FileFacts
  <1>2. CASE d = 0 \/ Kind(f, d) = "data"
    <2>1. Reached(f, d, p)
      BY <1>2 DEF Passed, Reached
    <2> QED BY <2>1 DEF EndsWith
  <1>3. CASE d # 0 /\ Kind(f, d) # "data"
    <2>1. d = f.count /\ f.last = "eos" /\ Kind(f, d) = "eos" /\ d > 0 /\ d \in f.zero
      BY <1>1, <1>3 DEF Passed, Kind
    <2>2. d - 1 \in 0..(d - 1) /\ d - 1 \in 0..d /\ d - 1 \in 0..f.count /\ (d - 1) + 1 = d
          /\ d - 1 \in 0..(f.count - 1) /\ d - 1 # f.count
      BY <1>1, <2>1
    <2>3. ~Leaves(f, d - 1, p)
      BY <2>2 DEF Passed
    <2>4. f.outs[d - 1] = f.outs[d]
      BY <2>1, <2>2 DEF WellFormed
    <2>5. f.size = NoSize
      BY <2>3, <2>4 DEF Leaves, SizeMet
    <2>6. AtCleanEnd(f, d, p)
      BY <2>5 DEF Leaves
    <2>7. f.ends[d - 1] <= p
      <3>1. f.ends[d - 1] <= f.ends[d] /\ f.ends[d - 1] \in Nat /\ f.ends[d] <= p
        BY <2>2, InOrder, FileFacts DEF Passed
      <3> QED BY <1>1, <3>1
    <2>8. \A j \in 0..((d - 1) - 1) : ~Leaves(f, j, p)
      <3>1. \A j \in 0..((d - 1) - 1) : j \in 0..(d - 1)
        BY <1>1
      <3> QED BY <3>1 DEF Passed
    <2>9. Reached(f, d - 1, p)
      BY <2>2, <2>7, <2>8 DEF Reached, Kind
    <2> QED BY <2>1, <2>3, <2>5, <2>6, <2>9 DEF EndsWith
  <1> QED BY <1>2, <1>3

\* It leaves the loop after symbol d + 1, an end marker.
LEMMA LeavesAtMarker ==
    ASSUME NEW f, WellFormed(f), NEW d \in 0..f.count, NEW p \in Nat,
           Passed(f, d, p), ~Leaves(f, d, p),
           d + 1 = f.count, f.last = "eos", AtCleanEnd(f, d + 1, p)
    PROVE  EndsWith(f, d + 1, p)
  <1>1. f.count \in Nat /\ d # f.count /\ d + 1 > 0 /\ (d + 1) - 1 = d
    BY FileFacts
  <1>2. Reached(f, d, p)
    BY <1>1 DEF Passed, Reached, Kind
  <1> QED BY <1>1, <1>2 DEF EndsWith, Kind

\* With a size, only the output of a loop left at its head can have that size.
LEMMA StepsOverSize ==
    ASSUME NEW f, WellFormed(f), NEW d \in 0..f.count, NEW n \in Nat,
           Passed(f, d, n - Prefix), SizeMet(f, d), f.outs[d] # f.size
    PROVE  ~OneShotOk(f, n)
  <1> SUFFICES ASSUME NEW i \in 0..f.count, AcceptsWith(f, n, i) PROVE FALSE
    BY DEF OneShotOk
  <1> DEFINE p == n - Prefix
  <1>1. f.count \in Nat /\ f.size # NoSize /\ f.outs[i] = f.size
        /\ EndsWith(f, i, p) /\ Passed(f, d, p)
    BY FileFacts DEF AcceptsWith, SizeMet
  <1> HIDE DEF p
  <1>2. f.outs[i] \in Nat /\ SizeMet(f, i) /\ Leaves(f, i, p) /\ Leaves(f, d, p)
    BY <1>1, FileFacts DEF SizeMet, Leaves
  <1>3. ~(i < d)
    <2>1. i < d => i \in 0..(d - 1)
      BY <1>1
    <2> QED BY <1>1, <1>2, <2>1 DEF Passed
  <1>4. d < i
    BY <1>1, <1>3
  <1>5. d \in 0..(i - 1)
    BY <1>1, <1>4
  <1>6. ~Reached(f, i, p)
    BY <1>2, <1>5 DEF Reached
  <1>7. i > 0 /\ Kind(f, i) = "eos" /\ ~Leaves(f, i - 1, p)
    BY <1>1, <1>6 DEF EndsWith
  <1>8. i = f.count /\ f.last = "eos"
    BY <1>7 DEF Kind
  <1>9. i - 1 \in 0..(f.count - 1) /\ (i - 1) + 1 = i
    BY <1>1, <1>7, <1>8
  <1>10. f.outs[i - 1] = f.outs[i]
    BY <1>7, <1>9 DEF WellFormed
  <1> QED BY <1>1, <1>2, <1>7, <1>10 DEF Leaves, SizeMet

-----------------------------------------------------------------------------
(* The stream follows the one-shot decoder *)

\* What the contract needs besides IInv: the symbols decoded are those that the
\* one-shot decoder passes, given all that was handed over; and a call of write
\* that finds partial_input_buf full at the loop has taken some of the chunk.
Follows ==
    /\ state = "Header" => sent < Prefix
    /\ state = "Data" => file.props
    /\ pc \in {"idle", "finish", "flush", "closed"} => chunk = <<>>
    /\ pc = "flush" => ~AllowIncomplete /\ (partial = <<>> \/ rest = <<>>)
    /\ state = "Data" /\ pc # "closed" =>
          /\ Passed(file, done, Horizon - Prefix)
          /\ pc = "input" => Prefix + file.ends[done] <= Horizon - Len(rest)
    /\ pc = "input" /\ Len(partial) = MaxReq =>
          SizeMet(file, done) \/ Len(rest) < Len(chunk)

\* The state as numbers, once the header is read.
LEMMA Sizes ==
    ASSUME IInv
    PROVE  /\ WellFormed(file) /\ done \in 0..file.count /\ file.count \in Nat
           /\ sent \in Nat /\ sent <= file.len /\ Len(chunk) \in Nat /\ Len(rest) \in Nat
           /\ Len(partial) \in Nat /\ Horizon \in Nat /\ Horizon >= sent
           /\ file.ends[done] \in Nat /\ file.outs[done] \in Nat /\ file.len \in Nat
  <1>1. WellFormed(file) /\ done \in 0..file.count
    BY DEF IInv, TypeOK
  <1>2. file.count \in Nat /\ file.ends[done] \in Nat /\ file.outs[done] \in Nat
        /\ file.len \in Nat
    BY <1>1, FileFacts
  <1>3. /\ sent \in Nat /\ sent <= file.len /\ Len(chunk) \in Nat /\ Len(rest) \in Nat
        /\ Len(partial) \in Nat
    BY <1>2, LenProperties DEF IInv, TypeOK
  <1> QED BY <1>1, <1>2, <1>3 DEF Horizon

\* The loop has another symbol to decode.
LEMMA AtWork ==
    ASSUME IInv, Follows, Looping, ~LoopEnds
    PROVE  /\ state = "Data" /\ ~SizeMet(file, done)
           /\ Horizon - Prefix \in Nat /\ Passed(file, done, Horizon - Prefix)
           /\ Len(Buf) \in Nat /\ Len(Beyond) \in Nat
           /\ Len(Buf) + Len(Beyond) = (Horizon - Prefix) - file.ends[done]
           /\ ~Leaves(file, done, Horizon - Prefix)
           /\ file.size = NoSize /\ ~Finishing => Len(Buf) > 0
  <1> DEFINE p == Horizon - Prefix
  <1>1. state = "Data" /\ pc # "closed" /\ TypeOK
    BY DEF IInv, Tidy, Looping
  <1>2. Passed(file, done, p) /\ file.ends[done] <= p
    BY <1>1 DEF Follows, Passed
  <1>3. p \in Nat /\ p + Prefix = Horizon
    BY <1>2, Sizes, Numbers
  <1>4. ~SizeMet(file, done)
    BY DEF LoopEnds, SizeMet
  <1>5. partial \o rest = Run(Prefix + file.ends[done], Horizon)
    BY <1>1, <1>4 DEF IInv, NoByteLost, Held
  <1>6. Len(partial \o rest) = p - file.ends[done]
    <2>1. Prefix + file.ends[done] \in Nat /\ Prefix + file.ends[done] <= Horizon
      BY <1>2, <1>3, Sizes, Numbers
    <2>2. Len(Run(Prefix + file.ends[done], Horizon)) = Horizon - (Prefix + file.ends[done])
      <3>1. Horizon \in Nat
        BY Sizes
      <3> QED BY <2>1, <3>1, RunIsSeq
    <2>3. Horizon - (Prefix + file.ends[done]) = p - file.ends[done]
      BY Sizes, Numbers
    <2> QED BY <1>5, <2>2, <2>3
  <1>7. /\ Buf \in Seq(Nat) /\ Beyond \in Seq(Nat) /\ Buf \o Beyond = partial \o rest
    BY <1>1, BufFacts
  <1>8. /\ Len(Buf) \in Nat /\ Len(Beyond) \in Nat
        /\ Len(Buf) + Len(Beyond) = p - file.ends[done]
    BY <1>6, <1>7, ConcatNat
  <1>9. partial \in Seq(Nat) /\ rest \in Seq(Nat)
    BY <1>1 DEF TypeOK
  <1>10. Len(partial) + Len(rest) = p - file.ends[done]
    BY <1>6, <1>9, ConcatNat
  <1>11. ~Leaves(file, done, p)
    <2>1. CASE file.size # NoSize
      BY <1>4, <2>1 DEF Leaves
    <2>2. CASE file.size = NoSize
      <3>1. rest = <<>> /\ partial = <<>> => done \notin file.zero \/ ~Finishing
        BY <2>2 DEF LoopEnds
      <3>2. p = file.ends[done] => rest = <<>> /\ partial = <<>>
        <4>1. p = file.ends[done] => Len(partial) = 0 /\ Len(rest) = 0
          BY <1>3, <1>10, Sizes
        <4> QED BY <1>9, <4>1, EmptyConcat
      <3>3. ~(rest = <<>> /\ partial = <<>> /\ ~Finishing)
        BY <2>2 DEF LoopEnds
      <3> QED BY <2>2, <3>1, <3>2, <3>3 DEF Leaves, AtCleanEnd
    <2> QED BY <2>1, <2>2
  <1>12. file.size = NoSize /\ ~Finishing => Len(Buf) > 0
    <2> SUFFICES ASSUME file.size = NoSize, ~Finishing, Len(Buf) = 0 PROVE FALSE
      BY <1>8
    <2>1. Len(Beyond) = 0
      <3>1. MaxReq \in Nat /\ MaxReq > 0
        BY Numbers
      <3>2. Beyond = <<>>
        BY <1>1, <3>1, BufFacts
      <3> QED BY <3>2
    <2>2. rest = <<>> /\ partial = <<>>
      <3>1. Len(partial) = 0 /\ Len(rest) = 0
        BY <1>8, <1>10, <2>1, Sizes
      <3> QED BY <1>9, <3>1, EmptyConcat
    <2> QED BY <2>2 DEF LoopEnds
  <1> QED BY <1>1, <1>2, <1>3, <1>4, <1>8, <1>11, <1>12

\* No symbol takes more than MaxReq bytes.
LEMMA SymbolSize ==
    ASSUME IInv, done < file.count
    PROVE  /\ done + 1 \in 0..file.count /\ file.ends[done + 1] \in Nat
           /\ NextLen \in Nat /\ NextLen <= MaxReq
           /\ file.ends[done + 1] = file.ends[done] + NextLen
  <1>1. /\ WellFormed(file) /\ done \in 0..file.count /\ file.count \in Nat
        /\ file.ends[done] \in Nat
    BY Sizes
  <1>2. /\ done + 1 \in 0..file.count /\ file.ends[done + 1] \in Nat
        /\ file.ends[done] <= file.ends[done + 1]
    BY <1>1, FileFacts
  <1>3. done \in 0..(file.count - 1)
    BY <1>1
  <1>4. file.ends[done + 1] <= file.ends[done] + MaxReq
    BY <1>1, <1>3 DEF WellFormed
  <1> QED BY <1>1, <1>2, <1>4, Numbers DEF NextLen

\* Where the decoder fails, the one-shot decoder fails as well, and if more may
\* come, it fails whatever comes.
LEMMA FailsForever ==
    ASSUME IInv, Follows, DecodeFails,
           NEW m \in Nat, m = Horizon \/ (m > Horizon /\ ~Finishing)
    PROVE  ~OneShotOk(file, m)
  <1> DEFINE p == Horizon - Prefix
             q == m - Prefix
  <1>1. Looping /\ ~LoopEnds /\ ~MustWait
    BY DEF DecodeFails
  <1>2. /\ WellFormed(file) /\ done \in 0..file.count /\ file.count \in Nat
        /\ file.ends[done] \in Nat /\ Horizon \in Nat /\ Prefix \in Nat
    BY Sizes, Numbers
  <1>3. /\ ~SizeMet(file, done) /\ p \in Nat /\ Passed(file, done, p)
        /\ Len(Buf) \in Nat /\ Len(Beyond) \in Nat
        /\ Len(Buf) + Len(Beyond) = p - file.ends[done]
        /\ ~Leaves(file, done, p)
    BY <1>1, AtWork
  <1>4. q \in Nat /\ p <= q /\ (Finishing => q = p)
    BY <1>2, <1>3
  <1> HIDE DEF p
  <1>5. Passed(file, done, q)
    <2> HIDE DEF q
    <2> QED BY <1>2, <1>3, <1>4, PassedWithMore
  <1> HIDE DEF q
  <1>6. file.ends[done] <= p
    BY <1>3 DEF Passed
  <1>7. ~Leaves(file, done, q)
    <2>1. file.ends[done] = q => q = p
      BY <1>2, <1>3, <1>4, <1>6
    <2> QED BY <1>3, <2>1 DEF Leaves, AtCleanEnd
  <1>8. ASSUME done < file.count
        PROVE  \/ file.ends[done + 1] > q
               \/ done + 1 = file.count /\ file.last = "bad"
               \/ done + 1 = file.count /\ file.last = "eos"
                     /\ ~AtCleanEnd(file, done + 1, q)
    <2>1. /\ done + 1 \in 0..file.count /\ file.ends[done + 1] \in Nat
          /\ NextLen \in Nat /\ NextLen <= MaxReq
          /\ file.ends[done + 1] = file.ends[done] + NextLen
      BY <1>8, SymbolSize
    <2>2. CASE Short
      <3>1. NextLen > Len(Buf) /\ Len(Buf) < MaxReq
        BY <1>3, <1>8, <2>1, <2>2, Numbers DEF Short
      <3>2. Finishing
        BY <1>1, <2>2, <3>1 DEF MustWait
      <3>3. Len(Beyond) = 0
        <4>1. Beyond = <<>>
          BY <3>1, BufFacts DEF IInv
        <4> QED BY <4>1
      <3>4. file.ends[done + 1] > q
        BY <1>2, <1>3, <1>4, <2>1, <3>1, <3>2, <3>3
      <3> QED BY <3>4
    <2>3. CASE NextKind = "bad"
      BY <2>3 DEF NextKind, Kind
    <2>4. CASE ~Short /\ NextKind = "eos" /\ ~(done + 1 \in file.zero /\ NextLen = Len(Buf))
      <3>1. done + 1 = file.count /\ file.last = "eos"
        BY <2>4 DEF NextKind, Kind
      <3>2. NextLen <= Len(Buf)
        BY <1>3, <1>8, <2>1, <2>4 DEF Short
      <3>3. CASE done + 1 \notin file.zero
        BY <3>1, <3>3 DEF AtCleanEnd
      <3>4. CASE NextLen # Len(Buf)
        <4>1. file.ends[done + 1] < q
          BY <1>2, <1>3, <1>4, <2>1, <3>2, <3>4
        <4>2. file.ends[done + 1] # q
          BY <2>1, <4>1, <1>4
        <4> QED BY <3>1, <4>2 DEF AtCleanEnd
      <3> QED BY <2>4, <3>3, <3>4
    <2> QED BY <2>2, <2>3, <2>4 DEF DecodeFails
  <1>9. Stuck(file, done, q)
    BY <1>7, <1>8 DEF Stuck
  <1> QED BY <1>2, <1>5, <1>9, StuckRejects DEF q

\* Once a symbol more is decoded, the one-shot decoder passes it too.
LEMMA OneMorePassed ==
    ASSUME IInv, Follows, Looping, ~LoopEnds, ~Short,
           NextKind = "data" \/ (NextKind = "eos" /\ done + 1 \in file.zero)
    PROVE  /\ done + 1 \in 0..file.count
           /\ Passed(file, done + 1, Horizon - Prefix)
  <1> DEFINE p == Horizon - Prefix
  <1>1. /\ done + 1 \in 0..file.count /\ Prefix + file.ends[done + 1] <= Horizon
    BY NextSymbol
  <1>2. Passed(file, done, p) /\ ~Leaves(file, done, p)
    BY AtWork
  <1>3. file.ends[done + 1] \in Nat /\ Horizon \in Nat /\ done \in Nat
    BY <1>1, Sizes, FileFacts
  <1>4. file.ends[done + 1] <= p
    BY <1>1, <1>3, Numbers
  <1> HIDE DEF p
  <1>5. ASSUME NEW j \in 0..((done + 1) - 1) PROVE ~Leaves(file, j, p)
    <2>1. j = done \/ j \in 0..(done - 1)
      BY <1>3
    <2> QED BY <1>2, <2>1 DEF Passed
  <1> QED BY <1>1, <1>4, <1>5 DEF Passed, NextKind, p

\* process_mode returns.
LEMMA LoopReturnsFollows ==
    ASSUME IInv, Follows, Looping, NEW d \in 0..file.count, NEW r \in Seq(Nat),
           LoopReturns(d, r), done' = d, UNCHANGED file,
           Passed(file, d, Horizon - Prefix),
           pc = "input" => /\ Len(r) <= Len(chunk)
                           /\ Passed(file, d, (Horizon - Len(r)) - Prefix),
           Len(partial') # MaxReq \/ SizeMet(file, d)
    PROVE  Follows'
  <1>1. /\ WellFormed(file) /\ sent \in Nat /\ Len(chunk) \in Nat /\ Horizon \in Nat
        /\ Len(r) \in Nat /\ file.ends[d] \in Nat /\ Prefix \in Nat
    BY Sizes, FileFacts, Numbers, LenProperties
  <1>2. state = "Data" /\ file.props
    BY DEF IInv, Tidy, Follows
  <1>3. CASE pc = "tmp"
    <2>1. /\ pc' = "input" /\ rest' = chunk /\ UNCHANGED <<sent, state, chunk>>
      BY <1>3 DEF LoopReturns
    <2>2. Horizon = sent /\ Horizon' = sent + Len(chunk)
      BY <1>3, <2>1 DEF Horizon
    <2>3. sent - Prefix \in Nat /\ Prefix + file.ends[d] <= sent
      BY <1>1, <2>2 DEF Passed
    <2>4. Passed(file, d, (sent + Len(chunk)) - Prefix)
      <3>1. (sent + Len(chunk)) - Prefix \in Nat
            /\ sent - Prefix <= (sent + Len(chunk)) - Prefix
        BY <1>1, <2>3
      <3>2. Passed(file, d, sent - Prefix)
        BY <2>2
      <3> QED BY <1>1, <2>3, <3>1, <3>2, PassedWithMore, Zenon
    <2>5. (sent + Len(chunk)) - Len(chunk) = sent
      BY <1>1
    <2> QED BY <1>2, <2>1, <2>2, <2>3, <2>4, <2>5 DEF Follows
  <1>4. CASE pc = "input"
    <2>1. /\ sent' = sent + (Len(chunk) - Len(r)) /\ pc' = "idle" /\ chunk' = <<>>
          /\ UNCHANGED state
      BY <1>4 DEF LoopReturns, WriteReturns
    <2>2. Horizon' = Horizon - Len(r)
      BY <1>1, <1>4, <2>1 DEF Horizon
    <2> QED BY <1>2, <1>4, <2>1, <2>2 DEF Follows
  <1>5. CASE pc = "flush"
    <2>1. pc' = "closed" /\ chunk' = <<>> /\ state' = state
      BY <1>5 DEF LoopReturns, FinishReturns
    <2> QED BY <1>2, <2>1 DEF Follows
  <1> QED BY <1>3, <1>4, <1>5 DEF Looping

LEMMA LoopFailsFollows ==
    ASSUME IInv, Follows, Looping, LoopFails, UNCHANGED <<file, partial, done>>
    PROVE  Follows'
  BY DEF LoopFails, WriteFails, FinishReturns, IInv, Tidy, Follows

\* While it waits, everything goes to partial_input_buf.
LEMMA AllTaken ==
    ASSUME IInv, Len(Buf) < MaxReq
    PROVE  Skip(rest, Len(Buf) - Len(partial)) = <<>>
  <1>1. TypeOK /\ rest \in Seq(Nat) /\ Len(rest) \in Nat /\ Len(partial) \in Nat
    BY LenProperties DEF IInv, TypeOK
  <1>2. /\ Beyond = <<>> /\ Buf \in Seq(Nat) /\ Len(Refill) \in 0..Len(rest)
        /\ partial # <<>> => Len(Buf) = Len(partial) + Len(Refill)
    BY <1>1, BufFacts
  <1>3. CASE partial = <<>>
    BY <1>1, <1>3, EmptyConcat DEF Buf
  <1>4. CASE partial # <<>>
    <2>1. Len(Buf) - Len(partial) = Len(Refill)
      BY <1>1, <1>2, <1>4
    <2> QED BY <1>2, <1>4, <2>1 DEF Beyond
  <1> QED BY <1>3, <1>4

LEMMA LoopStopsFollows ==
    ASSUME IInv, Follows, LoopStops
    PROVE  Follows'
  <1>1. /\ Looping /\ LoopEnds /\ LoopReturns(done, rest)
        /\ UNCHANGED <<file, partial, done>>
    BY DEF LoopStops
  <1>2. /\ state = "Data" /\ pc # "closed" /\ rest \in Seq(Nat) /\ done \in 0..file.count
    BY <1>1 DEF IInv, Tidy, TypeOK, Looping
  <1>3. Passed(file, done, Horizon - Prefix)
    BY <1>2 DEF Follows
  <1>4. ~SizeMet(file, done) => rest = <<>> /\ partial = <<>>
    BY <1>1 DEF LoopEnds, SizeMet
  <1>5. ASSUME pc = "input"
        PROVE  Len(rest) <= Len(chunk) /\ Passed(file, done, (Horizon - Len(rest)) - Prefix)
    <2>1. Len(rest) <= Len(chunk)
      BY <1>5 DEF IInv, NoByteLost
    <2>2. Prefix + file.ends[done] <= Horizon - Len(rest)
      BY <1>2, <1>5 DEF Follows
    <2>3. CASE SizeMet(file, done)
      <3>1. file.ends[done] <= (Horizon - Len(rest)) - Prefix
        BY <2>2, Sizes, Numbers
      <3>2. \A j, x, y : Leaves(file, j, x) => Leaves(file, j, y)
        BY <2>3 DEF Leaves, SizeMet
      <3> QED BY <1>3, <2>1, <3>1, <3>2, Zenon DEF Passed
    <2>4. CASE ~SizeMet(file, done)
      <3>1. Len(rest) = 0 /\ Horizon \in Nat
        BY <1>4, <2>4, Sizes
      <3>2. (Horizon - Len(rest)) - Prefix = Horizon - Prefix
        BY <3>1
      <3> QED BY <1>3, <2>1, <3>2, Zenon
    <2> QED BY <2>1, <2>3, <2>4
  <1>6. Len(partial') # MaxReq \/ SizeMet(file, done)
    <2>1. CASE ~SizeMet(file, done)
      <3>1. Len(partial') = 0
        BY <1>1, <1>4, <2>1
      <3> QED BY <3>1, Numbers
    <2> QED BY <2>1
  <1> QED BY <1>1, <1>2, <1>3, <1>5, <1>6, LoopReturnsFollows, Zenon

LEMMA WaitForInputFollows ==
    ASSUME IInv, Follows, WaitForInput
    PROVE  Follows'
  <1> DEFINE r == Skip(rest, Len(Buf) - Len(partial))
  <1>1. /\ Looping /\ ~LoopEnds /\ Len(Buf) < MaxReq
        /\ partial' = Buf /\ LoopReturns(done, r) /\ UNCHANGED <<file, done>>
    BY DEF WaitForInput, MustWait
  <1>2. r = <<>>
    BY <1>1, AllTaken
  <1> HIDE DEF r
  <1>3. r \in Seq(Nat) /\ Len(r) = 0 /\ done \in 0..file.count
    BY <1>2, Sizes
  <1>4. Passed(file, done, Horizon - Prefix)
    BY <1>1, AtWork
  <1>5. Len(r) <= Len(chunk) /\ (Horizon - Len(r)) - Prefix = Horizon - Prefix
    BY <1>3, Sizes
  <1>6. Len(partial') # MaxReq
    BY <1>1, Numbers
  <1> QED BY <1>1, <1>3, <1>4, <1>5, <1>6, LoopReturnsFollows

LEMMA DecodeMarkerFollows ==
    ASSUME IInv, Follows, DecodeMarker
    PROVE  Follows'
  <1> DEFINE r == IF partial = <<>> THEN <<>> ELSE Skip(rest, Len(Refill))
             d == done + 1
             p == Horizon - Prefix
             q == (Horizon - Len(Beyond)) - Prefix
  <1>1. /\ Looping /\ ~LoopEnds /\ ~Short /\ NextLen = Len(Buf)
        /\ NextKind = "eos" /\ d \in file.zero
        /\ done' = d /\ partial' = <<>> /\ LoopReturns(d, r) /\ UNCHANGED file
    BY DEF DecodeMarker
  <1>2. r = Beyond
    BY DEF Beyond
  <1>3. TypeOK /\ Beyond \in Seq(Nat) /\ Len(Refill) \in 0..Len(rest) /\ rest \in Seq(Nat)
    BY BufFacts DEF IInv, TypeOK
  <1>4. d \in 0..file.count /\ Passed(file, d, p)
    BY <1>1, OneMorePassed
  <1>5. /\ Passed(file, done, p) /\ ~Leaves(file, done, p) /\ p \in Nat
        /\ Len(Buf) \in Nat /\ Len(Beyond) \in Nat
        /\ Len(Buf) + Len(Beyond) = p - file.ends[done]
        /\ file.size = NoSize /\ ~Finishing => Len(Buf) > 0
    BY <1>1, AtWork
  <1>6. /\ WellFormed(file) /\ done \in 0..file.count /\ file.count \in Nat
        /\ file.ends[done] \in Nat /\ Horizon \in Nat /\ Prefix \in Nat
    BY Sizes, Numbers
  <1>7. file.ends[d] = file.ends[done] + NextLen
    <2>1. done < file.count
      BY <1>4, <1>6
    <2> QED BY <2>1, SymbolSize
  <1>8. q = p - Len(Beyond) /\ file.ends[d] = q
    BY <1>1, <1>5, <1>6, <1>7
  <1>9. Len(Beyond) <= Len(rest)
    <2>1. CASE partial = <<>>
      BY <1>3, <2>1, LenProperties DEF Beyond
    <2>2. CASE partial # <<>>
      <3>1. Len(Beyond) = Len(rest) - Len(Refill)
        BY <1>3, <2>2, SplitSeq DEF Beyond
      <3> QED BY <1>3, <3>1, LenProperties
    <2> QED BY <2>1, <2>2
  <1> HIDE DEF r, d, p, q
  <1>10. ASSUME pc = "input"
         PROVE  Len(Beyond) <= Len(chunk) /\ Passed(file, d, q)
    <2>1. Len(rest) <= Len(chunk)
      BY <1>10 DEF IInv, NoByteLost
    <2>2. ASSUME NEW j \in 0..(d - 1) PROVE ~Leaves(file, j, q)
      <3>1. ~Leaves(file, j, p)
        BY <1>4 DEF Passed
      <3>2. CASE file.size # NoSize
        BY <3>1, <3>2 DEF Leaves
      <3>3. CASE file.size = NoSize
        <4>1. Len(Buf) > 0
          BY <1>5, <1>10, <3>3 DEF Finishing
        <4>2. j \in 0..done /\ j \in 0..file.count
          BY <1>6 DEF d
        <4>3. file.ends[j] <= file.ends[done] /\ file.ends[j] \in Nat
          BY <1>6, <4>2, InOrder, FileFacts
        <4>4. file.ends[j] < q
          BY <1>1, <1>5, <1>6, <1>7, <1>8, <4>1, <4>3
        <4>5. file.ends[j] # q
          BY <4>3, <4>4, <1>5, <1>8
        <4> QED BY <3>3, <4>5 DEF Leaves, AtCleanEnd
      <3> QED BY <3>2, <3>3
    <2>3. file.ends[d] <= q
      BY <1>5, <1>8
    <2>4. Len(Beyond) <= Len(chunk)
      BY <1>5, <1>9, <2>1, Sizes
    <2> QED BY <1>4, <2>2, <2>3, <2>4 DEF Passed
  <1>11. Len(partial') # MaxReq
    BY <1>1, Numbers
  <1> QED BY <1>1, <1>2, <1>3, <1>4, <1>10, <1>11, LoopReturnsFollows DEF p, q

\* A symbol of n of the b bytes left, with h handed over and e decoded.
LEMMA LeftUnread ==
    ASSUME NEW h \in Nat, NEW x \in Nat, NEW e \in Nat, NEW n \in Nat, NEW b \in Nat,
           n <= b, b + 0 = (h - x) - e
    PROVE  x + (e + n) <= h - (b - n)
  OBVIOUS

\* The same with y of the bytes still in the reader.
LEMMA LeftBehind ==
    ASSUME NEW h \in Nat, NEW x \in Nat, NEW e \in Nat, NEW n \in Nat, NEW b \in Nat,
           NEW y \in Nat, n <= b, b + y = (h - x) - e
    PROVE  x + (e + n) <= h - y
  OBVIOUS

LEMMA DecodeSymbolFollows ==
    ASSUME IInv, Follows, DecodeSymbol
    PROVE  Follows'
  <1>1. Looping /\ ~LoopEnds /\ ~Short /\ NextKind = "data" /\ UNCHANGED file
    BY DEF DecodeSymbol
  <1>2. CASE LoopFails /\ UNCHANGED <<partial, done>>
    BY <1>1, <1>2, LoopFailsFollows
  <1>3. CASE Consume /\ UNCHANGED <<sent, state, tmp, pc, chunk, result>>
    <2> DEFINE p == Horizon - Prefix
    <2>1. Horizon' = Horizon /\ done' = done + 1
      BY <1>3 DEF Horizon, Consume
    <2>2. Passed(file, done + 1, p)
      BY <1>1, OneMorePassed
    <2>3. /\ state = "Data" /\ ~SizeMet(file, done) /\ p \in Nat
          /\ Len(Buf) \in Nat /\ Len(Beyond) \in Nat
          /\ Len(Buf) + Len(Beyond) = p - file.ends[done]
      BY <1>1, AtWork
    <2>4. /\ done + 1 \in 0..file.count /\ NextLen \in 0..Len(Buf)
          /\ Len(Skip(Buf, NextLen)) = Len(Buf) - NextLen
      BY <1>1, NextSymbol
    <2>5. /\ WellFormed(file) /\ done \in 0..file.count /\ file.count \in Nat
          /\ file.ends[done] \in Nat /\ Horizon \in Nat /\ Prefix \in Nat
          /\ Len(rest) \in Nat /\ Len(chunk) \in Nat /\ Len(partial) \in Nat
      BY Sizes, Numbers
    <2>6. file.ends[done + 1] = file.ends[done] + NextLen
      <3>1. done < file.count
        BY <2>4, <2>5
      <3> QED BY <3>1, SymbolSize
    <2>7. /\ rest \in Seq(Nat) /\ Len(Refill) \in 0..Len(rest)
          /\ partial # <<>> => Len(Buf) <= MaxReq /\ Len(Buf) = Len(partial) + Len(Refill)
      BY BufFacts DEF IInv, TypeOK
    <2>8. CASE partial = <<>>
      <3>1. /\ partial' = <<>> /\ rest' = Skip(Buf, NextLen) /\ Len(Beyond) = 0
        BY <1>3, <2>8 DEF Consume, Buf, Beyond
      <3>2. Prefix + file.ends[done + 1] <= Horizon - Len(rest')
        <4>1. Len(rest') = Len(Buf) - NextLen
          BY <2>4, <3>1, Zenon
        <4>2. NextLen \in Nat /\ NextLen <= Len(Buf)
          BY <2>3, <2>4
        <4>3. Len(Buf) + 0 = (Horizon - Prefix) - file.ends[done]
          BY <2>3, <3>1, Zenon
        <4>4. Prefix + (file.ends[done] + NextLen) <= Horizon - (Len(Buf) - NextLen)
          BY <2>3, <2>5, <4>2, <4>3, LeftUnread, Zenon
        <4> QED BY <2>6, <4>1, <4>4, Zenon
      <3>3. Len(partial') # MaxReq
        BY <3>1, Numbers
      <3> QED BY <1>1, <1>3, <2>1, <2>2, <3>1, <3>2, <3>3 DEF Follows
    <2>9. CASE partial # <<>>
      <3>1. /\ partial' = Skip(Buf, NextLen) /\ rest' = Beyond
        BY <1>3, <2>9 DEF Consume, Beyond
      <3>2. Prefix + file.ends[done + 1] <= Horizon - Len(rest')
        <4>1. NextLen \in Nat /\ NextLen <= Len(Buf)
          BY <2>3, <2>4
        <4>2. Prefix + (file.ends[done] + NextLen) <= Horizon - Len(Beyond)
          BY <2>3, <2>5, <4>1, LeftBehind, Zenon
        <4> QED BY <2>6, <3>1, <4>2, Zenon
      <3>3. rest = <<>> => rest' = <<>>
        <4>1. rest = <<>> => Len(Refill) = Len(rest)
          BY <2>7
        <4> QED BY <2>7, <2>9, <3>1, <4>1, EmptyConcat DEF Beyond
      <3>4. Len(rest') = Len(rest) - Len(Refill)
        BY <2>7, <2>9, <3>1, SplitSeq DEF Beyond
      <3>5. ASSUME pc = "input", Len(partial') = MaxReq PROVE Len(rest') < Len(chunk)
        <4>1. Len(rest) <= Len(chunk)
          BY <3>5 DEF IInv, NoByteLost
        <4>2. Len(Buf) = MaxReq /\ Len(partial) + Len(Refill) = MaxReq
          BY <2>3, <2>4, <2>7, <2>9, <3>1, <3>5, Numbers
        <4>3. CASE Len(Refill) = 0
          <5>1. Len(partial) = MaxReq
            BY <2>5, <4>2, <4>3
          <5>2. Len(rest) < Len(chunk)
            BY <2>3, <3>5, <5>1 DEF Follows
          <5> QED BY <2>5, <3>4, <4>3, <5>2
        <4>4. CASE Len(Refill) # 0
          BY <2>5, <2>7, <3>4, <4>1, <4>4
        <4> QED BY <4>3, <4>4
      <3> QED BY <1>1, <1>3, <2>1, <2>2, <2>9, <3>2, <3>3, <3>5 DEF Follows
    <2> QED BY <2>8, <2>9
  <1> QED BY <1>2, <1>3 DEF DecodeSymbol

\* What write moves to tmp, and the bytes the header is then read from.
LEMMA HeaderBytes ==
    ASSUME IInv, Follows, WriteHeader
    PROVE  /\ pc = "write" /\ done = 0 /\ sent < Prefix
           /\ Len(tmp) = sent /\ (tmp = <<>> => sent = 0)
           /\ Len(Moved) \in 0..Len(chunk) /\ (Len(Moved) = 0 => Len(chunk) = 0)
           /\ Len(HeaderInput) = IF tmp = <<>> THEN Len(chunk) ELSE sent + Len(Moved)
  <1> DEFINE k == Least(MaxTmp - Len(tmp), Len(chunk))
  <1>1. pc = "write" /\ state = "Header" /\ tmp = Run(0, sent) /\ done = 0 /\ sent < Prefix
    BY DEF WriteHeader, IInv, NoByteLost, Tidy, Follows
  <1>2. /\ sent \in Nat /\ Len(chunk) \in Nat /\ tmp \in Seq(Nat) /\ chunk \in Seq(Nat)
        /\ MaxTmp \in Nat /\ Prefix <= MaxTmp
    BY Sizes, Numbers DEF IInv, TypeOK
  <1>3. Len(tmp) = sent
    BY <1>1, <1>2, RunIsSeq
  <1>4. k \in 0..Len(chunk) /\ (k = 0 => Len(chunk) = 0)
    BY <1>1, <1>2, <1>3, Numbers DEF Least
  <1>5. Moved = First(chunk, k)
    BY DEF Moved
  <1> HIDE DEF k
  <1>6. Moved \in Seq(Nat) /\ Len(Moved) = k
    BY <1>2, <1>4, <1>5, SplitSeq
  <1>7. tmp # <<>> => Len(HeaderInput) = sent + Len(Moved)
    BY <1>2, <1>3, <1>6, ConcatNat DEF HeaderInput
  <1> QED BY <1>1, <1>3, <1>4, <1>6, <1>7 DEF HeaderInput

\* Nothing is decoded before the first symbol.
LEMMA StartPassed ==
    ASSUME NEW f, WellFormed(f), NEW p \in Nat
    PROVE  Passed(f, 0, p)
  BY FirstSymbol DEF Passed

LEMMA WriteHeaderFollows ==
    ASSUME IInv, Follows, WriteHeader
    PROVE  Follows'
  <1>1. /\ pc = "write" /\ done = 0 /\ sent < Prefix
        /\ Len(tmp) = sent /\ (tmp = <<>> => sent = 0)
        /\ Len(Moved) \in 0..Len(chunk)
        /\ Len(HeaderInput) = IF tmp = <<>> THEN Len(chunk) ELSE sent + Len(Moved)
    BY HeaderBytes
  <1>2. /\ UNCHANGED <<file, partial, done>> /\ pc' = "idle" /\ chunk' = <<>>
    BY DEF WriteHeader, WriteFails, WriteReturns
  <1>3. sent \in Nat /\ Len(chunk) \in Nat /\ Prefix \in Nat /\ WellFormed(file)
    BY Sizes, Numbers
  <1>4. CASE WriteFails
    BY <1>2, <1>4 DEF Follows, WriteFails
  <1>5. CASE /\ HeaderRead(HeaderInput) /\ state' = "Data"
             /\ sent' = IF tmp = <<>> THEN sent + Prefix ELSE sent + Len(Moved)
    <2>1. sent' - Prefix \in Nat /\ file.props
      BY <1>1, <1>3, <1>5 DEF HeaderRead
    <2>2. Passed(file, 0, sent' - Prefix)
      BY <1>3, <2>1, StartPassed, Zenon
    <2>3. Horizon' = sent'
      BY <1>2 DEF Horizon
    <2> QED BY <1>1, <1>2, <1>5, <2>1, <2>2, <2>3 DEF Follows
  <1>6. CASE /\ ~HeaderBad(HeaderInput) /\ ~HeaderRead(HeaderInput)
             /\ sent' = sent + Len(Moved) /\ UNCHANGED state
    <2>1. Len(HeaderInput) < Prefix
      BY <1>1, <1>3, <1>6, Numbers DEF HeaderBad, HeaderRead
    <2>2. sent' < Prefix
      BY <1>1, <1>3, <1>6, <2>1
    <2>3. state' = "Header"
      BY <1>6 DEF WriteHeader
    <2> QED BY <1>2, <2>2, <2>3 DEF Follows
  <1> QED BY <1>4, <1>5, <1>6 DEF WriteHeader, WriteReturns

LEMMA WriteDataFollows ==
    ASSUME IInv, Follows, WriteData
    PROVE  Follows'
  <1>1. /\ pc = "write" /\ state = "Data"
        /\ UNCHANGED <<file, sent, state, partial, done, chunk>>
    BY DEF WriteData
  <1>2. Passed(file, done, sent - Prefix) /\ Horizon = sent
    BY <1>1 DEF Follows, Horizon
  <1>3. /\ WellFormed(file) /\ done \in 0..file.count /\ sent \in Nat /\ Len(chunk) \in Nat
        /\ file.ends[done] \in Nat /\ Prefix \in Nat
    BY Sizes, Numbers
  <1>4. sent - Prefix \in Nat /\ Prefix + file.ends[done] <= sent
    BY <1>2, <1>3 DEF Passed
  <1>5. CASE pc' = "tmp"
    <2>1. Horizon' = sent
      BY <1>1, <1>5 DEF Horizon
    <2> QED BY <1>1, <1>2, <1>5, <2>1 DEF Follows
  <1>6. CASE pc' = "input" /\ rest' = chunk
    <2>1. Horizon' = sent + Len(chunk) /\ (sent + Len(chunk)) - Len(chunk) = sent
      BY <1>1, <1>3, <1>6 DEF Horizon
    <2>2. Passed(file, done, (sent + Len(chunk)) - Prefix)
      <3>1. /\ (sent + Len(chunk)) - Prefix \in Nat
            /\ sent - Prefix <= (sent + Len(chunk)) - Prefix
        BY <1>3, <1>4
      <3> QED BY <1>2, <1>3, <1>4, <3>1, PassedWithMore, Zenon
    <2>3. Len(partial) = MaxReq => SizeMet(file, done)
      BY <1>1 DEF IInv, RoomToRefill
    <2> QED BY <1>1, <1>4, <1>6, <2>1, <2>2, <2>3 DEF Follows
  <1> QED BY <1>5, <1>6 DEF WriteData

LEMMA NextFollows == IInv /\ Follows /\ [Next]_vars => Follows'
  <1> SUFFICES ASSUME IInv, Follows, [Next]_vars PROVE Follows'
    OBVIOUS
  <1>1. CASE UNCHANGED vars
    BY <1>1 DEF vars, Follows, Horizon
  <1>2. CASE \E n \in 0..MaxChunk : Write(n)
    BY <1>2 DEF Write, Follows, Horizon
  <1>3. CASE Finish
    BY <1>3 DEF Finish, Follows, Horizon
  <1>4. CASE WriteHeader
    BY <1>4, WriteHeaderFollows
  <1>5. CASE WriteDead
    BY <1>5 DEF WriteDead, WriteReturns, Follows, Horizon
  <1>6. CASE WriteData
    BY <1>6, WriteDataFollows
  <1>7. CASE LoopStops
    BY <1>7, LoopStopsFollows
  <1>8. CASE WaitForInput
    BY <1>8, WaitForInputFollows
  <1>9. CASE DecodeSymbol
    BY <1>9, DecodeSymbolFollows
  <1>10. CASE DecodeMarker
    BY <1>10, DecodeMarkerFollows
  <1>11. CASE DecodeFails
    BY <1>11, LoopFailsFollows DEF DecodeFails
  <1>12. CASE FinishEarly
    BY <1>12 DEF FinishEarly, FinishReturns, Follows
  <1>13. CASE FinishChecked
    <2>1. tmp = <<>> \/ partial = <<>>
      BY <1>13 DEF FinishChecked, IInv, Tidy
    <2> QED BY <1>13, <2>1 DEF FinishChecked, Follows, Horizon
  <1>14. CASE FinishUnchecked
    BY <1>14 DEF FinishUnchecked, FinishReturns, Follows
  <1> QED BY <1>1, <1>2, <1>3, <1>4, <1>5, <1>6, <1>7, <1>8, <1>9, <1>10, <1>11,
             <1>12, <1>13, <1>14 DEF Next, Step

LEMMA InitFollows == Init => Follows
  BY Numbers DEF Init, Follows

-----------------------------------------------------------------------------
(* Each step of the stream is one of the contract, or changes nothing in it *)

\* The contract looks at the input as the stream does.
LEMMA SameInput ==
    ASSUME NEW f, NEW n
    PROVE  /\ Contract!Prefix = Prefix
           /\ Contract!WellFormed(f) <=> WellFormed(f)
           /\ Contract!OneShotOk(f, n) <=> OneShotOk(f, n)
           /\ \A i : Contract!AcceptsWith(f, n, i) <=> AcceptsWith(f, n, i)
           /\ Contract!Hopeless(f, n) <=> Hopeless(f, n)
           /\ Contract!Satisfied(f, n) <=> Satisfied(f, n)
  <1>1. Contract!Prefix = Prefix /\ Contract!Kinds = Kinds
    BY DEF Contract!Prefix, Prefix, Contract!Kinds, Kinds
  <1>2. \A g, i : Contract!Kind(g, i) = Kind(g, i)
    BY DEF Contract!Kind, Kind
  <1>3. \A g, i : Contract!SizeMet(g, i) <=> SizeMet(g, i)
    BY DEF Contract!SizeMet, SizeMet
  <1>4. \A g, i, p : Contract!AtCleanEnd(g, i, p) <=> AtCleanEnd(g, i, p)
    BY DEF Contract!AtCleanEnd, AtCleanEnd
  <1>5. \A g, i, p : Contract!Leaves(g, i, p) <=> Leaves(g, i, p)
    BY <1>3, <1>4 DEF Contract!Leaves, Leaves
  <1>6. \A g, i, p : Contract!Reached(g, i, p) <=> Reached(g, i, p)
    BY <1>2, <1>5 DEF Contract!Reached, Reached
  <1>7. \A g, i, p : Contract!EndsWith(g, i, p) <=> EndsWith(g, i, p)
    BY <1>2, <1>4, <1>5, <1>6 DEF Contract!EndsWith, EndsWith
  <1>8. \A g, m, i : Contract!AcceptsWith(g, m, i) <=> AcceptsWith(g, m, i)
    BY <1>1, <1>7 DEF Contract!AcceptsWith, AcceptsWith
  <1>9. \A g, m : Contract!OneShotOk(g, m) <=> OneShotOk(g, m)
    BY <1>8, Zenon DEF Contract!OneShotOk, OneShotOk
  <1>10. Contract!Hopeless(f, n) <=> Hopeless(f, n)
    BY <1>9, Zenon DEF Contract!Hopeless, Hopeless
  <1>11. Contract!Satisfied(f, n) <=> Satisfied(f, n)
    BY <1>1, <1>3, <1>6, Zenon DEF Contract!Satisfied, Satisfied
  <1>12. Contract!WellFormed(f) <=> WellFormed(f)
    BY <1>1, <1>2, Zenon DEF Contract!WellFormed, WellFormed
  <1> QED BY <1>1, <1>8, <1>9, <1>10, <1>11, <1>12

\* A call of write that succeeds.
LEMMA EndsWrite ==
    ASSUME IInv, pc \in {"write", "tmp", "input"}, NEW k \in 0..Len(chunk),
           WriteReturns(k), UNCHANGED file, state # "None" => state' # "None",
           state = "None" => k = 0 /\ state' = "None",
           k = 0 => Len(chunk) = 0 \/ state = "None" \/ Satisfied(file, sent)
    PROVE  Contract!Next
  <1>1. Phase = "writing"
    BY DEF Phase
  <1>2. Phase' = "ready" /\ sent' = sent + k /\ result' = Wrote(k) /\ chunk' = <<>>
    BY DEF WriteReturns, Phase
  <1>3. Len(chunk)' = 0
    BY <1>2
  <1>4. (state = "None") = (state = "None")'
    OBVIOUS
  <1>5. Satisfied(file, sent) => Contract!Satisfied(file, sent)
    BY SameInput
  <1>6. Wrote(k) = Contract!Wrote(k)
    BY DEF Wrote, Contract!Wrote
  <1>7. Contract!EndWrite
    BY <1>1, <1>2, <1>3, <1>4, <1>5, <1>6 DEF Contract!EndWrite
  <1> QED BY <1>7 DEF Contract!Next

\* A call of write that fails.
LEMMA FailsWrite ==
    ASSUME pc \in {"write", "tmp", "input"}, state # "None", WriteFails, UNCHANGED file,
           SinkMayFail \/ Hopeless(file, sent + Len(chunk))
    PROVE  Contract!Next
  <1>1. Phase = "writing"
    BY DEF Phase
  <1>2. /\ Phase' = "ready" /\ sent' = sent /\ result' = WriteErr /\ chunk' = <<>>
        /\ state' = "None"
    BY DEF WriteFails, Phase
  <1>3. Len(chunk)' = 0
    BY <1>2
  <1>4. Hopeless(file, sent + Len(chunk)) => Contract!Hopeless(file, sent + Len(chunk))
    BY SameInput
  <1>5. WriteErr = Contract!WriteErr
    BY DEF WriteErr, Contract!WriteErr
  <1>6. Contract!FailWrite
    BY <1>1, <1>2, <1>3, <1>4, <1>5 DEF Contract!FailWrite
  <1> QED BY <1>6 DEF Contract!Next

\* finish succeeds with what d symbols output.
LEMMA EndsFinish ==
    ASSUME pc \in {"finish", "flush"}, state # "None", chunk = <<>>, UNCHANGED file,
           NEW d \in 0..file.count, FinishReturns(Done(file.outs[d])),
           Contract!Delivers(file, sent, file.outs[d])
    PROVE  Contract!Next
  <1>1. Phase = "finishing"
    BY DEF Phase
  <1>2. /\ Phase' = "closed" /\ sent' = sent /\ result' = Done(file.outs[d])
        /\ chunk' = chunk /\ state' = state
    BY DEF FinishReturns, Phase
  <1>3. Done(file.outs[d]) = Contract!Done(file.outs[d])
    BY DEF Done, Contract!Done
  <1>4. Contract!EndFinish
    BY <1>1, <1>2, <1>3 DEF Contract!EndFinish
  <1> QED BY <1>4 DEF Contract!Next

\* finish fails.
LEMMA FailsFinish ==
    ASSUME pc \in {"finish", "flush"}, chunk = <<>>, UNCHANGED file,
           FinishReturns(FinishErr),
           \/ state = "None" \/ SinkMayFail
           \/ \A i \in 0..file.count : ~Contract!Delivers(file, sent, file.outs[i])
    PROVE  Contract!Next
  <1>1. Phase = "finishing"
    BY DEF Phase
  <1>2. /\ Phase' = "closed" /\ sent' = sent /\ result' = FinishErr
        /\ chunk' = chunk /\ state' = state
    BY DEF FinishReturns, Phase
  <1>3. FinishErr = Contract!FinishErr
    BY DEF FinishErr, Contract!FinishErr
  <1>4. Contract!EndFinish
    BY <1>1, <1>2, <1>3 DEF Contract!EndFinish
  <1> QED BY <1>4 DEF Contract!Next

\* Nothing is delivered of an input that the one-shot decoder does not accept.
LEMMA NotDelivered ==
    ASSUME IInv, Follows, pc = "flush", ~OneShotOk(file, sent)
    PROVE  \A i \in 0..file.count : ~Contract!Delivers(file, sent, file.outs[i])
  <1>1. ~AllowIncomplete /\ state = "Data"
    BY DEF Follows, IInv, Tidy, Looping
  <1>2. sent # 0
    <2>1. file.ends[done] <= sent - Prefix
      BY <1>1 DEF Follows, Passed, Horizon
    <2> QED BY <2>1, Sizes, Numbers
  <1>3. \A i \in 0..file.count : ~Contract!AcceptsWith(file, sent, i)
    BY SameInput DEF OneShotOk
  <1> QED BY <1>1, <1>2, <1>3 DEF Contract!Delivers

\* The loop returns.
LEMMA LoopReturnsRefines ==
    ASSUME IInv, Follows, Looping, NEW d \in 0..file.count, NEW r \in Seq(Nat),
           LoopReturns(d, r), UNCHANGED file,
           pc = "input" =>
              /\ Len(r) <= Len(chunk)
              /\ Len(r) = Len(chunk) => Len(chunk) = 0 \/ Satisfied(file, sent),
           pc = "flush" =>
              IF file.size # NoSize /\ file.outs[d] # file.size
              THEN ~OneShotOk(file, sent) ELSE AcceptsWith(file, sent, d)
    PROVE  Contract!Next \/ UNCHANGED Contract!vars
  <1>1. state = "Data"
    BY DEF IInv, Tidy
  <1>2. CASE pc = "tmp"
    BY <1>2 DEF LoopReturns, Contract!vars, Phase
  <1>3. CASE pc = "input"
    <2> DEFINE k == Len(chunk) - Len(r)
    <2>1. WriteReturns(k) /\ UNCHANGED state
      BY <1>3 DEF LoopReturns
    <2>2. k \in 0..Len(chunk) /\ (k = 0 => Len(r) = Len(chunk))
      BY <1>3, Sizes, LenProperties
    <2> HIDE DEF k
    <2> QED BY <1>1, <1>3, <2>1, <2>2, EndsWrite
  <1>4. CASE pc = "flush"
    <2>1. chunk = <<>> /\ ~AllowIncomplete
      BY <1>4 DEF Follows
    <2>2. CASE file.size # NoSize /\ file.outs[d] # file.size
      <3>1. FinishReturns(FinishErr)
        BY <1>4, <2>2 DEF LoopReturns
      <3>2. \A i \in 0..file.count : ~Contract!Delivers(file, sent, file.outs[i])
        BY <1>4, <2>2, NotDelivered
      <3> QED BY <1>4, <2>1, <3>1, <3>2, FailsFinish
    <2>3. CASE ~(file.size # NoSize /\ file.outs[d] # file.size)
      <3>1. FinishReturns(Done(file.outs[d])) \/ (SinkMayFail /\ FinishReturns(FinishErr))
        BY <1>4, <2>3 DEF LoopReturns
      <3>2. Contract!AcceptsWith(file, sent, d)
        BY <1>4, <2>3, SameInput
      <3>3. Contract!Delivers(file, sent, file.outs[d])
        BY <2>1, <3>2 DEF Contract!Delivers
      <3> QED BY <1>1, <1>4, <2>1, <3>1, <3>3, EndsFinish, FailsFinish
    <2> QED BY <2>2, <2>3
  <1> QED BY <1>2, <1>3, <1>4 DEF Looping

LEMMA LoopStopsRefines ==
    ASSUME IInv, Follows, LoopStops
    PROVE  Contract!Next \/ UNCHANGED Contract!vars
  <1>1. /\ Looping /\ LoopEnds /\ LoopReturns(done, rest) /\ UNCHANGED file
    BY DEF LoopStops
  <1>2. /\ state = "Data" /\ pc # "closed" /\ rest \in Seq(Nat) /\ file.props
    BY <1>1 DEF IInv, Tidy, TypeOK, Looping, Follows
  <1>3. /\ WellFormed(file) /\ done \in 0..file.count /\ file.ends[done] \in Nat
        /\ Horizon \in Nat /\ sent \in Nat /\ Len(chunk) \in Nat /\ Prefix \in Nat
    BY Sizes, Numbers
  <1>4. Passed(file, done, Horizon - Prefix)
    BY <1>2 DEF Follows
  <1>5. Horizon - Prefix \in Nat
    BY <1>3, <1>4 DEF Passed
  <1>6. ~SizeMet(file, done) => file.size = NoSize /\ rest = <<>> /\ partial = <<>>
    BY <1>1 DEF LoopEnds, SizeMet
  <1>7. ASSUME pc = "input"
        PROVE  /\ Len(rest) <= Len(chunk)
               /\ Len(rest) = Len(chunk) => Len(chunk) = 0 \/ Satisfied(file, sent)
    <2>1. Len(rest) <= Len(chunk)
      BY <1>7 DEF IInv, NoByteLost
    <2>2. CASE ~SizeMet(file, done)
      <3>1. Len(rest) = 0
        BY <1>6, <2>2
      <3> QED BY <2>1, <3>1
    <2>3. ASSUME SizeMet(file, done), Len(rest) = Len(chunk) PROVE Satisfied(file, sent)
      <3>1. Prefix + file.ends[done] <= sent
        <4>1. Prefix + file.ends[done] <= Horizon - Len(rest)
          BY <1>2, <1>7 DEF Follows
        <4>2. Horizon - Len(rest) = sent
          BY <1>3, <1>7, <2>3 DEF Horizon
        <4> QED BY <4>1, <4>2
      <3>2. file.ends[done] <= sent - Prefix /\ sent - Prefix \in Nat /\ sent >= Prefix
        BY <1>3, <3>1
      <3>3. \A j, x, y : Leaves(file, j, x) => Leaves(file, j, y)
        BY <2>3 DEF Leaves, SizeMet
      <3>4. Passed(file, done, sent - Prefix)
        BY <1>4, <3>2, <3>3, Zenon DEF Passed
      <3>5. file.size # NoSize /\ Leaves(file, done, sent - Prefix)
        BY <2>3 DEF Leaves, SizeMet
      <3>6. Reached(file, done, sent - Prefix)
        BY <1>3, <3>2, <3>4, <3>5, LeavesAtHead
      <3> QED BY <1>2, <1>3, <2>3, <3>2, <3>6 DEF Satisfied
    <2> QED BY <2>1, <2>2, <2>3
  <1>8. ASSUME pc = "flush"
        PROVE  IF file.size # NoSize /\ file.outs[done] # file.size
               THEN ~OneShotOk(file, sent) ELSE AcceptsWith(file, sent, done)
    <2>1. Passed(file, done, sent - Prefix) /\ sent - Prefix \in Nat
      BY <1>4, <1>5, <1>8 DEF Horizon
    <2>2. CASE file.size # NoSize /\ file.outs[done] # file.size
      <3>1. SizeMet(file, done)
        BY <1>6, <2>2
      <3> QED BY <1>3, <2>1, <2>2, <3>1, StepsOverSize
    <2>3. CASE ~(file.size # NoSize /\ file.outs[done] # file.size)
      <3>1. Leaves(file, done, sent - Prefix)
        <4>1. CASE file.size # NoSize
          BY <1>6, <4>1 DEF Leaves
        <4>2. CASE file.size = NoSize
          <5>1. rest = <<>> /\ partial = <<>> /\ done \in file.zero /\ ~SizeMet(file, done)
            BY <1>1, <1>8, <4>2 DEF LoopEnds, Finishing, SizeMet
          <5>2. <<>> \o <<>> = Run(Prefix + file.ends[done], sent)
                /\ Prefix + file.ends[done] <= sent
            BY <1>1, <1>2, <1>8, <5>1 DEF IInv, NoByteLost, Tidy, Held, Horizon
          <5>3. Len(<<>> \o <<>>) = 0
            OBVIOUS
          <5>4. Len(Run(Prefix + file.ends[done], sent)) = sent - (Prefix + file.ends[done])
            <6>1. Prefix + file.ends[done] \in Nat
              BY <1>3
            <6> QED BY <1>3, <5>2, <6>1, RunIsSeq
          <5>5. sent - (Prefix + file.ends[done]) = 0
            BY <5>2, <5>3, <5>4, Zenon
          <5>6. file.ends[done] = sent - Prefix
            BY <1>3, <5>5
          <5> QED BY <4>2, <5>1, <5>6 DEF Leaves, AtCleanEnd
        <4> QED BY <4>1, <4>2
      <3>2. EndsWith(file, done, sent - Prefix)
        BY <1>3, <2>1, <3>1, LeavesAtHead
      <3> QED BY <1>2, <1>3, <2>1, <2>3, <3>2 DEF AcceptsWith
    <2> QED BY <2>2, <2>3
  <1> QED BY <1>1, <1>2, <1>3, <1>7, <1>8, LoopReturnsRefines

LEMMA WaitForInputRefines ==
    ASSUME IInv, Follows, WaitForInput
    PROVE  Contract!Next \/ UNCHANGED Contract!vars
  <1> DEFINE r == Skip(rest, Len(Buf) - Len(partial))
  <1>1. /\ Looping /\ ~Finishing /\ Len(Buf) < MaxReq
        /\ LoopReturns(done, r) /\ UNCHANGED file
    BY DEF WaitForInput, MustWait
  <1>2. r = <<>>
    BY <1>1, AllTaken
  <1> HIDE DEF r
  <1>3. r \in Seq(Nat) /\ Len(r) = 0 /\ done \in 0..file.count /\ Len(chunk) \in Nat
    BY <1>2, Sizes
  <1>4. pc # "flush" /\ Len(r) <= Len(chunk) /\ (Len(r) = Len(chunk) => Len(chunk) = 0)
    BY <1>1, <1>3 DEF Finishing
  <1> QED BY <1>1, <1>3, <1>4, LoopReturnsRefines

LEMMA DecodeMarkerRefines ==
    ASSUME IInv, Follows, DecodeMarker
    PROVE  Contract!Next \/ UNCHANGED Contract!vars
  <1> DEFINE r == IF partial = <<>> THEN <<>> ELSE Skip(rest, Len(Refill))
             d == done + 1
             p == Horizon - Prefix
  <1>1. /\ Looping /\ ~LoopEnds /\ ~Short /\ NextLen = Len(Buf)
        /\ NextKind = "eos" /\ d \in file.zero
        /\ LoopReturns(d, r) /\ UNCHANGED file
    BY DEF DecodeMarker
  <1>2. r = Beyond
    BY DEF Beyond
  <1>3. TypeOK /\ Beyond \in Seq(Nat) /\ Len(Refill) \in 0..Len(rest) /\ rest \in Seq(Nat)
    BY BufFacts DEF IInv, TypeOK
  <1>4. d \in 0..file.count /\ d = file.count /\ file.last = "eos"
    BY <1>1, NextSymbol DEF NextKind, Kind
  <1>5. /\ state = "Data" /\ ~SizeMet(file, done)
        /\ Passed(file, done, p) /\ ~Leaves(file, done, p) /\ p \in Nat
        /\ Len(Buf) \in Nat /\ Len(Beyond) \in Nat
        /\ Len(Buf) + Len(Beyond) = p - file.ends[done]
        /\ file.size = NoSize /\ ~Finishing => Len(Buf) > 0
    BY <1>1, AtWork
  <1>6. /\ WellFormed(file) /\ done \in 0..file.count /\ file.count \in Nat
        /\ file.ends[done] \in Nat /\ Horizon \in Nat /\ Prefix \in Nat /\ done < file.count
        /\ Len(rest) \in Nat /\ Len(chunk) \in Nat /\ sent \in Nat /\ file.outs[done] \in Nat
        /\ Len(partial) \in Nat
    <2>1. done < file.count
      BY <1>4, Sizes
    <2> QED BY <2>1, Sizes, Numbers
  <1>7. file.ends[d] = file.ends[done] + NextLen
    BY <1>6, SymbolSize
  <1> HIDE DEF r, d, p
  <1>8. ASSUME pc = "input"
        PROVE  /\ Len(Beyond) <= Len(chunk)
               /\ Len(Beyond) = Len(chunk) => Len(chunk) = 0
    <2>1. Len(rest) <= Len(chunk)
      BY <1>8 DEF IInv, NoByteLost
    <2>2. CASE partial = <<>>
      <3>1. Len(Beyond) = 0
        BY <2>2 DEF Beyond
      <3> QED BY <1>6, <3>1
    <2>3. CASE partial # <<>>
      <3>1. Len(Beyond) = Len(rest) - Len(Refill)
        BY <1>3, <2>3, SplitSeq DEF Beyond
      <3>2. Len(Beyond) <= Len(chunk)
        BY <1>3, <1>6, <2>1, <3>1
      <3>3. ASSUME Len(Beyond) = Len(chunk), Len(chunk) # 0 PROVE FALSE
        <4>1. Len(Refill) = 0 /\ Len(rest) = Len(chunk) /\ Len(Beyond) # 0
          BY <1>3, <1>6, <2>1, <3>1, <3>3
        <4>2. Len(Buf) = Len(partial) /\ ~(Len(Buf) < MaxReq) /\ Len(Buf) <= MaxReq
          <5>1. Beyond # <<>>
            BY <4>1
          <5>2. Len(Buf) = Len(partial) + Len(Refill) /\ Len(Buf) <= MaxReq
                /\ ~(Len(Buf) < MaxReq)
            BY <1>3, <2>3, <5>1, BufFacts
          <5> QED BY <1>6, <4>1, <5>2
        <4>3. Len(partial) = MaxReq
          BY <1>5, <4>2, Numbers
        <4>4. Len(rest) < Len(chunk)
          BY <1>5, <1>8, <4>3 DEF Follows
        <4> QED BY <1>6, <4>1, <4>4
      <3> QED BY <3>2, <3>3
    <2> QED BY <2>2, <2>3
  <1>9. ASSUME pc = "flush"
        PROVE  IF file.size # NoSize /\ file.outs[d] # file.size
               THEN ~OneShotOk(file, sent) ELSE AcceptsWith(file, sent, d)
    <2>1. p = sent - Prefix
      BY <1>9 DEF p, Horizon
    <2>2. CASE file.size # NoSize
      <3>1. file.outs[d] # file.size
        <4>1. done \in 0..(file.count - 1) /\ Kind(file, done + 1) = "eos"
          BY <1>1, <1>6 DEF NextKind
        <4>2. file.outs[done] = file.outs[done + 1]
          BY <1>6, <4>1 DEF WellFormed
        <4>3. file.outs[done] # file.size
          BY <1>5, <1>6, <2>2 DEF SizeMet
        <4> QED BY <4>2, <4>3 DEF d
      <3>2. Stuck(file, done, p)
        BY <1>4, <1>5, <2>2 DEF Stuck, d
      <3>3. ~OneShotOk(file, sent)
        BY <1>5, <1>6, <2>1, <3>2, StuckRejects
      <3> QED BY <2>2, <3>1, <3>3
    <2>3. CASE file.size = NoSize
      <3>1. Beyond = <<>>
        <4>1. rest = <<>> => Skip(rest, Len(Refill)) = <<>>
          <5>1. rest = <<>> => Len(Refill) = Len(rest)
            BY <1>3
          <5> QED BY <1>3, <5>1, EmptyConcat
        <4> QED BY <1>9, <4>1 DEF Follows, Beyond
      <3>2. file.ends[d] = p
        <4>1. Len(Beyond) = 0
          BY <3>1
        <4> QED BY <1>1, <1>5, <1>6, <1>7, <4>1
      <3>3. AtCleanEnd(file, done + 1, p)
        BY <1>1, <3>2 DEF AtCleanEnd, d
      <3>4. EndsWith(file, done + 1, p)
        BY <1>4, <1>5, <1>6, <3>3, LeavesAtMarker DEF d
      <3>5. file.props /\ sent >= Prefix
        BY <1>5, <1>6, <2>1 DEF Follows
      <3> QED BY <2>1, <2>3, <3>4, <3>5 DEF AcceptsWith, d
    <2> QED BY <2>2, <2>3
  <1> QED BY <1>1, <1>2, <1>3, <1>4, <1>8, <1>9, LoopReturnsRefines

\* process_mode fails.
LEMMA LoopFailsRefines ==
    ASSUME IInv, Follows, Looping, LoopFails, UNCHANGED file,
           \/ SinkMayFail
           \/ \A m \in Nat : m = Horizon \/ (m > Horizon /\ ~Finishing) => ~OneShotOk(file, m)
    PROVE  Contract!Next
  <1>1. state = "Data"
    BY DEF IInv, Tidy
  <1>2. sent \in Nat /\ Len(chunk) \in Nat /\ file.len \in Nat /\ Horizon \in Nat
    BY Sizes
  <1>3. CASE Finishing
    <2>1. FinishReturns(FinishErr) /\ pc = "flush" /\ chunk = <<>> /\ Horizon = sent
      BY <1>3 DEF LoopFails, Finishing, Follows, Horizon
    <2>2. SinkMayFail \/ ~OneShotOk(file, sent)
      BY <1>2, <2>1
    <2> QED BY <2>1, <2>2, NotDelivered, FailsFinish
  <1>4. CASE ~Finishing
    <2>1. WriteFails /\ pc \in {"tmp", "input"}
      BY <1>4 DEF LoopFails, Looping, Finishing
    <2>2. SinkMayFail \/ Hopeless(file, sent + Len(chunk))
      <3>1. Horizon <= sent + Len(chunk)
        BY <1>2 DEF Horizon
      <3>2. \A m \in (sent + Len(chunk))..file.len :
               m \in Nat /\ (m = Horizon \/ m > Horizon)
        BY <1>2, <3>1
      <3> QED BY <1>4, <3>2 DEF Hopeless
    <2> QED BY <1>1, <2>1, <2>2, FailsWrite
  <1> QED BY <1>3, <1>4

LEMMA DecodeSymbolRefines ==
    ASSUME IInv, Follows, DecodeSymbol
    PROVE  Contract!Next \/ UNCHANGED Contract!vars
  <1>1. Looping /\ UNCHANGED file
    BY DEF DecodeSymbol
  <1>2. CASE UNCHANGED <<sent, state, tmp, pc, chunk, result>>
    BY <1>1, <1>2 DEF Contract!vars, Phase
  <1>3. CASE SinkMayFail /\ LoopFails
    BY <1>1, <1>3, LoopFailsRefines
  <1> QED BY <1>2, <1>3 DEF DecodeSymbol

LEMMA DecodeFailsRefines ==
    ASSUME IInv, Follows, DecodeFails
    PROVE  Contract!Next
  <1>1. Looping /\ LoopFails /\ UNCHANGED file
    BY DEF DecodeFails
  <1>2. \A m \in Nat : m = Horizon \/ (m > Horizon /\ ~Finishing) => ~OneShotOk(file, m)
    BY FailsForever
  <1> QED BY <1>1, <1>2, LoopFailsRefines

LEMMA WriteHeaderRefines ==
    ASSUME IInv, Follows, WriteHeader
    PROVE  Contract!Next
  <1>1. /\ pc = "write" /\ sent < Prefix /\ Len(tmp) = sent /\ (tmp = <<>> => sent = 0)
        /\ Len(Moved) \in 0..Len(chunk) /\ (Len(Moved) = 0 => Len(chunk) = 0)
        /\ Len(HeaderInput) = IF tmp = <<>> THEN Len(chunk) ELSE sent + Len(Moved)
    BY HeaderBytes
  <1>2. state = "Header" /\ UNCHANGED file /\ Len(chunk) \in Nat
    BY Sizes DEF WriteHeader
  <1>3. CASE HeaderBad(HeaderInput) /\ WriteFails
    <2>1. ~file.props
      BY <1>3 DEF HeaderBad
    <2>2. Hopeless(file, sent + Len(chunk))
      BY <2>1 DEF Hopeless, OneShotOk, AcceptsWith
    <2> QED BY <1>1, <1>2, <1>3, <2>2, FailsWrite
  <1>4. CASE /\ HeaderRead(HeaderInput) /\ state' = "Data" /\ tmp = <<>> /\ WriteReturns(Prefix)
    <2>1. Prefix \in 0..Len(chunk) /\ Prefix # 0
      BY <1>1, <1>2, <1>4, Numbers DEF HeaderRead
    <2> QED BY <1>1, <1>2, <1>4, <2>1, EndsWrite
  <1>5. CASE WriteReturns(Len(Moved)) /\ state' \in {"Header", "Data"}
    BY <1>1, <1>2, <1>5, EndsWrite
  <1> QED BY <1>2, <1>3, <1>4, <1>5 DEF WriteHeader

\* finish outside the loop.
LEMMA FinishStepsRefine ==
    ASSUME IInv, Follows, FinishEarly \/ FinishUnchecked
    PROVE  Contract!Next
  <1>1. pc = "finish" /\ chunk = <<>> /\ UNCHANGED file
    BY DEF FinishEarly, FinishUnchecked, Follows
  <1>2. /\ WellFormed(file) /\ done \in 0..file.count /\ sent \in Nat /\ Prefix \in Nat
        /\ file.ends[done] \in Nat
    BY Sizes, Numbers
  <1>3. CASE FinishEarly
    <2>1. CASE state = "Header"
      <3>1. tmp = Run(0, sent) /\ sent < Prefix
        BY <2>1 DEF IInv, NoByteLost, Follows
      <3>2. Len(tmp) = sent
        BY <1>2, <3>1, RunIsSeq
      <3>3. CASE tmp = <<>>
        <4>1. sent = 0 /\ FinishReturns(Done(0))
          BY <1>3, <2>1, <3>2, <3>3 DEF FinishEarly
        <4>2. 0 \in 0..file.count /\ file.outs[0] = 0
          BY <1>2, FirstSymbol DEF WellFormed
        <4>3. Contract!Delivers(file, sent, file.outs[0])
          BY <4>1, <4>2 DEF Contract!Delivers
        <4> QED BY <1>1, <2>1, <4>1, <4>2, <4>3, EndsFinish
      <3>4. CASE tmp # <<>>
        <4>1. sent # 0
          BY <3>2, <3>4, EmptyConcat DEF IInv, TypeOK
        <4>2. ~(sent >= Prefix)
          BY <1>2, <3>1
        <4>3. \A i \in 0..file.count : ~Contract!Delivers(file, sent, file.outs[i])
          <5>1. \A i : ~Contract!AcceptsWith(file, sent, i)
            BY <4>2, SameInput DEF AcceptsWith
          <5>2. Contract!Prefix = Prefix
            BY SameInput
          <5> QED BY <4>1, <4>2, <5>1, <5>2 DEF Contract!Delivers
        <4>4. FinishReturns(FinishErr)
          BY <1>3, <2>1, <3>4 DEF FinishEarly
        <4> QED BY <1>1, <4>3, <4>4, FailsFinish
      <3> QED BY <3>3, <3>4
    <2>2. CASE state # "Header"
      <3>1. state = "None" /\ FinishReturns(FinishErr)
        BY <1>3, <2>2 DEF FinishEarly, IInv, TypeOK
      <3> QED BY <1>1, <3>1, FailsFinish
    <2> QED BY <2>1, <2>2
  <1>4. CASE FinishUnchecked
    <2>1. /\ state = "Data" /\ AllowIncomplete
          /\ FinishReturns(Done(file.outs[done])) \/ (SinkMayFail /\ FinishReturns(FinishErr))
      BY <1>4 DEF FinishUnchecked
    <2>2. file.props /\ file.ends[done] <= sent - Prefix
      BY <1>1, <2>1 DEF Follows, Passed, Horizon
    <2>3. sent >= Prefix
      BY <1>2, <2>2
    <2>4. Contract!Delivers(file, sent, file.outs[done])
      BY <1>2, <2>1, <2>2, <2>3, SameInput DEF Contract!Delivers
    <2> QED BY <1>1, <1>2, <2>1, <2>4, EndsFinish, FailsFinish
  <1> QED BY <1>3, <1>4

LEMMA NextRefines ==
    IInv /\ Follows /\ [Next]_vars => [Contract!Next]_(Contract!vars)
  <1> SUFFICES ASSUME IInv, Follows, [Next]_vars
               PROVE  Contract!Next \/ UNCHANGED Contract!vars
    OBVIOUS
  <1>1. CASE UNCHANGED vars
    BY <1>1 DEF vars, Contract!vars, Phase
  <1>2. ASSUME NEW n \in 0..MaxChunk, Write(n) PROVE Contract!Next
    <2>1. /\ pc = "idle" /\ sent + n <= file.len /\ chunk' = Run(sent, sent + n)
          /\ pc' = "write" /\ UNCHANGED <<file, sent, state, result>>
      BY <1>2 DEF Write
    <2>2. n \in Nat /\ sent \in Nat /\ file.len \in Nat
      BY Sizes, Numbers
    <2>3. Len(Run(sent, sent + n)) = n
      <3> DEFINE e == sent + n
      <3>1. e \in Nat /\ sent <= e /\ e - sent = n
        BY <2>2
      <3> HIDE DEF e
      <3>2. Len(Run(sent, e)) = e - sent
        BY <2>2, <3>1, RunIsSeq
      <3> QED BY <3>1, <3>2 DEF e
    <2>4. Len(chunk)' \in 0..(file.len - sent)
      BY <2>1, <2>2, <2>3
    <2>5. Contract!BeginWrite
      BY <2>1, <2>4 DEF Contract!BeginWrite, Phase
    <2> QED BY <2>5 DEF Contract!Next
  <1>3. CASE Finish
    <2>1. Contract!BeginFinish
      BY <1>3 DEF Finish, Contract!BeginFinish, Phase
    <2> QED BY <2>1 DEF Contract!Next
  <1>4. CASE WriteHeader
    BY <1>4, WriteHeaderRefines
  <1>5. CASE WriteDead
    <2>1. 0 \in 0..Len(chunk)
      BY Sizes
    <2> QED BY <1>5, <2>1, EndsWrite DEF WriteDead
  <1>6. CASE WriteData
    BY <1>6 DEF WriteData, Contract!vars, Phase
  <1>7. CASE LoopStops
    BY <1>7, LoopStopsRefines
  <1>8. CASE WaitForInput
    BY <1>8, WaitForInputRefines
  <1>9. CASE DecodeSymbol
    BY <1>9, DecodeSymbolRefines
  <1>10. CASE DecodeMarker
    BY <1>10, DecodeMarkerRefines
  <1>11. CASE DecodeFails
    BY <1>11, DecodeFailsRefines
  <1>12. CASE FinishEarly \/ FinishUnchecked
    BY <1>12, FinishStepsRefine
  <1>13. CASE FinishChecked
    BY <1>13 DEF FinishChecked, Contract!vars, Phase
  <1> QED BY <1>1, <1>2, <1>3, <1>4, <1>5, <1>6, <1>7, <1>8, <1>9, <1>10, <1>11,
             <1>12, <1>13 DEF Next, Step

LEMMA InitRefines == Init => Contract!Init
  <1> SUFFICES ASSUME Init PROVE Contract!Init
    OBVIOUS
  <1>1. Contract!WellFormed(file)
    BY FilesAssumption, SameInput DEF Init
  <1>2. None = Contract!None
    BY DEF None, Contract!None
  <1> QED BY <1>1, <1>2 DEF Init, Contract!Init, Phase

\* Whatever the chunks, the stream answers as the one-shot decoder would, a
\* write fails only on an input that nothing can save, and accepts nothing
\* only when it needs nothing: the contract but for its fairness.
THEOREM StreamKeepsContract == Spec => KeepsContract
  <1>1. Spec => [](IInv /\ Follows)
    BY InitIInv, InitFollows, NextIInv, NextFollows, PTL DEF Spec
  <1> QED BY <1>1, InitRefines, NextRefines, PTL DEF Spec, KeepsContract

=============================================================================
