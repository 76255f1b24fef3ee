----------------------------- MODULE Lzma2Proofs -----------------------------
(***************************************************************************)
(* The LZMA2 decoder: after any chunks, resets and calls it is in step     *)
(* with the format, its dictionary is exact and its output delivered; and  *)
(* it decodes what the LZMA2 encoder writes, for all inputs and sizes.     *)
(***************************************************************************)
EXTENDS Lzma2RoundTrip, RecursionLemmas, SequenceTheorems

-----------------------------------------------------------------------------
(* The last of some positions *)

\* A set of positions that is not empty has a last one.
LEMMA LastIs ==
    ASSUME NEW n \in Nat, NEW places \in SUBSET (1..n)
    PROVE  /\ LastOf(places) \in 0..n
           /\ places # {} => /\ LastOf(places) \in places
                             /\ \A j \in places : j <= LastOf(places)
<1>1. CASE places = {}
  BY <1>1 DEF LastOf
<1>2. CASE places # {}
  <2> DEFINE T == {n - i : i \in places}
  <2>1. T \in SUBSET Nat /\ T # {}
    BY <1>2
  <2>2. PICK x \in T : \A y \in T : x <= y
    <3> HIDE DEF T
    <3> QED BY <2>1, LeastElement
  <2>3. PICK i \in places : x = n - i
    BY <2>2
  <2>4. \A j \in places : j <= i
    <3>1. ASSUME NEW j \in places PROVE j <= i
      <4>1. n - i <= n - j
        BY <2>2, <2>3
      <4> QED BY <4>1
    <3> QED BY <3>1
  <2>5. LastOf(places) \in places /\ \A j \in places : j <= LastOf(places)
    BY <1>2, <2>4, Zenon DEF LastOf
  <2>6. LastOf(places) \in 0..n
    <3>1. \A j \in 1..n : j \in 0..n
      OBVIOUS
    <3> QED BY <2>5, <3>1, Zenon
  <2> QED BY <2>5, <2>6
<1> QED BY <1>1, <1>2

\* A position behind all others is the last one.
LEMMA LastIsNew ==
    ASSUME NEW n \in Nat, NEW places \in SUBSET (1..n)
    PROVE  LastOf(places \cup {n + 1}) = n + 1
<1> DEFINE more == places \cup {n + 1}
<1>1. more \in SUBSET (1..(n + 1)) /\ n + 1 \in Nat /\ more # {} /\ n + 1 \in more
  OBVIOUS
<1> HIDE DEF more
<1>2. LastOf(more) \in 0..(n + 1) /\ n + 1 <= LastOf(more)
  BY <1>1, LastIs
<1> QED BY <1>2 DEF more

\* The last event of a set, and when there is one event more.
LastIn(s, T) == LastOf({i \in 1..Len(s) : s[i] \in T})

LEMMA LastOfMore ==
    ASSUME NEW E, NEW T, NEW s \in Seq(E), NEW e \in E
    PROVE  LastIn(Append(s, e), T) = IF e \in T THEN Len(s) + 1 ELSE LastIn(s, T)
<1> DEFINE t == Append(s, e)
           places == {i \in 1..Len(s) : s[i] \in T}
           more == {i \in 1..Len(t) : t[i] \in T}
<1>1. /\ Len(t) = Len(s) + 1 /\ Len(s) \in Nat
      /\ \A i \in 1..Len(s) : t[i] = s[i]
      /\ t[Len(s) + 1] = e
  OBVIOUS
<1>2. 1..(Len(s) + 1) = (1..Len(s)) \cup {Len(s) + 1}
  BY <1>1
<1>3. more = IF e \in T THEN places \cup {Len(s) + 1} ELSE places
  BY <1>1, <1>2
<1>4. places \in SUBSET (1..Len(s))
  OBVIOUS
<1> HIDE DEF t, places, more
<1>5. LastOf(more) = IF e \in T THEN Len(s) + 1 ELSE LastOf(places)
  BY <1>1, <1>3, <1>4, LastIsNew
<1> QED BY <1>5 DEF LastIn, t, places, more

-----------------------------------------------------------------------------
(* The history *)

CallOf   == [kind : {"call"}]
ChunkOf  == [kind : {"chunk"}, status : 0..255, size : Nat, props : 0..255]
SymbolOf == [kind : {"symbol"}, dist : Nat]
EventOf  == CallOf \cup ChunkOf \cup SymbolOf

LEMMA SinceMore ==
    ASSUME log \in Seq(EventOf), NEW e \in EventOf, log' = Append(log, e)
    PROVE  /\ Since(IsCall)' = IF IsCall(e) THEN Len(log) + 1 ELSE Since(IsCall)
           /\ Since(NewState)' = IF NewState(e) THEN Len(log) + 1 ELSE Since(NewState)
           /\ Since(NewProps)' = IF NewProps(e) THEN Len(log) + 1 ELSE Since(NewProps)
           /\ Since(NewDict)' = IF NewDict(e) THEN Len(log) + 1 ELSE Since(NewDict)
<1>1. /\ \A i \in 1..Len(log) : log[i] \in EventOf
      /\ \A i \in 1..Len(log') : log'[i] \in EventOf
  OBVIOUS
<1>2. Since(IsCall)' = IF IsCall(e) THEN Len(log) + 1 ELSE Since(IsCall)
  <2> DEFINE T == {x \in EventOf : IsCall(x)}
  <2>1. /\ {i \in 1..Len(log) : IsCall(log[i])} = {i \in 1..Len(log) : log[i] \in T}
        /\ {i \in 1..Len(log') : IsCall(log'[i])} = {i \in 1..Len(log') : log'[i] \in T}
        /\ IsCall(e) <=> e \in T
    BY <1>1
  <2> HIDE DEF T
  <2>2. LastIn(Append(log, e), T) = IF e \in T THEN Len(log) + 1 ELSE LastIn(log, T)
    BY LastOfMore
  <2>3. /\ Since(IsCall) = LastIn(log, T)
        /\ Since(IsCall)' = LastIn(log', T)
    BY <2>1, Zenon DEF Since, LastIn
  <2> QED BY <2>1, <2>2, <2>3, Zenon
<1>3. Since(NewState)' = IF NewState(e) THEN Len(log) + 1 ELSE Since(NewState)
  <2> DEFINE T == {x \in EventOf : NewState(x)}
  <2>1. /\ {i \in 1..Len(log) : NewState(log[i])} = {i \in 1..Len(log) : log[i] \in T}
        /\ {i \in 1..Len(log') : NewState(log'[i])} = {i \in 1..Len(log') : log'[i] \in T}
        /\ NewState(e) <=> e \in T
    BY <1>1
  <2> HIDE DEF T
  <2>2. LastIn(Append(log, e), T) = IF e \in T THEN Len(log) + 1 ELSE LastIn(log, T)
    BY LastOfMore
  <2>3. /\ Since(NewState) = LastIn(log, T)
        /\ Since(NewState)' = LastIn(log', T)
    BY <2>1, Zenon DEF Since, LastIn
  <2> QED BY <2>1, <2>2, <2>3, Zenon
<1>4. Since(NewProps)' = IF NewProps(e) THEN Len(log) + 1 ELSE Since(NewProps)
  <2> DEFINE T == {x \in EventOf : NewProps(x)}
  <2>1. /\ {i \in 1..Len(log) : NewProps(log[i])} = {i \in 1..Len(log) : log[i] \in T}
        /\ {i \in 1..Len(log') : NewProps(log'[i])} = {i \in 1..Len(log') : log'[i] \in T}
        /\ NewProps(e) <=> e \in T
    BY <1>1
  <2> HIDE DEF T
  <2>2. LastIn(Append(log, e), T) = IF e \in T THEN Len(log) + 1 ELSE LastIn(log, T)
    BY LastOfMore
  <2>3. /\ Since(NewProps) = LastIn(log, T)
        /\ Since(NewProps)' = LastIn(log', T)
    BY <2>1, Zenon DEF Since, LastIn
  <2> QED BY <2>1, <2>2, <2>3, Zenon
<1>5. Since(NewDict)' = IF NewDict(e) THEN Len(log) + 1 ELSE Since(NewDict)
  <2> DEFINE T == {x \in EventOf : NewDict(x)}
  <2>1. /\ {i \in 1..Len(log) : NewDict(log[i])} = {i \in 1..Len(log) : log[i] \in T}
        /\ {i \in 1..Len(log') : NewDict(log'[i])} = {i \in 1..Len(log') : log'[i] \in T}
        /\ NewDict(e) <=> e \in T
    BY <1>1
  <2> HIDE DEF T
  <2>2. LastIn(Append(log, e), T) = IF e \in T THEN Len(log) + 1 ELSE LastIn(log, T)
    BY LastOfMore
  <2>3. /\ Since(NewDict) = LastIn(log, T)
        /\ Since(NewDict)' = LastIn(log', T)
    BY <2>1, Zenon DEF Since, LastIn
  <2> QED BY <2>1, <2>2, <2>3, Zenon
<1> QED BY <1>2, <1>3, <1>4, <1>5

LEMMA SinceRange ==
    ASSUME log \in Seq(EventOf)
    PROVE  /\ Since(IsCall) \in 0..Len(log) /\ Since(NewState) \in 0..Len(log)
           /\ Since(NewProps) \in 0..Len(log) /\ Since(NewDict) \in 0..Len(log)
<1>1. /\ {i \in 1..Len(log) : IsCall(log[i])} \in SUBSET (1..Len(log))
      /\ {i \in 1..Len(log) : NewState(log[i])} \in SUBSET (1..Len(log))
      /\ {i \in 1..Len(log) : NewProps(log[i])} \in SUBSET (1..Len(log))
      /\ {i \in 1..Len(log) : NewDict(log[i])} \in SUBSET (1..Len(log))
      /\ Len(log) \in Nat
  OBVIOUS
<1> QED BY <1>1, LastIs DEF Since

-----------------------------------------------------------------------------
(* The sizes the chunks announce *)

SizesOf(s, k) ==
    [i \in 1..Len(s) |-> IF i >= k /\ IsChunk(s[i]) THEN s[i].size ELSE 0]

LEMMA AnnouncedIs ==
    ASSUME NEW k
    PROVE  Announced(k) = Total(SizesOf(log, k))
BY Zenon DEF Announced, SizesOf

LEMMA SizesMore ==
    ASSUME NEW s \in Seq(EventOf), NEW e \in EventOf, NEW k \in Nat
    PROVE  /\ SizesOf(s, k) \in Seq(Nat)
           /\ SizesOf(Append(s, e), k)
                = Append(SizesOf(s, k), IF Len(s) + 1 >= k /\ IsChunk(e) THEN e.size ELSE 0)
<1> DEFINE size(i, x) == IF i >= k /\ IsChunk(x) THEN x.size ELSE 0
           t == Append(s, e)
<1>1. \A i \in Nat, x \in EventOf : size(i, x) \in Nat
  BY DEF EventOf, CallOf, ChunkOf, SymbolOf, IsChunk
<1>2. /\ SizesOf(s, k) = [i \in 1..Len(s) |-> size(i, s[i])]
      /\ SizesOf(t, k) = [i \in 1..Len(t) |-> size(i, t[i])]
  BY Zenon DEF SizesOf
<1>3. /\ Len(t) = Len(s) + 1 /\ t[Len(s) + 1] = e /\ Len(s) \in Nat
      /\ \A i \in 1..Len(s) : t[i] = s[i] /\ s[i] \in EventOf
  OBVIOUS
<1> HIDE DEF size, t
<1>4. SizesOf(s, k) \in Seq(Nat) /\ Len(SizesOf(s, k)) = Len(s)
  <2>1. ASSUME NEW i \in 1..Len(s) PROVE size(i, s[i]) \in Nat
    <3>1. i \in Nat /\ s[i] \in EventOf
      BY <1>3
    <3> QED BY <1>1, <3>1, Zenon
  <2>2. SizesOf(s, k) \in [1..Len(s) -> Nat]
    BY <1>2, <2>1
  <2> QED BY <1>3, <2>2
<1> DEFINE u == Append(SizesOf(s, k), size(Len(s) + 1, e))
<1>5. SizesOf(t, k) = u
  <2>1. size(Len(s) + 1, e) \in Nat
    BY <1>1, <1>3
  <2>2. /\ Len(u) = Len(s) + 1 /\ u[Len(s) + 1] = size(Len(s) + 1, e)
        /\ \A i \in 1..Len(s) : u[i] = SizesOf(s, k)[i]
        /\ u \in Seq(Nat)
    BY <1>4, <2>1
  <2>3. SizesOf(t, k) \in Seq(Nat) /\ Len(SizesOf(t, k)) = Len(s) + 1
    <3>1. \A i \in 1..(Len(s) + 1) : t[i] \in EventOf
      BY <1>3
    <3> QED BY <1>1, <1>2, <1>3, <3>1
  <2>4. \A i \in 1..(Len(s) + 1) : SizesOf(t, k)[i] = u[i]
    <3>1. ASSUME NEW i \in 1..Len(s) PROVE SizesOf(t, k)[i] = u[i]
      BY <1>2, <1>3, <2>2
    <3>2. SizesOf(t, k)[Len(s) + 1] = u[Len(s) + 1]
      BY <1>2, <1>3, <2>2
    <3>3. \A i \in 1..(Len(s) + 1) : i \in 1..Len(s) \/ i = Len(s) + 1
      BY <1>3
    <3> HIDE DEF u
    <3> QED BY <3>1, <3>2, <3>3, Zenon
  <2> HIDE DEF u
  <2> QED BY <2>2, <2>3, <2>4
<1> QED BY <1>4, <1>5 DEF size, t

\* What a chunk adds, counted from an event before it or from itself on.
LEMMA AnnouncedMore ==
    ASSUME NEW s \in Seq(EventOf), NEW e \in EventOf, NEW k \in 0..(Len(s) + 1)
    PROVE  /\ Total(SizesOf(s, k)) \in Nat
           /\ Total(SizesOf(Append(s, e), k))
                = Total(SizesOf(s, k)) + IF IsChunk(e) THEN e.size ELSE 0
           /\ k = Len(s) + 1 => Total(SizesOf(s, k)) = 0
<1>1. k \in Nat /\ Len(s) + 1 >= k
  OBVIOUS
<1>2. /\ SizesOf(s, k) \in Seq(Nat)
      /\ SizesOf(Append(s, e), k)
           = Append(SizesOf(s, k), IF IsChunk(e) THEN e.size ELSE 0)
  BY <1>1, SizesMore
<1>3. (IF IsChunk(e) THEN e.size ELSE 0) \in Nat
  BY DEF EventOf, CallOf, ChunkOf, SymbolOf, IsChunk
<1>4. k = Len(s) + 1 => Total(SizesOf(s, k)) = 0
  <2>1. k = Len(s) + 1 => \A i \in 1..Len(SizesOf(s, k)) : SizesOf(s, k)[i] = 0
    BY DEF SizesOf
  <2> QED BY <1>2, <2>1, TotalOfZeros
<1> QED BY <1>2, <1>3, <1>4, TotalOfMore

-----------------------------------------------------------------------------
(* The symbols *)

IsScan(f, s) ==
    f = [i \in 0..Len(s) |->
            IF i = 0 THEN <<>>
            ELSE IF IsSymbol(s[i]) THEN Append(f[i - 1], s[i].dist)
            ELSE f[i - 1]]

Scanned(q, x) == IF IsSymbol(x) THEN Append(q, x.dist) ELSE q

LEMMA ScanExists ==
    ASSUME NEW s \in Seq(EventOf)
    PROVE  \E f : IsScan(f, s)
<1> DEFINE n == Len(s)
           step == [p \in Seq(Nat) \X (1..n) |-> Scanned(p[1], s[p[2]])]
<1>1. n \in Nat /\ \A i \in 1..n : s[i] \in EventOf
  OBVIOUS
<1>2. \A q \in Seq(Nat), x \in EventOf : Scanned(q, x) \in Seq(Nat)
  BY DEF Scanned, EventOf, CallOf, ChunkOf, SymbolOf, IsSymbol
<1>3. step \in [Seq(Nat) \X (1..n) -> Seq(Nat)]
  BY <1>1, <1>2
<1>4. \A q \in Seq(Nat), i \in 1..n : step[<<q, i>>] = Scanned(q, s[i])
  OBVIOUS
<1> HIDE DEF step, n
<1>5. PICK f \in [0..n -> Seq(Nat)] :
          f[0] = <<>> /\ \A i \in 1..n : f[i] = step[<<f[i - 1], i>>]
  <2>1. <<>> \in Seq(Nat)
    OBVIOUS
  <2>2. Steps(Seq(Nat), <<>>, step, n) # {}
    BY <1>1, <1>3, <2>1, StepByStep
  <2> QED BY <2>2 DEF Steps
<1>6. \A i \in 1..n : f[i] = Scanned(f[i - 1], s[i])
  <2>1. ASSUME NEW i \in 1..n PROVE f[i] = Scanned(f[i - 1], s[i])
    <3>1. i - 1 \in 0..n
      BY <1>1
    <3> QED BY <1>4, <1>5, <3>1
  <2> QED BY <2>1
<1>7. \A i \in 0..n : i # 0 => i \in 1..n
  BY <1>1
<1>8. f = [i \in 0..n |-> IF i = 0 THEN <<>> ELSE Scanned(f[i - 1], s[i])]
  BY <1>5, <1>6, <1>7
<1> QED BY <1>8 DEF IsScan, Scanned, n

LEMMA SymbolsIs ==
    ASSUME NEW s \in Seq(EventOf)
    PROVE  \E f : /\ Symbols(s) = f[Len(s)] /\ f[0] = <<>>
                  /\ \A i \in 1..Len(s) : f[i] = Scanned(f[i - 1], s[i])
<1> DEFINE f == CHOOSE g : IsScan(g, s)
<1>1. Symbols(s) = f[Len(s)]
  BY Zenon DEF Symbols, IsScan
<1>2. IsScan(f, s)
  BY ScanExists, Zenon
<1> HIDE DEF f
<1>3. f[0] = <<>>
  BY <1>2 DEF IsScan
<1>4. \A i \in 1..Len(s) : f[i] = Scanned(f[i - 1], s[i])
  <2>1. \A i \in 1..Len(s) : i \in 0..Len(s) /\ i # 0
    OBVIOUS
  <2>2. f = [i \in 0..Len(s) |-> IF i = 0 THEN <<>> ELSE Scanned(f[i - 1], s[i])]
    BY <1>2, Zenon DEF IsScan, Scanned
  <2> QED BY <2>1, <2>2
<1> QED BY <1>1, <1>3, <1>4

LEMMA SymbolsNone == Symbols(<<>>) = <<>>
<1>1. <<>> \in Seq(EventOf) /\ Len(<<>>) = 0
  OBVIOUS
<1> QED BY <1>1, SymbolsIs

LEMMA SymbolsMore ==
    ASSUME NEW s \in Seq(EventOf), NEW e \in EventOf
    PROVE  Symbols(Append(s, e)) = Scanned(Symbols(s), e)
<1> DEFINE n == Len(s)
           t == Append(s, e)
<1>1. /\ t \in Seq(EventOf) /\ Len(t) = n + 1 /\ t[n + 1] = e /\ n \in Nat
      /\ \A i \in 1..n : t[i] = s[i]
  OBVIOUS
<1> HIDE DEF t
<1>2. PICK f : /\ Symbols(s) = f[n] /\ f[0] = <<>>
               /\ \A i \in 1..n : f[i] = Scanned(f[i - 1], s[i])
  BY SymbolsIs
<1>3. PICK g : /\ Symbols(t) = g[n + 1] /\ g[0] = <<>>
               /\ \A i \in 1..(n + 1) : g[i] = Scanned(g[i - 1], t[i])
  BY <1>1, SymbolsIs
<1> HIDE DEF n
<1> DEFINE P == {i \in 0..n : f[i] = g[i]}
<1>4. 0 \in P
  BY <1>1, <1>2, <1>3
<1>5. ASSUME NEW i \in 1..n, i - 1 \in P PROVE i \in P
  <2>1. f[i - 1] = g[i - 1] /\ i \in 1..(n + 1) /\ i \in 0..n
    BY <1>1, <1>5
  <2>2. f[i] = Scanned(f[i - 1], s[i]) /\ g[i] = Scanned(g[i - 1], t[i]) /\ t[i] = s[i]
    BY <1>1, <1>2, <1>3, <2>1
  <2> QED BY <2>1, <2>2
<1>6. n \in P
  <2> HIDE DEF P
  <2>1. 0..n \subseteq P
    BY <1>1, <1>4, <1>5, InductionUpTo
  <2> QED BY <1>1, <2>1
<1>7. g[n + 1] = Scanned(g[n], e)
  <2>1. n + 1 \in 1..(n + 1) /\ (n + 1) - 1 = n
    BY <1>1
  <2> QED BY <1>1, <1>3, <2>1
<1>8. Symbols(t) = Scanned(Symbols(s), e)
  BY <1>2, <1>3, <1>6, <1>7
<1> QED BY <1>8 DEF t

LEMMA BehindMore ==
    ASSUME NEW s \in Seq(EventOf), NEW e \in EventOf, NEW k \in 0..Len(s)
    PROVE  /\ SubSeq(s, k + 1, Len(s)) \in Seq(EventOf)
           /\ SubSeq(Append(s, e), k + 1, Len(Append(s, e)))
                = Append(SubSeq(s, k + 1, Len(s)), e)
           /\ SubSeq(s, Len(s) + 1, Len(s)) = <<>>
<1> DEFINE n == Len(s)
           t == Append(s, e)
           a == SubSeq(s, k + 1, n)
           b == SubSeq(t, k + 1, n + 1)
<1>1. /\ t \in Seq(EventOf) /\ Len(t) = n + 1 /\ t[n + 1] = e /\ n \in Nat
      /\ \A i \in 1..n : t[i] = s[i]
  OBVIOUS
<1>2. /\ a \in Seq(EventOf) /\ Len(a) = n - k /\ \A i \in 1..(n - k) : a[i] = s[k + i]
      /\ SubSeq(s, n + 1, n) = <<>>
  <2> HIDE DEF t
  <2> QED OBVIOUS
<1>3. b \in Seq(EventOf) /\ Len(b) = n - k + 1 /\ \A i \in 1..(n - k + 1) : b[i] = t[k + i]
  <2>1. \A j \in (k + 1)..(n + 1) : t[j] \in EventOf
    <3>1. \A j \in (k + 1)..(n + 1) : j \in 1..Len(t)
      BY <1>1
    <3> HIDE DEF t
    <3> QED BY <1>1, <3>1
  <2> HIDE DEF t, n
  <2>2. k \in Int /\ n \in Int /\ k + 1 \in Int /\ n + 1 \in Int /\ k <= n
    BY <1>1 DEF n
  <2>3. /\ SubSeq(t, k + 1, n + 1) \in Seq(EventOf)
        /\ Len(SubSeq(t, k + 1, n + 1)) = (n + 1) - (k + 1) + 1
        /\ \A i \in 1..((n + 1) - (k + 1) + 1) : SubSeq(t, k + 1, n + 1)[i] = t[(k + 1) + i - 1]
    <3>1. k + 1 <= n + 1
      BY <2>2
    <3> QED BY <2>1, <2>2, <3>1, SubSeqProperties
  <2>4. (n + 1) - (k + 1) + 1 = n - k + 1 /\ \A i \in Int : (k + 1) + i - 1 = k + i
    BY <2>2
  <2> QED BY <2>3, <2>4
<1> HIDE DEF a, b, t, n
<1>4. /\ Append(a, e) \in Seq(EventOf) /\ Len(Append(a, e)) = n - k + 1
      /\ Append(a, e)[n - k + 1] = e /\ \A i \in 1..(n - k) : Append(a, e)[i] = a[i]
  BY <1>1, <1>2
<1>5. k + (n - k + 1) = n + 1
  BY <1>1
<1>6. \A i \in 1..(n - k) : Append(a, e)[i] = b[i]
  <2>1. ASSUME NEW i \in 1..(n - k) PROVE Append(a, e)[i] = b[i]
    <3>1. k + i \in 1..n /\ i \in 1..(n - k + 1)
      BY <1>1 DEF n
    <3> QED BY <1>1, <1>2, <1>3, <1>4, <3>1
  <2> QED BY <2>1
<1>7. b[n - k + 1] = e
  <2>1. n - k + 1 \in 1..(n - k + 1)
    BY <1>1 DEF n
  <2> QED BY <1>1, <1>3, <1>5, <2>1
<1>8. \A i \in 1..(n - k + 1) : i \in 1..(n - k) \/ i = n - k + 1
  BY <1>1 DEF n
<1>9. b = Append(a, e)
  BY <1>3, <1>4, <1>6, <1>7, <1>8
<1> QED BY <1>1, <1>2, <1>9 DEF a, b, t, n

-----------------------------------------------------------------------------
(* The inductive invariant *)

PropsOf == [lc : 0..8, lp : 0..4, pb : 0..4]
LzmaOf  == [props : PropsOf, rows : {Rows(p) : p \in PropsOf}, symbols : Seq(Nat),
            target : Nat]

Types ==
    /\ pc \in {"idle", "failed", "status", "finish", "raw", "raw_data", "header",
               "props", "target", "rc", "symbols"}
    /\ status \in Statuses \cup {0} /\ unpacked \in Nat
    /\ lzma \in LzmaOf /\ lzma.rows = Rows(lzma.props)
    /\ lzma.props.lc + lzma.props.lp <= 4
    /\ log \in Seq(EventOf)

\* The window is open as long as a call goes on, and splits its output.
WindowSplits ==
    /\ sink \in Seq(Byte) /\ buf \in Seq(Byte) /\ out \in Seq(Byte)
    /\ len = Len(buf) /\ window \in {"open", "closed", "io"}
    /\ pc \notin {"idle", "failed"} => window = "open"
    /\ window = "open" => sink \o buf = out
    /\ window = "closed" => sink = out

\* What the status byte has led to.
StatusLeads ==
    /\ pc \in {"raw", "raw_data"} => status \in {1, 2}
    /\ pc \in {"header", "props", "target", "rc", "symbols"} => status \in 128..255
    /\ pc = "props" => resets # 0

\* What the chunks have announced since the call, and for the dictionary.
CallTotal == Announced(Since(IsCall))
DictTotal == Announced(Since(NewDict))

\* The chunk that is read is not in log yet, or it is and its bytes are not in
\* the window.
Begun  == pc \in {"raw_data", "props"} \/ (pc = "target" /\ resets = 0)
Logged == pc = "rc" \/ (pc = "target" /\ resets # 0)

Counted ==
    /\ Begun \/ pc \in {"status", "finish", "raw", "header"} => Len(out) = CallTotal
    /\ Logged => Len(out) + unpacked = CallTotal
    /\ pc = "symbols" => Len(out) + lzma.target = CallTotal + len

DictCounted ==
    /\ pc \in {"status", "finish", "raw", "header"} => len = DictTotal
    /\ Begun => len = IF status = 1 \/ status >= 224 THEN 0 ELSE DictTotal
    /\ Logged => len + unpacked = DictTotal
    /\ pc = "rc" => lzma.target = len + unpacked
    /\ pc = "symbols" => lzma.target = DictTotal

IInv ==
    /\ Types /\ WindowSplits /\ StatusLeads /\ Counted /\ DictCounted /\ InStep

LEMMA InvTypes ==
    ASSUME IInv
    PROVE  /\ unpacked \in Nat /\ status \in 0..255 /\ log \in Seq(EventOf)
           /\ lzma \in LzmaOf /\ lzma.target \in Nat /\ lzma.symbols \in Seq(Nat)
           /\ lzma.props \in PropsOf
           /\ sink \in Seq(Byte) /\ buf \in Seq(Byte) /\ out \in Seq(Byte)
           /\ len = Len(buf) /\ len \in Nat /\ Len(out) \in Nat
<1>1. status \in 0..255
  <2>1. status \in Statuses \cup {0}
    BY DEF IInv, Types
  <2>2. \A x \in Statuses : x \in 0..255
    BY FieldAssumption
  <2> QED BY <2>1, <2>2
<1>2. lzma \in LzmaOf
  BY DEF IInv, Types
<1>3. lzma.target \in Nat /\ lzma.symbols \in Seq(Nat) /\ lzma.props \in PropsOf
  BY <1>2 DEF LzmaOf
<1>4. sink \in Seq(Byte) /\ buf \in Seq(Byte) /\ out \in Seq(Byte) /\ len = Len(buf)
  BY DEF IInv, WindowSplits
<1>5. unpacked \in Nat /\ log \in Seq(EventOf)
  BY DEF IInv, Types
<1> QED BY <1>1, <1>2, <1>3, <1>4, <1>5

\* The symbols and the properties, by the history.
SymbolsNow == Symbols(SubSeq(log, Since(NewState) + 1, Len(log)))
PropsNow   == IF Since(NewProps) = 0 THEN Zero ELSE Decoded(log[Since(NewProps)].props)

LEMMA InStepIs == InStep <=> lzma.symbols = SymbolsNow /\ lzma.props = PropsNow
BY Zenon DEF InStep, SymbolsNow, PropsNow

SizeOf(e) == IF IsChunk(e) THEN e.size ELSE 0

LEMMA SymbolsGrow ==
    ASSUME log \in Seq(EventOf), NEW e \in EventOf, Logs(e)
    PROVE  SymbolsNow' = IF NewState(e) THEN <<>> ELSE Scanned(SymbolsNow, e)
<1>1. log' = Append(log, e)
  BY DEF Logs
<1>2. Since(NewState)' = IF NewState(e) THEN Len(log) + 1 ELSE Since(NewState)
  BY <1>1, SinceMore
<1>3. Since(NewState) \in 0..Len(log)
  BY SinceRange
<1>4. SymbolsNow' = Symbols(SubSeq(log', Since(NewState)' + 1, Len(log')))
  BY DEF SymbolsNow
<1>5. CASE NewState(e)
  <2>1. Len(log') = Len(log) + 1 /\ log' \in Seq(EventOf)
    BY <1>1
  <2>2. SubSeq(log', Len(log') + 1, Len(log')) = <<>>
    BY <2>1
  <2> QED BY <1>2, <1>4, <1>5, <2>1, <2>2, SymbolsNone
<1>6. CASE ~NewState(e)
  <2> DEFINE k == Since(NewState)
             s == SubSeq(log, k + 1, Len(log))
  <2> HIDE DEF k
  <2>1. k \in 0..Len(log)
    BY <1>3 DEF k
  <2>2. s \in Seq(EventOf) /\ SubSeq(log', k + 1, Len(log')) = Append(s, e)
    BY <1>1, <2>1, BehindMore
  <2>3. Symbols(Append(s, e)) = Scanned(Symbols(s), e)
    <3> HIDE DEF s
    <3> QED BY <2>2, SymbolsMore
  <2>4. SymbolsNow' = Symbols(SubSeq(log', k + 1, Len(log')))
    BY <1>2, <1>4, <1>6 DEF k
  <2> QED BY <1>6, <2>2, <2>3, <2>4 DEF SymbolsNow, k
<1> QED BY <1>5, <1>6

LEMMA PropsGrow ==
    ASSUME log \in Seq(EventOf), NEW e \in EventOf, Logs(e)
    PROVE  PropsNow' = IF NewProps(e) THEN Decoded(e.props) ELSE PropsNow
<1>1. log' = Append(log, e)
  BY DEF Logs
<1>2. Since(NewProps)' = IF NewProps(e) THEN Len(log) + 1 ELSE Since(NewProps)
  BY <1>1, SinceMore
<1>3. Since(NewProps) \in 0..Len(log)
  BY SinceRange
<1>4. PropsNow' = IF Since(NewProps)' = 0 THEN Zero
                  ELSE Decoded(log'[Since(NewProps)'].props)
  BY DEF PropsNow, Decoded, Zero
<1>5. /\ log'[Len(log) + 1] = e /\ Len(log) \in Nat
      /\ \A i \in 1..Len(log) : log'[i] = log[i]
  BY <1>1
<1>6. CASE NewProps(e)
  BY <1>2, <1>4, <1>5, <1>6
<1>7. CASE ~NewProps(e)
  <2>1. CASE Since(NewProps) = 0
    BY <1>2, <1>4, <1>7, <2>1 DEF PropsNow
  <2>2. CASE Since(NewProps) # 0
    <3>1. log'[Since(NewProps)] = log[Since(NewProps)]
      BY <1>3, <1>5, <2>2
    <3> QED BY <1>2, <1>4, <1>7, <2>2, <3>1 DEF PropsNow
  <2> QED BY <2>1, <2>2
<1> QED BY <1>6, <1>7

LEMMA TotalsGrow ==
    ASSUME log \in Seq(EventOf), NEW e \in EventOf, Logs(e)
    PROVE  /\ CallTotal \in Nat /\ DictTotal \in Nat
           /\ CallTotal' = IF IsCall(e) THEN 0 ELSE CallTotal + SizeOf(e)
           /\ DictTotal' = (IF NewDict(e) THEN 0 ELSE DictTotal) + SizeOf(e)
<1>1. log' = Append(log, e)
  BY DEF Logs
<1> DEFINE k == Since(IsCall)
           d == Since(NewDict)
<1>2. /\ k' = IF IsCall(e) THEN Len(log) + 1 ELSE k
      /\ d' = IF NewDict(e) THEN Len(log) + 1 ELSE d
  BY <1>1, SinceMore
<1>3. k \in 0..(Len(log) + 1) /\ d \in 0..(Len(log) + 1) /\ Len(log) + 1 \in 0..(Len(log) + 1)
  BY SinceRange
<1>4. /\ CallTotal = Total(SizesOf(log, k)) /\ DictTotal = Total(SizesOf(log, d))
      /\ CallTotal' = Total(SizesOf(log', k')) /\ DictTotal' = Total(SizesOf(log', d'))
  BY Zenon DEF CallTotal, DictTotal, Announced, SizesOf
<1> HIDE DEF k, d
<1>5. \A i \in 0..(Len(log) + 1) :
          /\ Total(SizesOf(log, i)) \in Nat
          /\ Total(SizesOf(log', i)) = Total(SizesOf(log, i)) + SizeOf(e)
          /\ i = Len(log) + 1 => Total(SizesOf(log, i)) = 0
  BY <1>1, AnnouncedMore DEF SizeOf
<1>6. IsCall(e) => SizeOf(e) = 0
  BY DEF IsCall, SizeOf, IsChunk
<1>7. CallTotal \in Nat /\ DictTotal \in Nat
  BY <1>3, <1>4, <1>5
<1>8. CallTotal' = IF IsCall(e) THEN 0 ELSE CallTotal + SizeOf(e)
  BY <1>2, <1>3, <1>4, <1>5, <1>6
<1>9. DictTotal' = (IF NewDict(e) THEN 0 ELSE DictTotal) + SizeOf(e)
  BY <1>2, <1>3, <1>4, <1>5
<1> QED BY <1>7, <1>8, <1>9

\* Where nothing is logged, nothing changes.
LEMMA NoneLogged ==
    ASSUME UNCHANGED log
    PROVE  /\ CallTotal' = CallTotal /\ DictTotal' = DictTotal
           /\ SymbolsNow' = SymbolsNow /\ PropsNow' = PropsNow
<1>1. CallTotal' = CallTotal
  BY Zenon DEF CallTotal, Announced, Since
<1>2. DictTotal' = DictTotal
  BY Zenon DEF DictTotal, Announced, Since
<1>3. SymbolsNow' = SymbolsNow
  BY Zenon DEF SymbolsNow, Since
<1>4. PropsNow' = PropsNow
  BY Zenon DEF PropsNow, Since, Decoded, Zero
<1> QED BY <1>1, <1>2, <1>3, <1>4

-----------------------------------------------------------------------------
(* The window *)

Typed == sink \in Seq(Byte) /\ buf \in Seq(Byte) /\ out \in Seq(Byte) /\ len = Len(buf)

LEMMA WindowJoined ==
    ASSUME NEW r \in Seq(Byte), NEW s \in Seq(Byte), NEW t \in Seq(Byte)
    PROVE  /\ r \o s \in Seq(Byte) /\ (r \o s) \o t = r \o (s \o t)
           /\ Len(r \o s) = Len(r) + Len(s)
BY ConcatAssociative

\* The bytes s are pushed to the window of a call.
LEMMA PushSplits ==
    ASSUME IInv, pc \notin {"idle", "failed"}, NEW s \in Seq(Byte),
           Accum!Push(s), UNCHANGED <<sink, window>>
    PROVE  /\ Typed' /\ window' = "open" /\ sink' \o buf' = out'
           /\ Len(out') = Len(out) + Len(s) /\ len' = len + Len(s)
<1>1. /\ sink \in Seq(Byte) /\ buf \in Seq(Byte) /\ out \in Seq(Byte) /\ len = Len(buf)
      /\ window = "open" /\ sink \o buf = out
  BY DEF IInv, WindowSplits
<1>2. buf' = buf \o s /\ out' = out \o s /\ len' = len + Len(s) /\ sink' = sink
  BY DEF Accum!Push
<1>3. buf' \in Seq(Byte) /\ out' \in Seq(Byte) /\ len' = Len(buf')
  BY <1>1, <1>2
<1>4. (sink \o buf) \o s = sink \o (buf \o s)
  <2>1. sink \in Seq(Byte) /\ buf \in Seq(Byte) /\ s \in Seq(Byte)
    BY <1>1
  <2> QED BY <2>1, WindowJoined, Zenon
<1>5. Len(out') = Len(out) + Len(s)
  BY <1>1, <1>2
<1> QED BY <1>1, <1>2, <1>3, <1>4, <1>5 DEF Typed

LEMMA FirstTyped ==
    ASSUME NEW s \in Seq(Byte), NEW k \in 0..Len(s)
    PROVE  Accum!First(s, k) \in Seq(Byte)
<1>1. \A i \in 1..k : s[i] \in Byte
  OBVIOUS
<1>2. 1 \in Int /\ k \in Int
  OBVIOUS
<1> QED BY <1>1, <1>2, SubSeqProperties DEF Accum!First

LEMMA WriteFailsTyped ==
    ASSUME IInv, NEW n \in Int, n <= Len(buf), Accum!WriteFails(n)
    PROVE  sink' \in Seq(Byte) /\ window' = "io"
<1>1. sink \in Seq(Byte) /\ buf \in Seq(Byte)
  BY DEF IInv, WindowSplits
<1>2. window' = "io"
  BY DEF Accum!WriteFails
<1>3. PICK k \in 0..n : sink' = sink \o Accum!First(buf, k)
  BY DEF Accum!WriteFails
<1>4. k \in 0..Len(buf)
  BY <1>1
<1>5. Accum!First(buf, k) \in Seq(Byte)
  BY <1>1, <1>4, FirstTyped
<1> QED BY <1>1, <1>2, <1>3, <1>5, WindowJoined

\* The dictionary is reset, or not.
LEMMA ResetDictSplits ==
    ASSUME IInv, pc \notin {"idle", "failed"}, NEW says \in BOOLEAN, NEW next,
           ResetDict(says, next)
    PROVE  /\ Typed' /\ out' = out
           /\ \/ pc' = "failed" /\ window' = "io"
              \/ /\ pc' = next /\ window' = "open" /\ sink' \o buf' = out'
                 /\ len' = IF says THEN 0 ELSE len
<1>1. /\ sink \in Seq(Byte) /\ buf \in Seq(Byte) /\ out \in Seq(Byte) /\ len = Len(buf)
      /\ window = "open" /\ sink \o buf = out
  BY DEF IInv, WindowSplits
<1>2. CASE ~says
  BY <1>1, <1>2 DEF ResetDict, accum, Typed
<1>3. CASE says /\ window' = "open"
  <2>1. out' = out /\ sink' = sink \o buf /\ buf' = <<>> /\ len' = 0 /\ pc' = next
    BY <1>3 DEF ResetDict, Accum!Reset, Accum!WriteFails
  <2>2. out \o <<>> = out /\ <<>> \in Seq(Byte) /\ Len(<<>>) = 0
    BY <1>1
  <2> QED BY <1>1, <1>3, <2>1, <2>2 DEF Typed
<1>4. CASE says /\ window' # "open"
  <2>1. /\ Accum!WriteFails(Len(buf) - 1) /\ out' = out /\ buf' = buf /\ len' = len
        /\ pc' = "failed"
    BY <1>1, <1>4 DEF ResetDict, Accum!Reset, Fails
  <2>2. Len(buf) - 1 \in Int /\ Len(buf) - 1 <= Len(buf)
    BY <1>1
  <2>3. sink' \in Seq(Byte) /\ window' = "io"
    BY <2>1, <2>2, WriteFailsTyped
  <2> QED BY <1>1, <2>1, <2>3 DEF Typed
<1> QED BY <1>2, <1>3, <1>4

-----------------------------------------------------------------------------
(* The actions preserve the invariant *)

LEMMA InitHolds == Init => IInv
<1> SUFFICES ASSUME Init PROVE IInv
  OBVIOUS
<1>1. /\ sink = <<>> /\ buf = <<>> /\ len = 0 /\ window = "open" /\ out = <<>>
      /\ pc = "idle" /\ status = 0 /\ unpacked = 0 /\ lzma = New /\ log = <<>>
  BY DEF Init, Accum!Init
<1>2. Zero \in PropsOf /\ Zero.lc + Zero.lp <= 4
  BY DEF Zero, PropsOf
<1>3. Types
  <2>1. New \in LzmaOf /\ New.rows = Rows(New.props) /\ New.props = Zero
    <3>1. <<>> \in Seq(Nat)
      OBVIOUS
    <3> HIDE DEF Zero
    <3> QED BY <1>2, <3>1 DEF New, LzmaOf
  <2>2. log \in Seq(EventOf)
    BY <1>1
  <2> QED BY <1>1, <1>2, <2>1, <2>2 DEF Types
<1>4. WindowSplits
  BY <1>1 DEF WindowSplits
<1>5. StatusLeads /\ Counted /\ DictCounted
  BY <1>1 DEF StatusLeads, Counted, DictCounted, Begun, Logged
<1>6. InStep
  <2>1. log \in Seq(EventOf) /\ Len(log) = 0
    BY <1>1
  <2>2. Since(NewState) = 0 /\ Since(NewProps) = 0
    BY <2>1, SinceRange
  <2>3. SubSeq(<<>>, 1, 0) = <<>>
    OBVIOUS
  <2>4. SymbolsNow = <<>>
    <3>1. SubSeq(log, Since(NewState) + 1, Len(log)) = <<>>
      BY <1>1, <2>1, <2>2, <2>3
    <3> QED BY <3>1, SymbolsNone DEF SymbolsNow
  <2>5. PropsNow = Zero
    BY <2>2 DEF PropsNow
  <2>6. New.symbols = <<>> /\ New.props = Zero
    BY DEF New
  <2> QED BY <1>1, <2>4, <2>5, <2>6, InStepIs
<1> QED BY <1>3, <1>4, <1>5, <1>6 DEF IInv

\* What remains as it was.
LEMMA StepInStep ==
    ASSUME IInv, UNCHANGED <<lzma, log>>
    PROVE  InStep'
<1>1. lzma.symbols = SymbolsNow /\ lzma.props = PropsNow
  BY InStepIs DEF IInv
<1>2. lzma'.symbols = SymbolsNow' /\ lzma'.props = PropsNow'
  BY <1>1, NoneLogged
<1>3. InStep' <=> lzma'.symbols = SymbolsNow' /\ lzma'.props = PropsNow'
  BY Zenon DEF InStep, SymbolsNow, PropsNow
<1> QED BY <1>2, <1>3

LEMMA FailsKeeps ==
    ASSUME IInv, Fails, UNCHANGED <<accum, status, unpacked, lzma, log>>
    PROVE  IInv'
<1>1. InStep'
  BY StepInStep
<1>2. Types'
  BY DEF IInv, Types, Fails
<1>3. WindowSplits'
  BY DEF IInv, WindowSplits, Fails, accum
<1>4. StatusLeads' /\ Counted' /\ DictCounted'
  BY DEF Fails, StatusLeads, Counted, DictCounted, Begun, Logged
<1> QED BY <1>1, <1>2, <1>3, <1>4 DEF IInv

\* The parts of the invariant that a step establishes.
LEMMA Established ==
    ASSUME Types', Typed', StatusLeads', Counted', DictCounted', InStep',
           window' \in {"open", "closed", "io"},
           (pc \notin {"idle", "failed"} => window = "open")',
           (window = "open" => sink \o buf = out)',
           (window = "closed" => sink = out)'
    PROVE  IInv'
BY DEF IInv, WindowSplits, Typed

LEMMA TypesStay ==
    ASSUME IInv, UNCHANGED <<lzma, log>>, unpacked' \in Nat, status' \in Statuses \cup {0},
           pc' \in {"idle", "failed", "status", "finish", "raw", "raw_data", "header",
                    "props", "target", "rc", "symbols"}
    PROVE  Types'
BY DEF IInv, Types

LEMMA WindowStays ==
    ASSUME IInv, UNCHANGED accum
    PROVE  /\ Typed' /\ window' \in {"open", "closed", "io"}
           /\ (window = "open" => sink \o buf = out)'
           /\ (window = "closed" => sink = out)'
           /\ (pc \notin {"idle", "failed"} => window' = "open")
BY DEF IInv, WindowSplits, accum, Typed

LEMMA DecompressKeeps ==
    ASSUME IInv, Decompress
    PROVE  IInv'
<1> DEFINE e == [kind |-> "call"]
<1>1. /\ pc = "idle" /\ sink' = <<>> /\ buf' = <<>> /\ len' = 0 /\ window' = "open"
      /\ out' = <<>> /\ pc' = "status" /\ Logs(e)
      /\ UNCHANGED <<status, unpacked, lzma>>
  BY DEF Decompress
<1>2. /\ e \in EventOf /\ IsCall(e) /\ NewDict(e) /\ SizeOf(e) = 0
      /\ ~NewState(e) /\ ~NewProps(e) /\ ~IsSymbol(e)
  BY DEF EventOf, CallOf, IsCall, NewDict, SizeOf, IsChunk, NewState, NewProps, IsSymbol
<1>3. log \in Seq(EventOf)
  BY InvTypes
<1> HIDE DEF e
<1>4. log' \in Seq(EventOf)
  BY <1>1, <1>2, <1>3 DEF Logs
<1>5. Types'
  BY <1>1, <1>4 DEF IInv, Types
<1>6. InStep'
  <2>1. lzma.symbols = SymbolsNow /\ lzma.props = PropsNow
    BY InStepIs DEF IInv
  <2>2. SymbolsNow' = SymbolsNow /\ PropsNow' = PropsNow
    BY <1>1, <1>2, <1>3, SymbolsGrow, PropsGrow DEF Scanned
  <2>3. lzma'.symbols = SymbolsNow' /\ lzma'.props = PropsNow'
    BY <1>1, <2>1, <2>2
  <2> QED BY <2>3, Zenon DEF InStep, SymbolsNow, PropsNow
<1>7. CallTotal' = 0 /\ DictTotal' = 0
  BY <1>1, <1>2, <1>3, TotalsGrow
<1>8. Counted' /\ DictCounted' /\ StatusLeads'
  BY <1>1, <1>7 DEF Counted, DictCounted, StatusLeads, Begun, Logged
<1>9. Typed' /\ (sink \o buf = out)'
  BY <1>1 DEF Typed
<1> QED BY <1>1, <1>5, <1>6, <1>8, <1>9, Established

\* New properties get the state that goes with them.
LEMMA StateFits ==
    ASSUME IInv, NEW p \in PropsOf, p.lc + p.lp <= 4
    PROVE  /\ reset_state(p) \in LzmaOf
           /\ reset_state(p).rows = Rows(reset_state(p).props)
           /\ reset_state(p).props = p /\ reset_state(p).symbols = <<>>
           /\ reset_state(p).target = lzma.target
<1> DEFINE r == IF lzma.props.lc + lzma.props.lp = p.lc + p.lp THEN lzma.rows ELSE Rows(p)
<1>1. lzma \in LzmaOf /\ lzma.rows = Rows(lzma.props)
  BY DEF IInv, Types
<1>2. r = Rows(p)
  BY <1>1 DEF Rows
<1>3. reset_state(p) = [lzma EXCEPT !.props = p, !.symbols = <<>>, !.rows = r]
  BY DEF reset_state
<1>4. reset_state(p) = [props |-> p, rows |-> r, symbols |-> <<>>, target |-> lzma.target]
  BY <1>1, <1>3 DEF LzmaOf
<1>5. <<>> \in Seq(Nat) /\ lzma.target \in Nat
  BY <1>1 DEF LzmaOf
<1> HIDE DEF r
<1> QED BY <1>2, <1>4, <1>5 DEF LzmaOf

LEMMA ResetKeeps ==
    ASSUME IInv, Reset
    PROVE  IInv'
<1>1. /\ lzma' = reset_state(Zero) /\ log' = <<>> /\ pc' = "idle"
      /\ UNCHANGED <<accum, status, unpacked>>
  BY DEF Reset
<1>2. Zero \in PropsOf /\ Zero.lc + Zero.lp <= 4
  BY DEF Zero, PropsOf
<1>3. /\ lzma' \in LzmaOf /\ lzma'.rows = Rows(lzma'.props) /\ lzma'.props = Zero
      /\ lzma'.symbols = <<>>
  <2> HIDE DEF Zero
  <2> QED BY <1>1, <1>2, StateFits
<1>4. log' \in Seq(EventOf) /\ Len(log') = 0
  BY <1>1
<1>5. Types'
  BY <1>1, <1>2, <1>3, <1>4 DEF IInv, Types
<1>6. InStep'
  <2>1. /\ {i \in 1..Len(log') : NewState(log'[i])} = {}
        /\ {i \in 1..Len(log') : NewProps(log'[i])} = {}
    BY <1>4
  <2>2. Since(NewState)' = 0 /\ Since(NewProps)' = 0
    BY <2>1, Zenon DEF Since, LastOf
  <2>3. SubSeq(log', Since(NewState)' + 1, Len(log')) = <<>>
    BY <1>1, <2>2
  <2>4. Symbols(SubSeq(log', Since(NewState)' + 1, Len(log'))) = <<>>
    BY <2>3, SymbolsNone
  <2> QED BY <1>3, <2>2, <2>4, Zenon DEF InStep
<1>7. Counted' /\ DictCounted' /\ StatusLeads'
  BY <1>1 DEF Counted, DictCounted, StatusLeads, Begun, Logged
<1> QED BY <1>1, <1>5, <1>6, <1>7, WindowStays, Established

LEMMA TruncatedKeeps == IInv /\ Truncated => IInv'
BY FailsKeeps DEF Truncated

LEMMA SymbolFailsKeeps == IInv /\ SymbolFails => IInv'
BY FailsKeeps DEF SymbolFails

LEMMA StatusKeeps ==
    ASSUME IInv, Status
    PROVE  IInv'
<1>1. /\ pc = "status" /\ status' \in Statuses
      /\ pc' = CASE status' = 0                  -> "finish"
                 [] status' \in {1, 2}           -> "raw"
                 [] status' > 2 /\ status' < 128 -> "failed"
                 [] OTHER                        -> "header"
      /\ UNCHANGED <<accum, unpacked, lzma, log>>
  BY DEF Status
<1>2. status' \in 0..255
  BY <1>1, FieldAssumption
<1>3. /\ pc' \in {"finish", "raw", "failed", "header"}
      /\ pc' = "raw" => status' \in {1, 2}
      /\ pc' = "header" => status' \in 128..255
  BY <1>1, <1>2
<1>4. Types'
  BY <1>1, <1>3, InvTypes, TypesStay
<1>5. InStep'
  BY <1>1, StepInStep
<1>6. StatusLeads'
  BY <1>3 DEF StatusLeads
<1>7. Counted' /\ DictCounted'
  <2>1. CallTotal' = CallTotal /\ DictTotal' = DictTotal
    BY <1>1, NoneLogged
  <2>2. Len(out) = CallTotal /\ len = DictTotal
    BY <1>1 DEF IInv, Counted, DictCounted
  <2> QED BY <1>1, <1>3, <2>1, <2>2 DEF Counted, DictCounted, Begun, Logged, accum
<1> QED BY <1>1, <1>4, <1>5, <1>6, <1>7, WindowStays, Established

LEMMA FinishKeeps ==
    ASSUME IInv, Finish
    PROVE  IInv'
<1>1. /\ pc = "finish" /\ Accum!Finish /\ UNCHANGED <<buf, len, out>>
      /\ pc' = IF window' = "closed" THEN "idle" ELSE "failed"
      /\ UNCHANGED <<status, unpacked, lzma, log>>
  BY DEF Finish, Fails, Accum!Finish
<1>2. /\ sink \in Seq(Byte) /\ buf \in Seq(Byte) /\ out \in Seq(Byte) /\ len = Len(buf)
      /\ sink \o buf = out
  BY <1>1 DEF IInv, WindowSplits
<1>3. Typed' /\ ((window' = "closed" /\ sink' = out) \/ window' = "io")
  <2>1. CASE window' = "closed" /\ sink' = sink \o buf
    BY <1>1, <1>2, <2>1 DEF Typed
  <2>2. CASE Accum!WriteFails(Len(buf))
    <3>1. Len(buf) \in Int /\ Len(buf) <= Len(buf)
      BY <1>2
    <3>2. sink' \in Seq(Byte) /\ window' = "io"
      BY <2>2, <3>1, WriteFailsTyped
    <3> QED BY <1>1, <1>2, <3>2 DEF Typed
  <2> QED BY <1>1, <2>1, <2>2 DEF Accum!Finish
<1>4. pc' \in {"idle", "failed"}
  BY <1>1
<1>5. Types'
  BY <1>1, <1>4, InvTypes, TypesStay DEF IInv, Types
<1>6. InStep'
  BY <1>1, StepInStep
<1>7. Counted' /\ DictCounted' /\ StatusLeads'
  BY <1>4 DEF Counted, DictCounted, StatusLeads, Begun, Logged
<1> QED BY <1>1, <1>3, <1>4, <1>5, <1>6, <1>7, Established

\* A chunk that is a value of the history.
LEMMA ChunkIs ==
    ASSUME IInv, NEW b \in 0..255
    PROVE  /\ Chunk(b) \in EventOf /\ ~IsCall(Chunk(b)) /\ ~IsSymbol(Chunk(b))
           /\ SizeOf(Chunk(b)) = unpacked /\ Chunk(b).props = b
           /\ NewState(Chunk(b)) <=> status >= 160
           /\ NewProps(Chunk(b)) <=> status >= 192
           /\ NewDict(Chunk(b)) <=> status = 1 \/ status >= 224
<1>1. unpacked \in Nat /\ status \in 0..255
  BY InvTypes
<1>2. Chunk(b) \in ChunkOf
  BY <1>1 DEF Chunk, ChunkOf
<1>3. SizeOf(Chunk(b)) = unpacked
  BY DEF SizeOf, IsChunk, Chunk
<1>4. Chunk(b).kind = "chunk" /\ Chunk(b).status = status /\ Chunk(b).props = b
  BY DEF Chunk
<1> QED BY <1>2, <1>3, <1>4 DEF EventOf, IsCall, IsSymbol, NewState, NewProps, NewDict

LEMMA SizesNat == \A u \in Sizes : u \in Nat
<1>1. \A u \in Sizes : u \in 0..(2^16 - 1)
  BY SizeAssumption
<1>2. ASSUME NEW x, x \in 0..(2^16 - 1) PROVE x \in Nat
  BY <1>2
<1> QED BY <1>1, <1>2

LEMMA ResetsIs ==
    ASSUME NEW s \in 128..255
    PROVE  /\ (s \div 32) % 4 \in 0..3
           /\ (s \div 32) % 4 >= 1 <=> s >= 160
           /\ (s \div 32) % 4 >= 2 <=> s >= 192
           /\ (s \div 32) % 4 = 3 <=> s >= 224
OBVIOUS

LEMMA RawKeeps ==
    ASSUME IInv, Raw
    PROVE  IInv'
<1>1. /\ pc = "raw" /\ ResetDict(status = 1, "raw_data")
      /\ UNCHANGED <<status, lzma, log>>
  BY DEF Raw
<1>2. unpacked' \in Nat
  <2>1. PICK u \in Sizes : unpacked' = u + 1
    BY DEF Raw
  <2>2. u \in Nat
    BY SizesNat
  <2> QED BY <2>1, <2>2
<1>3. /\ Typed' /\ out' = out
      /\ \/ pc' = "failed" /\ window' = "io"
         \/ /\ pc' = "raw_data" /\ window' = "open" /\ sink' \o buf' = out'
            /\ len' = IF status = 1 THEN 0 ELSE len
  BY <1>1, ResetDictSplits
<1>4. Types'
  BY <1>1, <1>2, <1>3, TypesStay DEF IInv, Types
<1>5. InStep'
  BY <1>1, StepInStep
<1>6. status \in {1, 2} /\ Len(out) = CallTotal /\ len = DictTotal
  BY <1>1 DEF IInv, StatusLeads, Counted, DictCounted
<1>7. CallTotal' = CallTotal /\ DictTotal' = DictTotal
  BY <1>1, NoneLogged
<1>8. StatusLeads' /\ Counted' /\ DictCounted'
  BY <1>1, <1>3, <1>6, <1>7 DEF StatusLeads, Counted, DictCounted, Begun, Logged
<1> QED BY <1>3, <1>4, <1>5, <1>8, Established

\* An event that is logged, and does not change what the decoder has.
LEMMA LoggedInStep ==
    ASSUME IInv, NEW e \in EventOf, Logs(e), ~NewState(e), ~NewProps(e), ~IsSymbol(e),
           lzma'.symbols = lzma.symbols, lzma'.props = lzma.props
    PROVE  InStep' /\ log' \in Seq(EventOf)
<1>1. log \in Seq(EventOf)
  BY InvTypes
<1>2. lzma.symbols = SymbolsNow /\ lzma.props = PropsNow
  BY InStepIs DEF IInv
<1>3. SymbolsNow' = SymbolsNow /\ PropsNow' = PropsNow
  BY <1>1, SymbolsGrow, PropsGrow DEF Scanned
<1>4. lzma'.symbols = SymbolsNow' /\ lzma'.props = PropsNow'
  BY <1>2, <1>3
<1>5. InStep'
  BY <1>4, Zenon DEF InStep, SymbolsNow, PropsNow
<1> QED BY <1>1, <1>5 DEF Logs

LEMMA RawDataKeeps ==
    ASSUME IInv, RawData
    PROVE  IInv'
<1>1. /\ pc = "raw_data" /\ Logs(Chunk(0)) /\ pc' = "status"
      /\ UNCHANGED <<status, unpacked, lzma>>
  BY DEF RawData
<1>2. PICK s \in [1..unpacked -> Byte] : Accum!AppendBytes(s)
  BY DEF RawData
<1>3. s \in Seq(Byte) /\ Len(s) = unpacked
  <2>1. unpacked \in Nat
    BY InvTypes
  <2>2. ASSUME NEW n \in Nat, NEW t \in [1..n -> Byte]
        PROVE  t \in Seq(Byte) /\ Len(t) = n
    OBVIOUS
  <2> QED BY <2>1, <2>2
<1>4. Accum!Push(s) /\ UNCHANGED <<sink, window>>
  BY <1>2 DEF Accum!AppendBytes
<1>5. /\ Typed' /\ window' = "open" /\ sink' \o buf' = out'
      /\ Len(out') = Len(out) + unpacked /\ len' = len + unpacked
  BY <1>1, <1>3, <1>4, PushSplits
<1>6. status \in {1, 2} /\ Begun
  BY <1>1 DEF IInv, StatusLeads, Begun
<1>7. /\ Len(out) = CallTotal
      /\ len = IF status = 1 \/ status >= 224 THEN 0 ELSE DictTotal
  BY <1>6 DEF IInv, Counted, DictCounted
<1>8. /\ Chunk(0) \in EventOf /\ ~IsCall(Chunk(0)) /\ ~IsSymbol(Chunk(0))
      /\ SizeOf(Chunk(0)) = unpacked /\ ~NewState(Chunk(0)) /\ ~NewProps(Chunk(0))
      /\ NewDict(Chunk(0)) <=> status = 1 \/ status >= 224
  <2>1. 0 \in 0..255 /\ ~(status >= 160) /\ ~(status >= 192)
    BY <1>6
  <2> QED BY <2>1, ChunkIs
<1>9. InStep' /\ log' \in Seq(EventOf)
  BY <1>1, <1>8, LoggedInStep
<1>10. /\ CallTotal \in Nat /\ DictTotal \in Nat /\ CallTotal' = CallTotal + unpacked
       /\ DictTotal' = (IF status = 1 \/ status >= 224 THEN 0 ELSE DictTotal) + unpacked
  BY <1>1, <1>8, InvTypes, TotalsGrow
<1>11. Types'
  BY <1>1, <1>9 DEF IInv, Types
<1>12. Len(out') = CallTotal' /\ len' = DictTotal'
  BY <1>5, <1>7, <1>10
<1>13. StatusLeads' /\ Counted' /\ DictCounted'
  BY <1>1, <1>12 DEF StatusLeads, Counted, DictCounted, Begun, Logged
<1> QED BY <1>5, <1>9, <1>11, <1>13, Established

LEMMA HeaderKeeps ==
    ASSUME IInv, Header
    PROVE  IInv'
<1>1. /\ pc = "header"
      /\ ResetDict(resets = 3, IF resets >= 1 THEN "props" ELSE "target")
      /\ UNCHANGED <<status, lzma, log>>
  BY DEF Header
<1>2. status \in 128..255 /\ Len(out) = CallTotal /\ len = DictTotal
  BY <1>1 DEF IInv, StatusLeads, Counted, DictCounted
<1>3. /\ resets \in 0..3 /\ (resets >= 1 <=> status >= 160)
      /\ resets = 3 <=> status = 1 \/ status >= 224
  BY <1>2, ResetsIs DEF resets
<1>4. unpacked' \in Nat
  <2>1. PICK u \in Sizes : unpacked' = (status % 32) * 65536 + u + 1
    BY DEF Header
  <2>2. u \in Nat
    BY SizesNat
  <2>3. status % 32 \in Nat
    BY <1>2
  <2> QED BY <2>1, <2>2, <2>3
<1> DEFINE next == IF resets >= 1 THEN "props" ELSE "target"
<1>5. /\ Typed' /\ out' = out
      /\ \/ pc' = "failed" /\ window' = "io"
         \/ /\ pc' = next /\ window' = "open" /\ sink' \o buf' = out'
            /\ len' = IF resets = 3 THEN 0 ELSE len
  BY <1>1, ResetDictSplits
<1>6. Types'
  BY <1>1, <1>4, <1>5, TypesStay DEF IInv, Types
<1>7. InStep'
  BY <1>1, StepInStep
<1>8. CallTotal' = CallTotal /\ DictTotal' = DictTotal /\ resets' = resets
  BY <1>1, NoneLogged DEF resets
<1>9. CASE pc' = "failed" /\ window' = "io"
  BY <1>5, <1>6, <1>7, <1>9, Established DEF StatusLeads, Counted, DictCounted, Begun, Logged
<1>10. CASE /\ pc' = next /\ window' = "open" /\ sink' \o buf' = out'
            /\ len' = IF resets = 3 THEN 0 ELSE len
  <2>1. /\ pc' \in {"props", "target"} /\ (pc' = "props" <=> resets # 0)
        /\ len' = IF status = 1 \/ status >= 224 THEN 0 ELSE DictTotal
    BY <1>2, <1>3, <1>10
  <2> HIDE DEF next
  <2>2. StatusLeads'
    BY <1>1, <1>2, <1>8, <2>1 DEF StatusLeads
  <2>3. Begun' /\ ~Logged'
    BY <1>8, <2>1 DEF Begun, Logged
  <2>4. Counted' /\ DictCounted'
    BY <1>1, <1>2, <1>5, <1>8, <2>1, <2>3 DEF Counted, DictCounted
  <2> QED BY <1>5, <1>6, <1>7, <1>10, <2>2, <2>4, Established
<1> QED BY <1>5, <1>9, <1>10

\* The properties byte, if it is accepted.
LEMMA DecodedIs ==
    ASSUME NEW b \in 0..255, ~(b >= 225)
    PROVE  Decoded(b) \in PropsOf
<1>1. b % 9 \in 0..8 /\ (b \div 9) % 5 \in 0..4 /\ b \div 45 \in 0..4
  OBVIOUS
<1> QED BY <1>1 DEF Decoded, PropsOf

LEMMA StateResetKeeps ==
    ASSUME IInv, StateReset
    PROVE  IInv'
<1>1. pc = "props" /\ UNCHANGED <<accum, status, unpacked>>
  BY DEF StateReset
<1>2. /\ status \in 128..255 /\ resets # 0 /\ Begun
  BY <1>1 DEF IInv, StatusLeads, Begun
<1>3. /\ Len(out) = CallTotal
      /\ len = IF status = 1 \/ status >= 224 THEN 0 ELSE DictTotal
  BY <1>2 DEF IInv, Counted, DictCounted
<1>4. /\ resets \in 0..3 /\ (resets >= 1 <=> status >= 160)
      /\ (resets >= 2 <=> status >= 192)
  BY <1>2, ResetsIs DEF resets
<1>5. resets' = resets
  BY <1>1 DEF resets
<1>6. ASSUME NEW b \in 0..255, NEW p \in PropsOf, p.lc + p.lp <= 4,
             lzma' = reset_state(p), Logs(Chunk(b)), pc' = "target",
             p = IF resets >= 2 THEN Decoded(b) ELSE lzma.props
      PROVE  IInv'
  <2>1. /\ lzma' \in LzmaOf /\ lzma'.rows = Rows(lzma'.props) /\ lzma'.props = p
        /\ lzma'.symbols = <<>>
    BY <1>6, StateFits
  <2>2. /\ Chunk(b) \in EventOf /\ ~IsCall(Chunk(b)) /\ SizeOf(Chunk(b)) = unpacked
        /\ Chunk(b).props = b /\ NewState(Chunk(b))
        /\ (NewProps(Chunk(b)) <=> resets >= 2)
        /\ (NewDict(Chunk(b)) <=> status = 1 \/ status >= 224)
    <3>1. status >= 160 /\ (resets >= 2 <=> status >= 192)
      BY <1>2, <1>4
    <3>2. /\ Chunk(b) \in EventOf /\ ~IsCall(Chunk(b)) /\ SizeOf(Chunk(b)) = unpacked
          /\ Chunk(b).props = b
      BY ChunkIs
    <3>3. /\ NewState(Chunk(b)) <=> status >= 160
          /\ NewProps(Chunk(b)) <=> status >= 192
          /\ NewDict(Chunk(b)) <=> status = 1 \/ status >= 224
      <4>1. Chunk(b).kind = "chunk" /\ Chunk(b).status = status
        BY DEF Chunk
      <4> QED BY <4>1 DEF NewState, NewProps, NewDict
    <3> QED BY <3>1, <3>2, <3>3
  <2>3. log \in Seq(EventOf) /\ unpacked \in Nat /\ len \in Nat
    BY InvTypes
  <2>4. log' \in Seq(EventOf)
    BY <1>6, <2>2, <2>3 DEF Logs
  <2>5. Types'
    BY <1>1, <1>6, <2>1, <2>4 DEF IInv, Types
  <2>6. InStep'
    <3>1. lzma.props = PropsNow
      BY InStepIs DEF IInv
    <3>2. SymbolsNow' = <<>> /\ PropsNow' = IF resets >= 2 THEN Decoded(b) ELSE PropsNow
      BY <1>6, <2>2, <2>3, SymbolsGrow, PropsGrow
    <3>3. lzma'.symbols = SymbolsNow' /\ lzma'.props = PropsNow'
      BY <1>6, <2>1, <3>1, <3>2
    <3> QED BY <3>3, Zenon DEF InStep, SymbolsNow, PropsNow
  <2>7. /\ CallTotal' = CallTotal + unpacked /\ CallTotal \in Nat /\ DictTotal \in Nat
        /\ DictTotal' = (IF status = 1 \/ status >= 224 THEN 0 ELSE DictTotal) + unpacked
    BY <1>6, <2>2, <2>3, TotalsGrow
  <2>8. StatusLeads'
    BY <1>1, <1>2, <1>6 DEF StatusLeads
  <2>9. Logged' /\ ~Begun' /\ len' = len /\ Len(out') = Len(out) /\ unpacked' = unpacked
    BY <1>1, <1>2, <1>5, <1>6 DEF Logged, Begun, accum
  <2>10. Counted' /\ DictCounted'
    BY <1>3, <1>6, <2>7, <2>9 DEF Counted, DictCounted
  <2> QED BY <1>1, <2>5, <2>6, <2>8, <2>10, WindowStays, Established
<1>7. CASE resets = 1 /\ lzma' = reset_state(lzma.props) /\ Logs(Chunk(0)) /\ pc' = "target"
  <2>1. lzma.props \in PropsOf /\ lzma.props.lc + lzma.props.lp <= 4
    BY InvTypes DEF IInv, Types
  <2>2. 0 \in 0..255 /\ ~(resets >= 2)
    BY <1>7
  <2> QED BY <1>6, <1>7, <2>1, <2>2
<1>8. CASE resets \in {2, 3} /\ Fails /\ UNCHANGED <<lzma, log>>
  BY <1>1, <1>8, FailsKeeps
<1>9. ASSUME NEW b \in Props, resets \in {2, 3},
             ~(b >= 225 \/ Decoded(b).lc + Decoded(b).lp > 4),
             lzma' = reset_state(Decoded(b)), Logs(Chunk(b)), pc' = "target"
      PROVE  IInv'
  <2>1. b \in 0..255
    BY FieldAssumption
  <2>2. Decoded(b) \in PropsOf
    BY <1>9, <2>1, DecodedIs
  <2>3. Decoded(b).lc + Decoded(b).lp <= 4
    <3>1. Decoded(b).lc \in Nat /\ Decoded(b).lp \in Nat
      BY <2>2 DEF PropsOf
    <3> QED BY <1>9, <3>1
  <2>4. resets >= 2
    BY <1>9
  <2> QED BY <1>6, <1>9, <2>1, <2>2, <2>3, <2>4
<1> QED BY <1>7, <1>8, <1>9 DEF StateReset

\* The number of bytes that end the chunk is set.
LEMMA TargetFits ==
    ASSUME IInv, NEW n \in Nat
    PROVE  LET l == [lzma EXCEPT !.target = n]
           IN  /\ l \in LzmaOf /\ l.rows = lzma.rows /\ l.props = lzma.props
               /\ l.symbols = lzma.symbols /\ l.target = n
<1>1. lzma \in LzmaOf
  BY InvTypes
<1> QED BY <1>1 DEF LzmaOf

LEMMA TargetKeeps ==
    ASSUME IInv, Target
    PROVE  IInv'
<1>1. /\ pc = "target" /\ lzma' = [lzma EXCEPT !.target = unpacked + len]
      /\ pc' = "rc" /\ UNCHANGED <<accum, status, unpacked>>
  BY DEF Target
<1>2. status \in 128..255
  BY <1>1 DEF IInv, StatusLeads
<1>3. /\ resets \in 0..3 /\ (resets >= 1 <=> status >= 160)
  BY <1>2, ResetsIs DEF resets
<1>4. unpacked \in Nat /\ len \in Nat /\ Len(out) \in Nat /\ unpacked + len \in Nat
  BY InvTypes
<1>5. /\ lzma' \in LzmaOf /\ lzma'.rows = lzma.rows /\ lzma'.props = lzma.props
      /\ lzma'.symbols = lzma.symbols /\ lzma'.target = unpacked + len
  BY <1>1, <1>4, TargetFits
<1>6. StatusLeads' /\ Logged' /\ ~Begun'
  BY <1>1, <1>2 DEF StatusLeads, Logged, Begun
<1>7. CASE resets = 0
  <2>1. Logs(Chunk(0))
    BY <1>7 DEF Target
  <2>2. /\ Chunk(0) \in EventOf /\ ~IsCall(Chunk(0)) /\ ~IsSymbol(Chunk(0))
        /\ SizeOf(Chunk(0)) = unpacked /\ ~NewState(Chunk(0)) /\ ~NewProps(Chunk(0))
        /\ ~NewDict(Chunk(0))
    <3>1. 0 \in 0..255 /\ ~(status >= 160) /\ ~(status >= 192) /\ ~(status >= 224) /\ status # 1
      BY <1>2, <1>3, <1>7
    <3> QED BY <3>1, ChunkIs
  <2>3. InStep' /\ log' \in Seq(EventOf)
    BY <1>5, <2>1, <2>2, LoggedInStep
  <2>4. Types'
    BY <1>1, <1>5, <2>3 DEF IInv, Types
  <2>5. Len(out) = CallTotal /\ len = DictTotal
    <3>1. Begun
      BY <1>1, <1>7 DEF Begun
    <3>2. ~(status >= 224) /\ status # 1
      BY <1>2, <1>3, <1>7
    <3> QED BY <3>1, <3>2 DEF IInv, Counted, DictCounted
  <2>6. CallTotal' = CallTotal + unpacked /\ DictTotal' = DictTotal + unpacked
    BY <2>1, <2>2, InvTypes, TotalsGrow
  <2>7. Counted' /\ DictCounted'
    BY <1>1, <1>4, <1>5, <1>6, <2>5, <2>6 DEF Counted, DictCounted, accum
  <2> QED BY <1>1, <1>6, <2>3, <2>4, <2>7, WindowStays, Established
<1>8. CASE resets # 0
  <2>1. UNCHANGED log
    BY <1>8 DEF Target
  <2>2. InStep'
    <3>1. lzma.symbols = SymbolsNow /\ lzma.props = PropsNow
      BY InStepIs DEF IInv
    <3>2. lzma'.symbols = SymbolsNow' /\ lzma'.props = PropsNow'
      BY <1>5, <2>1, <3>1, NoneLogged
    <3> QED BY <3>2, Zenon DEF InStep, SymbolsNow, PropsNow
  <2>3. Types'
    BY <1>1, <1>5, <2>1 DEF IInv, Types
  <2>4. Len(out) + unpacked = CallTotal /\ len + unpacked = DictTotal
    <3>1. Logged
      BY <1>1, <1>8 DEF Logged
    <3> QED BY <3>1 DEF IInv, Counted, DictCounted
  <2>5. CallTotal' = CallTotal /\ DictTotal' = DictTotal
    BY <2>1, NoneLogged
  <2>6. Counted' /\ DictCounted'
    BY <1>1, <1>4, <1>5, <1>6, <2>4, <2>5 DEF Counted, DictCounted, accum
  <2> QED BY <1>1, <1>6, <2>2, <2>3, <2>6, WindowStays, Established
<1> QED BY <1>7, <1>8

LEMMA RangeDecoderNewKeeps ==
    ASSUME IInv, RangeDecoderNew
    PROVE  IInv'
<1>1. pc = "rc" /\ pc' = "symbols" /\ UNCHANGED <<accum, status, unpacked, lzma, log>>
  BY DEF RangeDecoderNew
<1>2. Logged
  BY <1>1 DEF Logged
<1>3. /\ Len(out) + unpacked = CallTotal /\ len + unpacked = DictTotal
      /\ lzma.target = len + unpacked
  BY <1>1, <1>2 DEF IInv, Counted, DictCounted
<1>4. Len(out) \in Nat /\ len \in Nat /\ unpacked \in Nat
  BY InvTypes
<1>5. CallTotal' = CallTotal /\ DictTotal' = DictTotal
  BY <1>1, NoneLogged
<1>6. Len(out) + lzma.target = CallTotal + len
  BY <1>3, <1>4
<1>7. Counted' /\ DictCounted'
  BY <1>1, <1>3, <1>5, <1>6 DEF Counted, DictCounted, Begun, Logged, accum
<1>8. StatusLeads'
  BY <1>1 DEF IInv, StatusLeads
<1>9. Types'
  BY <1>1, InvTypes, TypesStay DEF IInv, Types
<1> QED BY <1>1, <1>7, <1>8, <1>9, StepInStep, WindowStays, Established

LEMMA ChunkEndsKeeps ==
    ASSUME IInv, ChunkEnds
    PROVE  IInv'
<1>1. /\ pc = "symbols" /\ UNCHANGED <<accum, status, unpacked, lzma, log>>
  BY DEF ChunkEnds
<1>2. CASE Fails
  BY <1>1, <1>2, FailsKeeps
<1>3. CASE len = lzma.target /\ pc' = "status"
  <2>1. Len(out) + lzma.target = CallTotal + len /\ lzma.target = DictTotal
    BY <1>1 DEF IInv, Counted, DictCounted
  <2>2. Len(out) \in Nat /\ len \in Nat /\ CallTotal \in Nat
    <3>1. Since(IsCall) \in 0..(Len(log) + 1) /\ log \in Seq(EventOf)
      BY InvTypes, SinceRange
    <3>2. CallTotal \in Nat
      <4>1. [kind |-> "call"] \in EventOf
        BY DEF EventOf, CallOf
      <4> QED BY <3>1, <4>1, AnnouncedMore, AnnouncedIs DEF CallTotal
    <3> QED BY <3>2, InvTypes
  <2>3. Len(out) = CallTotal /\ len = DictTotal
    BY <1>3, <2>1, <2>2
  <2>4. CallTotal' = CallTotal /\ DictTotal' = DictTotal
    BY <1>1, NoneLogged
  <2>5. StatusLeads' /\ Counted' /\ DictCounted'
    BY <1>1, <1>3, <2>3, <2>4 DEF StatusLeads, Counted, DictCounted, Begun, Logged, accum
  <2>6. Types'
    BY <1>1, <1>3, InvTypes, TypesStay DEF IInv, Types
  <2> QED BY <1>1, <1>3, <2>5, <2>6, StepInStep, WindowStays, Established
<1> QED BY <1>2, <1>3 DEF ChunkEnds

-----------------------------------------------------------------------------
(* Symbols *)

\* A window that is open holds no more than its call has yielded.
LEMMA WindowInside ==
    ASSUME IInv, pc \notin {"idle", "failed"}
    PROVE  len <= Len(out)
<1>1. sink \in Seq(Byte) /\ buf \in Seq(Byte) /\ len = Len(buf) /\ sink \o buf = out
  BY DEF IInv, WindowSplits
<1>2. Len(sink \o buf) = Len(sink) + Len(buf)
  BY <1>1
<1> QED BY <1>1, <1>2

LEMMA LastDistIs == IInv => LastDist \in Nat \ {0}
<1> SUFFICES ASSUME IInv PROVE LastDist \in Nat \ {0}
  OBVIOUS
<1> DEFINE far == {i \in 1..Len(lzma.symbols) : lzma.symbols[i] > 0}
<1>1. lzma.symbols \in Seq(Nat)
  BY InvTypes
<1>2. far \in SUBSET (1..Len(lzma.symbols)) /\ Len(lzma.symbols) \in Nat
  BY <1>1
<1>3. \A i \in far : lzma.symbols[i] \in Nat \ {0}
  BY <1>1
<1>4. LastDist = IF far = {} THEN 1 ELSE lzma.symbols[LastOf(far)]
  BY Zenon DEF LastDist
<1> HIDE DEF far
<1>5. far # {} => LastOf(far) \in far
  BY <1>2, LastIs
<1> QED BY <1>3, <1>4, <1>5

\* A symbol that is decoded and pushes the bytes s.
LEMMA DecodesKeeps ==
    ASSUME IInv, NEW dist \in Nat, Decodes(dist), NEW s \in Seq(Byte), Accum!Push(s),
           UNCHANGED <<sink, window>>
    PROVE  IInv'
<1> DEFINE e == [kind |-> "symbol", dist |-> dist]
<1>1. /\ pc = "symbols" /\ lzma' = [lzma EXCEPT !.symbols = Append(@, dist)] /\ Logs(e)
      /\ UNCHANGED <<pc, status, unpacked>>
  BY DEF Decodes
<1>2. /\ e \in EventOf /\ ~IsCall(e) /\ ~NewDict(e) /\ SizeOf(e) = 0
      /\ ~NewState(e) /\ ~NewProps(e) /\ \A q : Scanned(q, e) = Append(q, dist)
  BY DEF EventOf, SymbolOf, IsCall, NewDict, SizeOf, IsChunk, NewState, NewProps,
         IsSymbol, Scanned
<1> HIDE DEF e
<1>3. /\ log \in Seq(EventOf) /\ lzma \in LzmaOf /\ lzma.symbols \in Seq(Nat)
      /\ lzma.target \in Nat /\ len \in Nat /\ Len(out) \in Nat
  BY InvTypes
<1>4. /\ lzma' \in LzmaOf /\ lzma'.rows = lzma.rows /\ lzma'.props = lzma.props
      /\ lzma'.target = lzma.target /\ lzma'.symbols = Append(lzma.symbols, dist)
  <2>1. Append(lzma.symbols, dist) \in Seq(Nat)
    BY <1>3
  <2> QED BY <1>1, <1>3, <2>1 DEF LzmaOf
<1>5. log' \in Seq(EventOf)
  BY <1>1, <1>2, <1>3 DEF Logs
<1>6. Types'
  BY <1>1, <1>4, <1>5 DEF IInv, Types
<1>7. InStep'
  <2>1. lzma.symbols = SymbolsNow /\ lzma.props = PropsNow
    BY InStepIs DEF IInv
  <2>2. SymbolsNow' = Append(SymbolsNow, dist) /\ PropsNow' = PropsNow
    BY <1>1, <1>2, <1>3, SymbolsGrow, PropsGrow
  <2>3. lzma'.symbols = SymbolsNow' /\ lzma'.props = PropsNow'
    BY <1>4, <2>1, <2>2
  <2> QED BY <2>3, Zenon DEF InStep, SymbolsNow, PropsNow
<1>8. /\ Typed' /\ window' = "open" /\ sink' \o buf' = out'
      /\ Len(out') = Len(out) + Len(s) /\ len' = len + Len(s)
  BY <1>1, PushSplits
<1>9. Len(out) + lzma.target = CallTotal + len /\ lzma.target = DictTotal
  BY <1>1 DEF IInv, Counted, DictCounted
<1>10. CallTotal' = CallTotal /\ DictTotal' = DictTotal /\ CallTotal \in Nat
  BY <1>1, <1>2, <1>3, TotalsGrow
<1>11. Len(s) \in Nat
  OBVIOUS
<1>12. Len(out') + lzma'.target = CallTotal' + len'
  <2>1. (Len(out) + Len(s)) + lzma.target = CallTotal + (len + Len(s))
    <3> DEFINE o == Len(out)
               t == lzma.target
               n == Len(s)
    <3>1. o \in Nat /\ t \in Nat /\ n \in Nat /\ CallTotal \in Nat /\ len \in Nat
      BY <1>3, <1>10, <1>11
    <3>2. o + t = CallTotal + len
      BY <1>9
    <3> HIDE DEF o, t, n
    <3>3. (o + n) + t = CallTotal + (len + n)
      BY <3>1, <3>2
    <3> QED BY <3>3 DEF o, t, n
  <2> QED BY <1>4, <1>8, <1>10, <2>1
<1>13. Counted' /\ DictCounted'
  BY <1>1, <1>4, <1>9, <1>10, <1>12 DEF Counted, DictCounted, Begun, Logged
<1>14. StatusLeads'
  BY <1>1 DEF IInv, StatusLeads
<1> QED BY <1>6, <1>7, <1>8, <1>13, <1>14, Established

LEMMA LiteralKeeps ==
    ASSUME IInv, Literal
    PROVE  IInv'
<1>1. PICK b \in Byte : Decodes(0) /\ Accum!AppendLiteral(b)
  BY DEF Literal
<1>2. pc = "symbols"
  BY <1>1 DEF Decodes
<1>3. len \in Nat /\ Len(out) \in Nat /\ MaxOut \in Nat
  BY InvTypes, BoundAssumption
<1>4. Len(out) + 1 <= MaxOut /\ len <= Len(out)
  BY <1>1, <1>2, WindowInside DEF Accum!AppendLiteral
<1>5. ~(len + 1 > MaxOut)
  BY <1>3, <1>4
<1>6. Accum!Push(<<b>>) /\ UNCHANGED <<sink, window>>
  BY <1>1, <1>5 DEF Accum!AppendLiteral
<1>7. <<b>> \in Seq(Byte) /\ 0 \in Nat
  OBVIOUS
<1> QED BY <1>1, <1>6, <1>7, DecodesKeeps

LEMMA MatchKeeps ==
    ASSUME IInv, Match
    PROVE  IInv'
<1>1. PICK n \in 1..MaxLen, d \in (1..MaxOut) \cup {LastDist} :
          ~Accum!TooFar(d) /\ Decodes(d) /\ Accum!AppendLz(n, d)
  BY DEF Match
<1>2. d \in Nat \ {0}
  BY LastDistIs
<1>3. buf \in Seq(Byte) /\ n \in Nat
  BY InvTypes
<1>4. d \in 1..Len(buf)
  BY <1>1, <1>2, <1>3 DEF Accum!TooFar
<1>5. Accum!Push(Accum!Copied(n, d)) /\ UNCHANGED <<sink, window>>
  BY <1>1 DEF Accum!AppendLz
<1>6. Accum!Copied(n, d) = Repeated(buf, n, d)
  BY Zenon DEF Accum!Copied, Accum!Repeated, Repeated
<1>7. Repeated(buf, n, d) \in Seq(Byte)
  BY <1>3, <1>4, RepeatedRepeats
<1> QED BY <1>1, <1>2, <1>5, <1>6, <1>7, DecodesKeeps

-----------------------------------------------------------------------------
(* The decoder *)

LEMMA NextKeeps == IInv /\ [Next]_vars => IInv'
<1> SUFFICES ASSUME IInv, [Next]_vars PROVE IInv'
  OBVIOUS
<1>1. CASE UNCHANGED vars
  <2>1. UNCHANGED <<accum, pc, status, unpacked, lzma, log>>
    BY <1>1 DEF vars
  <2>2. CallTotal' = CallTotal /\ DictTotal' = DictTotal
    BY <2>1, NoneLogged
  <2>3. Counted' /\ DictCounted' /\ StatusLeads'
    BY <2>1, <2>2 DEF IInv, Counted, DictCounted, StatusLeads, Begun, Logged, resets, accum
  <2>4. Types'
    BY <2>1 DEF IInv, Types
  <2> QED BY <2>1, <2>3, <2>4, StepInStep, WindowStays, Established
<1>2. CASE Decompress \/ Reset \/ Truncated \/ Status \/ Finish
  BY <1>2, DecompressKeeps, ResetKeeps, TruncatedKeeps, StatusKeeps, FinishKeeps
<1>3. CASE Raw \/ RawData
  BY <1>3, RawKeeps, RawDataKeeps
<1>4. CASE Header \/ StateReset \/ Target \/ RangeDecoderNew
  BY <1>4, HeaderKeeps, StateResetKeeps, TargetKeeps, RangeDecoderNewKeeps
<1>5. CASE Literal \/ Match \/ SymbolFails \/ ChunkEnds
  BY <1>5, LiteralKeeps, MatchKeeps, SymbolFailsKeeps, ChunkEndsKeeps
<1> QED BY <1>1, <1>2, <1>3, <1>4, <1>5 DEF Next

LEMMA Consistent == IInv => TypeOK /\ InStep /\ ChunksExact /\ DictionaryExact /\ Delivered
<1> SUFFICES ASSUME IInv PROVE TypeOK /\ InStep /\ ChunksExact /\ DictionaryExact /\ Delivered
  OBVIOUS
<1>1. TypeOK
  <2>1. lzma.props \in PropsOf /\ lzma.symbols \in Seq(Nat) /\ lzma.target \in Nat
    BY InvTypes
  <2>2. lzma.props.pb <= 4
    BY <2>1 DEF PropsOf
  <2> QED BY <2>1, <2>2 DEF IInv, Types, TypeOK
<1>2. InStep
  BY DEF IInv
<1>3. CallTotal \in Nat
  <2>1. Since(IsCall) \in 0..(Len(log) + 1) /\ log \in Seq(EventOf)
    BY InvTypes, SinceRange
  <2>2. [kind |-> "call"] \in EventOf
    BY DEF EventOf, CallOf
  <2> QED BY <2>1, <2>2, AnnouncedMore, AnnouncedIs DEF CallTotal
<1>4. ChunksExact
  <2>1. pc = "status" => Len(out) = CallTotal
    BY DEF IInv, Counted
  <2>2. pc = "symbols" => (len >= lzma.target <=> Len(out) >= CallTotal)
    <3>1. len \in Nat /\ lzma.target \in Nat /\ Len(out) \in Nat
      BY InvTypes
    <3>2. pc = "symbols" => Len(out) + lzma.target = CallTotal + len
      BY DEF IInv, Counted
    <3> QED BY <1>3, <3>1, <3>2
  <2> QED BY <2>1, <2>2, Zenon DEF ChunksExact, CallTotal
<1>5. DictionaryExact
  <2>1. pc = "status" => Len(buf) = DictTotal
    BY DEF IInv, DictCounted, WindowSplits
  <2> QED BY <2>1, Zenon DEF DictionaryExact, DictTotal
<1>6. Delivered
  BY DEF IInv, WindowSplits, Delivered
<1> QED BY <1>1, <1>2, <1>4, <1>5, <1>6

\* On any input, call after call and reset after reset, the decoder is where
\* the chunks say: its properties, probabilities and LRU, the reach of its
\* matches, the bytes of each chunk, and what it has delivered.
THEOREM DecoderConsistent ==
    Spec => [](TypeOK /\ InStep /\ ChunksExact /\ DictionaryExact /\ Delivered)
BY InitHolds, NextKeeps, Consistent, PTL DEF Spec

-----------------------------------------------------------------------------
(* The decoder on the encoder's stream *)

\* Whatever the encoder does, the decoder takes steps of its own.
LEMMA StepsOfDecoder == [RTNext]_rtvars => [Next]_vars
<1>1. DecodesAny => Next
  BY DEF DecodesAny
<1>2. Encodes => UNCHANGED vars
  BY DEF Encodes
<1>3. DecompressEncoded => Next
  BY DEF DecompressEncoded, Next
<1>4. DecodesEncoded => Next
  BY DEF DecodesEncoded, Next
<1>5. Again => Next
  BY DEF Again, Next
<1>6. UNCHANGED rtvars => UNCHANGED vars
  BY DEF rtvars
<1> QED BY <1>1, <1>2, <1>3, <1>4, <1>5, <1>6, Zenon DEF RTNext

\* The type invariant: literal_probs has a row for every context, whichever
\* properties the chunks have passed through.
THEOREM TypeCorrect == RTSpec => []TypeOK
<1>1. RTInit => IInv
  BY InitHolds DEF RTInit
<1> QED BY <1>1, StepsOfDecoder, NextKeeps, Consistent, PTL DEF RTSpec

\* Properties, probabilities, state and LRU are those of the last chunks that
\* set them, over uncompressed chunks, dictionary resets and calls.
THEOREM AlwaysInStep == RTSpec => []InStep
<1>1. RTInit => IInv
  BY InitHolds DEF RTInit
<1> QED BY <1>1, StepsOfDecoder, NextKeeps, Consistent, PTL DEF RTSpec

\* Every chunk adds the bytes it announces.
THEOREM ChunksAlwaysExact == RTSpec => []ChunksExact
<1>1. RTInit => IInv
  BY InitHolds DEF RTInit
<1> QED BY <1>1, StepsOfDecoder, NextKeeps, Consistent, PTL DEF RTSpec

\* Matches reach back to the last chunk that resets the dictionary.
THEOREM DictionaryAlwaysExact == RTSpec => []DictionaryExact
<1>1. RTInit => IInv
  BY InitHolds DEF RTInit
<1> QED BY <1>1, StepsOfDecoder, NextKeeps, Consistent, PTL DEF RTSpec

\* What is decoded is delivered, once and in order.
THEOREM AlwaysDelivered == RTSpec => []Delivered
<1>1. RTInit => IInv
  BY InitHolds DEF RTInit
<1> QED BY <1>1, StepsOfDecoder, NextKeeps, Consistent, PTL DEF RTSpec

\* A chunk of n bytes of input is written at m, a position in stream and one in
\* input, before the position e of stream.
ChunkAt(e, m, n) ==
    /\ m[1] + 2 + n <= e /\ m[2] + n <= at
    /\ stream[m[1] + 1] = 1 /\ stream[m[1] + 2] = n - 1
    /\ \A i \in 1..n : stream[m[1] + 2 + i] = input[m[2] + i]

Behind(m, n) == <<m[1] + 2 + n, m[2] + n>>

\* M are positions where chunks begin, from the first one to the end.
Marks(e, M) ==
    /\ M \subseteq (0..e) \X (0..at) /\ <<0, 0>> \in M
    /\ \A m \in M :
          m = <<e, at>> \/ \E n \in 1..BufSize : ChunkAt(e, m, n) /\ Behind(m, n) \in M

\* Where the chunks end.
Body == IF encoder = "done" THEN Len(stream) - 1 ELSE Len(stream)

EncoderTypes ==
    /\ input \in Seq(Byte) /\ at \in 0..Len(input) /\ stream \in Seq(Nat)
    /\ encoder = "done" => /\ at = Len(input) /\ Len(stream) > 0
                           /\ stream[Len(stream)] = 0

\* What is decoded is what was encoded, so far.
Prefix == Len(out) <= Len(input) /\ \A i \in 1..Len(out) : out[i] = input[i]

\* The chunk at m is the one that is read, and leads on to a mark.
Leads(m, n, M) == ChunkAt(Body, m, n) /\ Behind(m, n) \in M

\* The decoder reads at the marks.
Reads(M) ==
    encoded =>
        /\ encoder = "done" /\ Prefix /\ pos \in Nat
        /\ pc \in {"idle", "failed", "status", "finish", "raw", "raw_data"}
        /\ pc = "status" => <<pos, Len(out)>> \in M
        /\ pc = "raw" =>
              /\ status = 1 /\ pos > 0
              /\ \E n \in 1..BufSize : Leads(<<pos - 1, Len(out)>>, n, M)
        /\ pc = "raw_data" =>
              /\ pos > 1 /\ unpacked \in 1..BufSize
              /\ Leads(<<pos - 2, Len(out)>>, unpacked, M)
        /\ pc \in {"finish", "idle"} => pos = Len(stream) /\ out = input
        /\ pc = "idle" => window = "closed"
        /\ pc = "failed" => window = "io"

RTInv == IInv /\ EncoderTypes /\ \E M : Marks(Body, M) /\ Reads(M)

LEMMA RTInitHolds == RTInit => RTInv
<1> SUFFICES ASSUME RTInit PROVE RTInv
  OBVIOUS
<1>1. /\ input = <<>> /\ at = 0 /\ stream = <<>> /\ encoder = "off" /\ encoded = FALSE
  BY DEF RTInit, Encoder!Init
<1>2. EncoderTypes
  BY <1>1 DEF EncoderTypes
<1>3. Marks(Body, {<<0, 0>>})
  BY <1>1 DEF Marks, Body
<1>4. Reads({<<0, 0>>})
  BY <1>1 DEF Reads
<1> QED BY <1>2, <1>3, <1>4, InitHolds DEF RTInv, RTInit

LEMMA Joined ==
    ASSUME NEW u \in Seq(Nat), NEW v \in Seq(Nat)
    PROVE  /\ u \o v \in Seq(Nat) /\ Len(u \o v) = Len(u) + Len(v)
           /\ \A i \in 1..Len(u) : (u \o v)[i] = u[i]
           /\ \A i \in 1..Len(v) : (u \o v)[Len(u) + i] = v[i]
OBVIOUS

\* The remainder of what is less.
LEMMA LessStays ==
    ASSUME NEW x \in Nat, NEW w \in Nat, x < w
    PROVE  x % w = x
OBVIOUS

\* t is the stream s with a chunk of n bytes of b, from position a, behind it.
WithChunk(t, s, b, a, n) ==
    /\ t \in Seq(Nat) /\ Len(t) = Len(s) + 2 + n
    /\ \A i \in 1..Len(s) : t[i] = s[i]
    /\ t[Len(s) + 1] = 1 /\ t[Len(s) + 2] = n - 1
    /\ \A i \in 1..n : t[Len(s) + 2 + i] = b[a + i]

LEMMA ChunkWritten ==
    ASSUME NEW s \in Seq(Nat), NEW b \in Seq(Byte), NEW a \in 0..Len(b),
           NEW n \in Nat \ {0}, a + n <= Len(b)
    PROVE  WithChunk(s \o <<1, n - 1>> \o SubSeq(b, a + 1, a + n), s, b, a, n)
<1> DEFINE t == s \o <<1, n - 1>> \o SubSeq(b, a + 1, a + n)
           q == SubSeq(b, a + 1, a + n)
           r == s \o <<1, n - 1>>
<1>1. q \in Seq(Nat) /\ Len(q) = n /\ \A i \in 1..n : q[i] = b[a + i]
  <2>1. a + 1 \in Int /\ a + n \in Int /\ a + 1 <= a + n /\ a \in Nat /\ n \in Nat
    OBVIOUS
  <2>2. \A i \in (a + 1)..(a + n) : b[i] \in Nat
    <3>1. \A i \in (a + 1)..(a + n) : i \in 1..Len(b)
      BY <2>1
    <3>2. \A i \in 1..Len(b) : b[i] \in Byte
      OBVIOUS
    <3>3. \A x \in Byte : x \in Nat
      BY ByteAssumption
    <3> QED BY <3>1, <3>2, <3>3
  <2>3. /\ q \in Seq(Nat) /\ Len(q) = (a + n) - (a + 1) + 1
        /\ \A i \in 1..((a + n) - (a + 1) + 1) : q[i] = b[(a + 1) + i - 1]
    BY <2>1, <2>2, SubSeqProperties
  <2>4. (a + n) - (a + 1) + 1 = n /\ \A i \in Int : (a + 1) + i - 1 = a + i
    BY <2>1
  <2> QED BY <2>3, <2>4
<1>2. /\ r \in Seq(Nat) /\ Len(r) = Len(s) + 2 /\ \A i \in 1..Len(s) : r[i] = s[i]
      /\ r[Len(s) + 1] = 1 /\ r[Len(s) + 2] = n - 1
  <2> DEFINE v == <<1, n - 1>>
  <2>1. v \in Seq(Nat) /\ Len(v) = 2 /\ v[1] = 1 /\ v[2] = n - 1
    OBVIOUS
  <2>2. 1 \in 1..2 /\ 2 \in 1..2
    OBVIOUS
  <2> HIDE DEF v
  <2>3. /\ s \o v \in Seq(Nat) /\ Len(s \o v) = Len(s) + Len(v)
        /\ \A i \in 1..Len(s) : (s \o v)[i] = s[i]
        /\ \A i \in 1..Len(v) : (s \o v)[Len(s) + i] = v[i]
    BY <2>1, Joined
  <2>4. r = s \o v
    BY DEF v
  <2> HIDE DEF r
  <2> QED BY <2>1, <2>2, <2>3, <2>4
<1>3. t = r \o q
  OBVIOUS
<1>4. Len(s) \in Nat
  OBVIOUS
<1> HIDE DEF t, r, q
<1>5. /\ t \in Seq(Nat) /\ Len(t) = Len(r) + Len(q) /\ \A i \in 1..Len(r) : t[i] = r[i]
      /\ \A i \in 1..Len(q) : t[Len(r) + i] = q[i]
  <2>1. /\ r \o q \in Seq(Nat) /\ Len(r \o q) = Len(r) + Len(q)
        /\ \A i \in 1..Len(r) : (r \o q)[i] = r[i]
        /\ \A i \in 1..Len(q) : (r \o q)[Len(r) + i] = q[i]
    BY <1>1, <1>2, Joined, Zenon
  <2> QED BY <1>3, <2>1, Zenon
<1>6. /\ Len(s) + 1 \in 1..Len(r) /\ Len(s) + 2 \in 1..Len(r)
      /\ \A i \in 1..Len(s) : i \in 1..Len(r)
  BY <1>2, <1>4
<1>7. WithChunk(t, s, b, a, n)
  BY <1>1, <1>2, <1>5, <1>6 DEF WithChunk
<1> QED BY <1>7 DEF t

\* The encoder appends a chunk.
LEMMA ChunkMarked ==
    ASSUME EncoderTypes, NEW M, Marks(Len(stream), M), encoder # "done",
           NEW n \in 1..BufSize, at + n <= Len(input), at' = at + n,
           stream' = stream \o <<1, (n - 1) % SizeWord>> \o SubSeq(input, at + 1, at + n),
           UNCHANGED input
    PROVE  /\ stream' \in Seq(Nat) /\ at' \in 0..Len(input)
           /\ \E N : (Marks(Len(stream), N))'
<1>11. PICK e : e = Len(stream)
  OBVIOUS
<1>12. PICK N : N = M \cup {<<e + 2 + n, at + n>>}
  OBVIOUS
<1>1. input \in Seq(Byte) /\ at \in 0..Len(input) /\ stream \in Seq(Nat) /\ e \in Nat
  BY <1>11 DEF EncoderTypes
<1>2. n \in Nat \ {0} /\ (n - 1) % SizeWord = n - 1
  <2>1. n \in Nat \ {0} /\ n - 1 \in Nat /\ n - 1 < SizeWord /\ SizeWord \in Nat
    BY BufAssumption
  <2> QED BY <2>1, LessStays
<1>3. /\ stream' \in Seq(Nat) /\ Len(stream') = e + 2 + n
      /\ \A i \in 1..e : stream'[i] = stream[i]
      /\ stream'[e + 1] = 1 /\ stream'[e + 2] = n - 1
      /\ \A i \in 1..n : stream'[e + 2 + i] = input[at + i]
  <2>1. stream' = stream \o <<1, n - 1>> \o SubSeq(input, at + 1, at + n)
    BY <1>2
  <2>2. at + n <= Len(input)
    OBVIOUS
  <2>3. /\ stream' \in Seq(Nat) /\ Len(stream') = Len(stream) + 2 + n
        /\ \A i \in 1..Len(stream) : stream'[i] = stream[i]
        /\ stream'[Len(stream) + 1] = 1 /\ stream'[Len(stream) + 2] = n - 1
        /\ \A i \in 1..n : stream'[Len(stream) + 2 + i] = input[at + i]
    <3>1. /\ stream \in Seq(Nat) /\ input \in Seq(Byte) /\ at \in 0..Len(input)
          /\ n \in Nat \ {0}
      BY <1>1, <1>2
    <3>2. WithChunk(stream \o <<1, n - 1>> \o SubSeq(input, at + 1, at + n),
                    stream, input, at, n)
      BY <2>2, <3>1, ChunkWritten
    <3>3. WithChunk(stream', stream, input, at, n)
      BY <2>1, <3>2, Zenon
    <3> QED BY <3>3 DEF WithChunk
  <2> QED BY <1>11, <2>3
<1>4. N \subseteq (0..(e + 2 + n)) \X (0..(at + n)) /\ <<0, 0>> \in N
  <2>1. M \subseteq (0..e) \X (0..at) /\ <<0, 0>> \in M
    BY <1>11 DEF Marks
  <2>2. at \in Nat
    BY <1>1
  <2> QED BY <1>12, <1>1, <1>2, <2>1, <2>2
<1>5. \A m \in N : \/ m = <<e + 2 + n, at + n>>
                   \/ \E k \in 1..BufSize : ChunkAt(e + 2 + n, m, k)' /\ Behind(m, k) \in N
  <2>1. ASSUME NEW m \in M
        PROVE  \E k \in 1..BufSize : ChunkAt(e + 2 + n, m, k)' /\ Behind(m, k) \in N
    <3>1. CASE m = <<e, at>>
      <4>1. /\ m[1] + 2 + n <= e + 2 + n /\ m[2] + n <= at'
            /\ stream'[m[1] + 1] = 1 /\ stream'[m[1] + 2] = n - 1
            /\ \A i \in 1..n : stream'[m[1] + 2 + i] = input'[m[2] + i]
        <5>1. m[1] = e /\ m[2] = at
          BY <3>1
        <5>2. e + 2 + n <= e + 2 + n /\ at + n <= at'
          BY <1>1, <1>2
        <5>3. input' = input
          OBVIOUS
        <5> QED BY <1>3, <5>1, <5>2, <5>3, Zenon
      <4>2. ChunkAt(e + 2 + n, m, n)'
        BY <4>1, <1>1, <1>2 DEF ChunkAt
      <4>3. Behind(m, n) \in N
        BY <1>12, <3>1 DEF Behind
      <4> QED BY <4>2, <4>3
    <3>2. CASE m # <<e, at>>
      <4>1. PICK k \in 1..BufSize : ChunkAt(e, m, k) /\ Behind(m, k) \in M
        BY <1>11, <3>2 DEF Marks
      <4>2. m[1] \in Nat /\ m[2] \in Nat /\ k \in Nat \ {0} /\ at \in Nat
        BY <1>1, BufAssumption DEF Marks
      <4>3. /\ m[1] + 2 + k <= e /\ m[2] + k <= at
            /\ stream[m[1] + 1] = 1 /\ stream[m[1] + 2] = k - 1
            /\ \A i \in 1..k : stream[m[1] + 2 + i] = input[m[2] + i]
        BY <4>1 DEF ChunkAt
      <4>4. m[1] + 1 \in 1..e /\ m[1] + 2 \in 1..e /\ \A i \in 1..k : m[1] + 2 + i \in 1..e
        <5> DEFINE x == m[1]
        <5>1. x \in Nat /\ e \in Nat /\ k \in Nat \ {0} /\ x + 2 + k <= e
          BY <1>1, <4>2, <4>3
        <5> HIDE DEF x
        <5>2. x + 1 \in 1..e /\ x + 2 \in 1..e /\ \A i \in 1..k : x + 2 + i \in 1..e
          BY <5>1
        <5> QED BY <5>2 DEF x
      <4>5. m[1] + 2 + k <= e + 2 + n /\ m[2] + k <= at'
        <5> DEFINE x == m[1] + 2 + k
                   y == m[2] + k
        <5>1. /\ x \in Nat /\ e \in Nat /\ n \in Nat /\ x <= e
              /\ y \in Nat /\ at \in Nat /\ y <= at /\ at' = at + n
          <6>1. x <= e /\ y <= at
            BY <4>3
          <6>2. x \in Nat /\ y \in Nat /\ at \in Nat
            BY <4>2
          <6> QED BY <1>1, <1>2, <6>1, <6>2
        <5> HIDE DEF x, y
        <5>2. x <= e + 2 + n /\ y <= at'
          BY <5>1
        <5> QED BY <5>2 DEF x, y
      <4>6. /\ stream'[m[1] + 1] = 1 /\ stream'[m[1] + 2] = k - 1
            /\ \A i \in 1..k : stream'[m[1] + 2 + i] = input'[m[2] + i]
        BY <1>3, <4>3, <4>4
      <4>7. ChunkAt(e + 2 + n, m, k)'
        BY <4>5, <4>6 DEF ChunkAt
      <4> QED BY <1>12, <4>1, <4>7
    <3> QED BY <3>1, <3>2
  <2>2. ASSUME NEW m \in N PROVE m \in M \/ m = <<e + 2 + n, at + n>>
    BY <1>12
  <2> QED BY <2>1, <2>2
<1>6. (Marks(Len(stream), N))'
  BY <1>3, <1>4, <1>5 DEF Marks
<1>7. at' \in 0..Len(input)
  BY <1>1, <1>2
<1> QED BY <1>3, <1>6, <1>7

\* What the encoder does, while no call decodes its stream.
LEMMA EncodesKeeps ==
    ASSUME RTInv, Encodes
    PROVE  RTInv'
<1>1. ~encoded /\ encoder # "done" /\ UNCHANGED <<vars, pos, encoded>>
  BY DEF Encodes
<1>2. IInv'
  <2>1. [Next]_vars
    BY <1>1
  <2> QED BY <2>1, NextKeeps DEF RTInv
<1>3. /\ EncoderTypes
      /\ input \in Seq(Byte) /\ at \in 0..Len(input) /\ stream \in Seq(Nat)
  BY DEF RTInv, EncoderTypes
<1>4. PICK M : Marks(Len(stream), M)
  BY <1>1 DEF RTInv, Body
<1>5. ASSUME NEW N, Marks(Body, N)' PROVE \E S : (Marks(Body, S) /\ Reads(S))'
  <2>1. Reads(N)'
    BY <1>1 DEF Reads
  <2> QED BY <1>5, <2>1
<1>6. CASE Encoder!Starts
  <2>1. /\ encoder' = "on" /\ input' \in Inputs /\ at' = 0 /\ stream' = <<>>
    BY <1>6 DEF Encoder!Starts
  <2>2. EncoderTypes'
    BY <2>1, InputsAssumption DEF EncoderTypes
  <2>3. Marks(Body, {<<0, 0>>})'
    BY <2>1 DEF Marks, Body
  <2> QED BY <1>2, <1>5, <2>2, <2>3 DEF RTInv
<1>7. CASE Encoder!Chunk
  <2>1. PICK n \in 1..BufSize :
            /\ at + n <= Len(input) /\ at' = at + n
            /\ stream' = stream \o <<1, (n - 1) % SizeWord>>
                           \o SubSeq(input, at + 1, at + n)
    BY <1>7 DEF Encoder!Chunk
  <2>2. UNCHANGED <<input, encoder>>
    BY <1>7 DEF Encoder!Chunk
  <2>3. /\ stream' \in Seq(Nat) /\ at' \in 0..Len(input)
        /\ \E N : (Marks(Len(stream), N))'
    BY <1>1, <1>3, <1>4, <2>1, <2>2, ChunkMarked
  <2>4. EncoderTypes'
    BY <1>1, <1>3, <2>2, <2>3 DEF EncoderTypes
  <2>5. PICK N : (Marks(Len(stream), N))'
    BY <2>3
  <2>6. Marks(Body, N)'
    BY <1>1, <2>2, <2>5 DEF Body
  <2> QED BY <1>2, <1>5, <2>4, <2>6 DEF RTInv
<1>8. CASE Encoder!End
  <2>1. /\ at = Len(input) /\ stream' = Append(stream, 0) /\ encoder' = "done"
        /\ UNCHANGED <<input, at>>
    BY <1>8 DEF Encoder!End
  <2>2. /\ stream' \in Seq(Nat) /\ Len(stream') = Len(stream) + 1 /\ Len(stream) \in Nat
        /\ stream'[Len(stream) + 1] = 0 /\ \A i \in 1..Len(stream) : stream'[i] = stream[i]
    BY <1>3, <2>1
  <2>3. EncoderTypes'
    BY <1>3, <2>1, <2>2 DEF EncoderTypes
  <2>4. Body' = Len(stream)
    BY <2>1, <2>2 DEF Body
  <2>5. Marks(Body, M)'
    <3> DEFINE e == Len(stream)
    <3>1. ASSUME NEW m \in M, NEW k \in 1..BufSize, ChunkAt(e, m, k)
          PROVE  ChunkAt(Body, m, k)'
      <4>1. m[1] \in Nat /\ k \in Nat \ {0} /\ e \in Nat
        BY <1>4, <2>2, BufAssumption DEF Marks
      <4>2. m[1] + 2 + k <= e
        BY <3>1 DEF ChunkAt
      <4> HIDE DEF e
      <4>3. m[1] + 1 \in 1..e /\ m[1] + 2 \in 1..e /\ \A i \in 1..k : m[1] + 2 + i \in 1..e
        BY <4>1, <4>2
      <4>4. /\ stream'[m[1] + 1] = stream[m[1] + 1] /\ stream'[m[1] + 2] = stream[m[1] + 2]
            /\ \A i \in 1..k : stream'[m[1] + 2 + i] = stream[m[1] + 2 + i]
        BY <2>2, <4>3 DEF e
      <4> QED BY <2>1, <2>4, <3>1, <4>4 DEF ChunkAt, e
    <3>2. \A m \in M : m = <<e, at>> \/ \E k \in 1..BufSize :
              ChunkAt(e, m, k) /\ Behind(m, k) \in M
      BY <1>4 DEF Marks
    <3>3. M \subseteq (0..e) \X (0..at) /\ <<0, 0>> \in M
      BY <1>4 DEF Marks
    <3>4. \A m \in M : m = <<Body', at'>> \/ \E k \in 1..BufSize :
              ChunkAt(Body, m, k)' /\ Behind(m, k) \in M
      BY <2>1, <2>4, <3>1, <3>2
    <3> QED BY <2>1, <2>4, <3>3, <3>4 DEF Marks
  <2> QED BY <1>2, <1>5, <2>3, <2>5 DEF RTInv
<1>9. CASE Encoder!Fail
  <2>1. encoder' = "failed" /\ UNCHANGED <<input, at, stream>>
    BY <1>9 DEF Encoder!Fail
  <2>2. EncoderTypes'
    BY <1>3, <2>1 DEF EncoderTypes
  <2>3. Marks(Body, M)'
    BY <1>4, <2>1 DEF Body, Marks, ChunkAt
  <2> QED BY <1>2, <1>5, <2>2, <2>3 DEF RTInv
<1> QED BY <1>6, <1>7, <1>8, <1>9 DEF Encodes, Encoder!Next

LEMMA MarksStay ==
    ASSUME EncoderTypes, NEW M, Marks(Body, M), UNCHANGED encvars
    PROVE  EncoderTypes' /\ Marks(Body, M)' /\ Body' = Body
<1>1. UNCHANGED <<input, at, stream, encoder>>
  BY DEF encvars
<1> QED BY <1>1 DEF EncoderTypes, Marks, Body, ChunkAt

\* The call that decodes the stream begins.
LEMMA DecompressEncodedKeeps ==
    ASSUME RTInv, DecompressEncoded
    PROVE  RTInv'
<1>1. /\ encoder = "done" /\ Decompress /\ pos' = 0 /\ encoded' = TRUE /\ UNCHANGED encvars
  BY DEF DecompressEncoded
<1>2. IInv'
  BY <1>1, NextKeeps DEF RTInv, Next
<1>3. PICK M : Marks(Body, M)
  BY DEF RTInv
<1>4. EncoderTypes' /\ Marks(Body, M)'
  BY <1>1, <1>3, MarksStay DEF RTInv
<1>5. out' = <<>> /\ pc' = "status" /\ encoder' = "done" /\ UNCHANGED input
  BY <1>1 DEF Decompress, encvars
<1>6. Prefix'
  <2>1. Len(input) >= 0
    BY DEF RTInv, EncoderTypes
  <2> QED BY <1>5, <2>1 DEF Prefix
<1>7. <<0, 0>> \in M /\ Len(out') = 0
  BY <1>3, <1>5 DEF Marks
<1>8. Reads(M)'
  BY <1>1, <1>5, <1>6, <1>7 DEF Reads
<1> QED BY <1>2, <1>4, <1>8 DEF RTInv

\* A status byte is read where a chunk begins, or at the end.
LEMMA StatusReads ==
    ASSUME IInv, EncoderTypes, NEW M, Marks(Body, M), Reads(M), encoded,
           Takes(1), Status, status' = Field, UNCHANGED <<encvars, encoded>>
    PROVE  Reads(M)'
<1>1. /\ pc = "status" /\ UNCHANGED <<accum, unpacked>> /\ pos' = pos + 1
      /\ pc' = CASE status' = 0                  -> "finish"
                 [] status' \in {1, 2}           -> "raw"
                 [] status' > 2 /\ status' < 128 -> "failed"
                 [] OTHER                        -> "header"
  BY DEF Status, Takes
<1>2. encoder = "done" /\ Prefix /\ pos \in Nat /\ <<pos, Len(out)>> \in M
  BY <1>1 DEF Reads
<1>3. /\ UNCHANGED <<input, at, stream, encoder, out, encoded, window>>
      /\ Body' = Body /\ Body = Len(stream) - 1
  BY <1>1, <1>2 DEF encvars, accum, Body
<1>4. Prefix'
  BY <1>2, <1>3 DEF Prefix
<1>5. /\ input \in Seq(Byte) /\ out \in Seq(Byte) /\ Len(stream) \in Nat
      /\ at = Len(input) /\ stream[Len(stream)] = 0
  BY <1>2, InvTypes DEF EncoderTypes
<1>6. CASE <<pos, Len(out)>> = <<Body, at>>
  <2>1. pos = Len(stream) - 1 /\ Len(out) = Len(input)
    BY <1>3, <1>5, <1>6
  <2>2. status' = 0 /\ pos' = Len(stream)
    <3>1. pos + 1 = Len(stream)
      BY <1>5, <2>1
    <3> QED BY <1>1, <1>5, <3>1 DEF Field
  <2>3. pc' = "finish"
    BY <1>1, <2>2
  <2>4. out = input
    BY <1>2, <1>5, <2>1 DEF Prefix
  <2> QED BY <1>2, <1>3, <1>4, <2>2, <2>3, <2>4 DEF Reads
<1>7. CASE <<pos, Len(out)>> # <<Body, at>>
  <2>7. PICK m : m = <<pos, Len(out)>>
    OBVIOUS
  <2>1. PICK n \in 1..BufSize : ChunkAt(Body, m, n) /\ Behind(m, n) \in M
    BY <1>2, <1>7, <2>7 DEF Marks
  <2>2. m[1] = pos
    BY <2>7
  <2>3. stream[pos + 1] = 1
    BY <2>1, <2>2 DEF ChunkAt
  <2>4. status' = 1 /\ pc' = "raw"
    BY <1>1, <2>3 DEF Field
  <2>5. pos' > 0 /\ pos' \in Nat /\ <<pos' - 1, Len(out')>> = m
    <3>1. pos' - 1 = pos
      BY <1>1, <1>2
    <3> QED BY <1>1, <1>2, <1>3, <2>7, <3>1
  <2>6. ChunkAt(Body, m, n)'
    BY <1>3, <2>1 DEF ChunkAt
  <2>8. (\E k \in 1..BufSize : Leads(<<pos - 1, Len(out)>>, k, M))'
    <3>1. Leads(m, n, M)'
      BY <2>1, <2>6 DEF Leads
    <3>2. Leads(<<pos - 1, Len(out)>>, n, M)'
      BY <2>5, <3>1, Zenon DEF Leads, ChunkAt, Behind
    <3> QED BY <3>2
  <2> QED BY <1>2, <1>3, <1>4, <2>4, <2>5, <2>8 DEF Reads
<1> QED BY <1>6, <1>7

\* The size of a chunk is read.
LEMMA RawReads ==
    ASSUME IInv, EncoderTypes, NEW M, Marks(Body, M), Reads(M), encoded,
           Takes(1), Raw, unpacked' = Field + 1, UNCHANGED <<encvars, encoded>>
    PROVE  Reads(M)'
<1>1. /\ pc = "raw" /\ pos' = pos + 1 /\ ResetDict(status = 1, "raw_data")
  BY DEF Raw, Takes
<1>2. /\ encoder = "done" /\ Prefix /\ pos \in Nat /\ pos > 0
      /\ \E n \in 1..BufSize : Leads(<<pos - 1, Len(out)>>, n, M)
  BY <1>1 DEF Reads
<1>11. PICK m : m = <<pos - 1, Len(out)>>
  OBVIOUS
<1>3. PICK n \in 1..BufSize : ChunkAt(Body, m, n) /\ Behind(m, n) \in M
  BY <1>2, <1>11 DEF Leads
<1>4. /\ out' = out
      /\ \/ pc' = "failed" /\ window' = "io"
         \/ pc' = "raw_data" /\ window' = "open"
  BY <1>1, ResetDictSplits
<1>5. UNCHANGED <<input, at, stream, encoder, encoded>> /\ Body' = Body
  BY DEF encvars, Body
<1>6. Prefix'
  BY <1>2, <1>4, <1>5 DEF Prefix
<1>7. n \in Nat
  BY BufAssumption
<1>8. unpacked' = n
  <2>1. m[1] + 2 = pos + 1
    BY <1>2, <1>11
  <2>2. stream[pos + 1] = n - 1
    BY <1>3, <2>1 DEF ChunkAt
  <2> QED BY <1>7, <2>2 DEF Field
<1>9. pos' > 1 /\ pos' \in Nat /\ <<pos' - 2, Len(out')>> = m
  <2>1. pos' - 2 = pos - 1
    BY <1>1, <1>2
  <2> QED BY <1>1, <1>2, <1>4, <1>11, <2>1
<1>10. ChunkAt(Body, m, unpacked)'
  BY <1>3, <1>5, <1>8 DEF ChunkAt
<1>12. Leads(<<pos - 2, Len(out)>>, unpacked, M)'
  <2>1. Leads(m, unpacked, M)'
    BY <1>3, <1>8, <1>10 DEF Leads
  <2> QED BY <1>9, <2>1, Zenon DEF Leads, ChunkAt, Behind
<1> QED BY <1>2, <1>4, <1>5, <1>6, <1>8, <1>9, <1>12 DEF Reads

\* The bytes of a chunk are read.
LEMMA RawDataReads ==
    ASSUME IInv, EncoderTypes, NEW M, Marks(Body, M), Reads(M), encoded,
           Takes(unpacked), RawData, out' = out \o SubSeq(stream, pos + 1, pos'),
           UNCHANGED <<encvars, encoded>>
    PROVE  Reads(M)'
<1>1. /\ pc = "raw_data" /\ pc' = "status" /\ pos' = pos + unpacked
      /\ pos + unpacked <= Len(stream)
  BY DEF RawData, Takes
<1> DEFINE m == <<pos - 2, Len(out)>>
           n == unpacked
<1>2. /\ encoder = "done" /\ Prefix /\ pos \in Nat /\ pos > 1 /\ n \in 1..BufSize
      /\ ChunkAt(Body, m, n) /\ Behind(m, n) \in M
  BY <1>1 DEF Reads, Leads
<1>3. UNCHANGED <<input, at, stream, encoder, encoded>> /\ Body' = Body
  BY DEF encvars, Body
<1>4. n \in Nat \ {0} /\ Len(out) \in Nat /\ out \in Seq(Byte) /\ at \in 0..Len(input)
      /\ input \in Seq(Byte) /\ stream \in Seq(Nat)
  BY <1>2, BufAssumption, InvTypes DEF EncoderTypes
<1>5. /\ Len(out) + n <= at
      /\ \A i \in 1..n : stream[pos + i] = input[Len(out) + i]
  <2>1. m[1] + 2 = pos /\ m[2] = Len(out)
    BY <1>2
  <2>2. m[2] + n <= at /\ \A i \in 1..n : stream[m[1] + 2 + i] = input[m[2] + i]
    BY <1>2 DEF ChunkAt
  <2> QED BY <2>1, <2>2
<1> HIDE DEF n
<1>6. PICK q : q = SubSeq(stream, pos + 1, pos + n)
  OBVIOUS
<1>7. q \in Seq(Nat) /\ Len(q) = n /\ \A i \in 1..n : q[i] = stream[pos + i]
  <2>1. /\ pos + 1 \in Int /\ pos + n \in Int /\ pos + 1 <= pos + n /\ pos + n <= Len(stream)
        /\ Len(stream) \in Nat
    BY <1>1, <1>2, <1>4 DEF n
  <2>2. \A i \in (pos + 1)..(pos + n) : stream[i] \in Nat
    <3>1. \A i \in (pos + 1)..(pos + n) : i \in 1..Len(stream)
      BY <1>2, <2>1
    <3>2. \A i \in 1..Len(stream) : stream[i] \in Nat
      BY <1>4
    <3> QED BY <3>1, <3>2
  <2>3. /\ q \in Seq(Nat) /\ Len(q) = (pos + n) - (pos + 1) + 1
        /\ \A i \in 1..((pos + n) - (pos + 1) + 1) : q[i] = stream[(pos + 1) + i - 1]
    BY <1>6, <2>1, <2>2, SubSeqProperties
  <2>4. (pos + n) - (pos + 1) + 1 = n /\ \A i \in Int : (pos + 1) + i - 1 = pos + i
    BY <1>2, <1>4
  <2> QED BY <2>3, <2>4
<1>8. /\ Len(out') = Len(out) + n
      /\ \A i \in 1..Len(out) : out'[i] = out[i]
      /\ \A i \in 1..n : out'[Len(out) + i] = q[i]
  <2>1. out' = out \o q
    BY <1>1, <1>6 DEF n
  <2>2. out \in Seq(Nat)
    <3>1. \A i \in 1..Len(out) : out[i] \in Byte
      BY <1>4
    <3>2. \A x \in Byte : x \in Nat
      BY ByteAssumption
    <3> QED BY <1>4, <3>1, <3>2
  <2>3. /\ Len(out \o q) = Len(out) + Len(q)
        /\ \A i \in 1..Len(out) : (out \o q)[i] = out[i]
        /\ \A i \in 1..Len(q) : (out \o q)[Len(out) + i] = q[i]
    BY <1>7, <2>2, Joined
  <2> QED BY <1>7, <2>1, <2>3
<1>9. Prefix'
  <2>1. Len(out') <= Len(input')
    <3>1. Len(out) + n <= at /\ at \in Nat /\ Len(input) \in Nat /\ at <= Len(input)
      BY <1>4, <1>5
    <3>2. Len(out) + n <= Len(input)
      BY <1>4, <3>1
    <3> QED BY <1>3, <1>8, <3>2
  <2>2. ASSUME NEW i \in 1..Len(out') PROVE out'[i] = input'[i]
    <3>1. CASE i <= Len(out)
      <4>1. i \in 1..Len(out)
        BY <1>4, <1>8, <3>1
      <4> QED BY <1>2, <1>3, <1>8, <4>1 DEF Prefix
    <3>2. CASE ~(i <= Len(out))
      <4>1. i - Len(out) \in 1..n /\ Len(out) + (i - Len(out)) = i
        <5>1. i \in 1..(Len(out) + n)
          BY <1>8
        <5> QED BY <1>4, <3>2, <5>1
      <4>2. PICK k \in 1..n : Len(out) + k = i
        BY <4>1
      <4>3. out'[Len(out) + k] = input[Len(out) + k]
        BY <1>5, <1>7, <1>8
      <4> QED BY <1>3, <4>2, <4>3
    <3> QED BY <3>1, <3>2
  <2> QED BY <2>1, <2>2 DEF Prefix
<1>10. <<pos', Len(out')>> \in M
  <2>1. Behind(m, n) = <<pos + n, Len(out) + n>>
    BY <1>2, <1>4 DEF Behind
  <2>2. pos' = pos + n
    BY <1>1 DEF n
  <2> QED BY <1>2, <1>8, <2>1, <2>2 DEF n
<1>11. pos' \in Nat
  BY <1>1, <1>2, <1>4 DEF n
<1> HIDE DEF m
<1> QED BY <1>1, <1>2, <1>3, <1>9, <1>10, <1>11 DEF Reads

\* The stream does not end before what is read.
LEMMA NothingMissing ==
    ASSUME IInv, EncoderTypes, NEW M, Marks(Body, M), Reads(M), encoded,
           pos + (IF pc = "raw_data" THEN unpacked ELSE 1) > Len(stream), Truncated
    PROVE  FALSE
<1>1. pc \in {"status", "raw", "raw_data"}
  BY DEF Reads, Truncated
<1>2. encoder = "done" /\ pos \in Nat /\ Len(stream) \in Nat /\ Body = Len(stream) - 1
  BY DEF Reads, EncoderTypes, Body
<1>3. CASE pc = "status"
  <2>1. <<pos, Len(out)>> \in M
    BY <1>3 DEF Reads
  <2>2. pos \in 0..Body
    BY <2>1 DEF Marks
  <2> QED BY <1>2, <1>3, <2>2
<1>4. CASE pc = "raw"
  <2> DEFINE m == <<pos - 1, Len(out)>>
  <2>1. PICK n \in 1..BufSize : ChunkAt(Body, m, n)
    BY <1>4 DEF Reads, Leads
  <2>2. m[1] + 2 + n <= Body /\ n \in Nat /\ n > 0 /\ m[1] = pos - 1
    BY <2>1, BufAssumption DEF ChunkAt
  <2>3. (pos - 1) + 2 + n <= Len(stream) - 1
    BY <1>2, <2>2
  <2> HIDE DEF m
  <2> QED BY <1>2, <1>4, <2>2, <2>3
<1>5. CASE pc = "raw_data"
  <2> DEFINE m == <<pos - 2, Len(out)>>
  <2>1. ChunkAt(Body, m, unpacked) /\ unpacked \in Nat
    BY <1>5, InvTypes DEF Reads, Leads
  <2>2. m[1] + 2 + unpacked <= Body /\ m[1] = pos - 2
    BY <2>1 DEF ChunkAt
  <2>3. (pos - 2) + 2 + unpacked <= Len(stream) - 1
    BY <1>2, <2>2
  <2> HIDE DEF m
  <2> QED BY <1>2, <1>5, <2>1, <2>3
<1> QED BY <1>1, <1>3, <1>4, <1>5

\* The call ends.
LEMMA FinishReads ==
    ASSUME IInv, NEW M, Reads(M), encoded, Finish, UNCHANGED <<pos, encvars, encoded>>
    PROVE  Reads(M)'
<1>1. /\ pc = "finish" /\ UNCHANGED out
      /\ (window' = "closed" /\ pc' = "idle") \/ (window' = "io" /\ pc' = "failed")
  BY DEF Finish, Fails, Accum!Finish, Accum!WriteFails
<1>2. encoder = "done" /\ Prefix /\ pos \in Nat /\ pos = Len(stream) /\ out = input
  BY <1>1 DEF Reads
<1>3. UNCHANGED <<input, stream, encoder, encoded, pos>>
  BY DEF encvars
<1>4. Prefix'
  BY <1>1, <1>2, <1>3 DEF Prefix
<1> QED BY <1>1, <1>2, <1>3, <1>4 DEF Reads

LEMMA DecodesEncodedKeeps ==
    ASSUME RTInv, DecodesEncoded
    PROVE  RTInv'
<1>1. encoded /\ UNCHANGED <<encvars, encoded>> /\ IInv /\ EncoderTypes
  BY DEF DecodesEncoded, RTInv
<1>2. PICK M : Marks(Body, M) /\ Reads(M)
  BY DEF RTInv
<1>3. IInv'
  <2>1. Next
    BY DEF DecodesEncoded, Next
  <2> QED BY <1>1, <2>1, NextKeeps
<1>4. EncoderTypes' /\ Marks(Body, M)'
  BY <1>1, <1>2, MarksStay
<1>5. Reads(M)'
  BY <1>1, <1>2, StatusReads, RawReads, RawDataReads, NothingMissing, FinishReads
     DEF DecodesEncoded
<1> QED BY <1>3, <1>4, <1>5 DEF RTInv

LEMMA RTNextKeeps == RTInv /\ [RTNext]_rtvars => RTInv'
<1> SUFFICES ASSUME RTInv, [RTNext]_rtvars PROVE RTInv'
  OBVIOUS
<1>1. IInv'
  BY StepsOfDecoder, NextKeeps DEF RTInv
<1>2. PICK M : Marks(Body, M) /\ Reads(M)
  BY DEF RTInv
<1>3. CASE DecodesAny
  <2>1. encoder = "off" /\ UNCHANGED <<encvars, encoded>>
    BY <1>3 DEF DecodesAny
  <2>2. EncoderTypes' /\ Marks(Body, M)'
    BY <1>2, <2>1, MarksStay DEF RTInv
  <2>3. Reads(M)'
    BY <1>2, <2>1 DEF Reads
  <2> QED BY <1>1, <2>2, <2>3 DEF RTInv
<1>4. CASE Again
  <2>1. /\ input' = <<>> /\ at' = 0 /\ stream' = <<>> /\ encoder' = "off"
        /\ encoded' = FALSE
    BY <1>4 DEF Again
  <2>2. EncoderTypes'
    BY <2>1 DEF EncoderTypes
  <2>3. Marks(Body, {<<0, 0>>})'
    BY <2>1 DEF Marks, Body
  <2>4. Reads({<<0, 0>>})'
    BY <2>1 DEF Reads
  <2> QED BY <1>1, <2>2, <2>3, <2>4 DEF RTInv
<1>5. CASE UNCHANGED rtvars
  <2>1. UNCHANGED <<encvars, encoded, pos, out, pc, status, unpacked, window>>
    BY <1>5 DEF rtvars, vars, accum
  <2>2. EncoderTypes' /\ Marks(Body, M)'
    BY <1>2, <2>1, MarksStay DEF RTInv
  <2>3. Reads(M)'
    BY <1>2, <2>1 DEF Reads, Leads, encvars, Prefix, ChunkAt, Body
  <2> QED BY <1>1, <2>2, <2>3 DEF RTInv
<1> QED BY <1>3, <1>4, <1>5, EncodesKeeps, DecompressEncodedKeeps, DecodesEncodedKeeps
        DEF RTNext

\* What the encoder writes, for every input and every way its reader cuts it,
\* is decoded to that input by a decoder in any state a decoder can be in
\* between two calls; only the sink can make it fail.
THEOREM EncodedIsDecoded == RTSpec => []RoundTrip
<1>1. RTInv => RoundTrip
  <2> SUFFICES ASSUME RTInv, encoded PROVE /\ pc = "failed" => window = "io"
                                           /\ pc = "idle" => sink = input /\ pos = Len(stream)
    BY DEF RoundTrip
  <2>1. PICK M : Reads(M)
    BY DEF RTInv
  <2>2. pc = "idle" => window = "closed" /\ pos = Len(stream) /\ out = input
    BY <2>1 DEF Reads
  <2>3. window = "closed" => sink = out
    BY DEF RTInv, IInv, WindowSplits
  <2> QED BY <2>1, <2>2, <2>3 DEF Reads
<1> QED BY <1>1, RTInitHolds, RTNextKeeps, PTL DEF RTSpec

=============================================================================
