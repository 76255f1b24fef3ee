------------------------ MODULE SymbolProofs ------------------------
(***************************************************************************)
(* Proofs about one symbol, in two parts. Of the symbol decoder: state     *)
(* and the LRU are what the symbols decoded so far make them, whatever     *)
(* the input, its cuts and the dry runs are, and a dry run that succeeds   *)
(* tells what the real run reads; for all values of the constants. Of the  *)
(* bits of a symbol at the real sizes: range, the bytes taken, the cells,  *)
(* and the encoders of trees and lengths, for all probabilities, ranges    *)
(* and contexts.                                                           *)
(***************************************************************************)
EXTENDS SymbolDecoder, SymbolBits, RecursionLemmas, SequenceTheorems, TLAPS

Kinds == {"lit", "match", "rep", "shortrep"}

-----------------------------------------------------------------------------
(* What state means *)

\* The state of a history that ends in a match is 7 or more.
LEMMA MeaningOfMatch ==
    ASSUME NEW h \in [1..4 -> Kinds]
    PROVE  /\ Meaning(h) \in 0..11
           /\ Meaning(h) >= 7 <=> h[1] # "lit"
  BY DEF Meaning, Kinds

\* One more literal is the jump of AfterLiteral.
LEMMA MeaningAfterLiteral ==
    ASSUME NEW h \in [1..4 -> Kinds]
    PROVE  Meaning(<<"lit", h[1], h[2], h[3]>>)
             = IF Meaning(h) < 4 THEN 0
               ELSE IF Meaning(h) < 10 THEN Meaning(h) - 3 ELSE Meaning(h) - 6
  <1> DEFINE g == <<"lit", h[1], h[2], h[3]>>
  <1>1. g[1] = "lit" /\ g[2] = h[1] /\ g[3] = h[2] /\ g[4] = h[3]
    OBVIOUS
  <1>2. /\ h[1] \in Kinds /\ h[2] \in Kinds /\ h[3] \in Kinds /\ h[4] \in Kinds
    OBVIOUS
  <1> HIDE DEF g
  <1>3. CASE h[1] = "lit" /\ h[2] = "lit"
    BY <1>1, <1>2, <1>3 DEF Meaning, Kinds
  <1>4. CASE h[1] = "lit" /\ h[2] # "lit"
    BY <1>1, <1>2, <1>4 DEF Meaning, Kinds
  <1>5. CASE h[1] # "lit" /\ h[2] = "lit"
    BY <1>1, <1>2, <1>5 DEF Meaning, Kinds
  <1>6. CASE h[1] # "lit" /\ h[2] # "lit"
    BY <1>1, <1>2, <1>6 DEF Meaning, Kinds
  <1> QED BY <1>3, <1>4, <1>5, <1>6 DEF g

\* One more match, of any kind, is one of the jumps from below 7 or not.
LEMMA MeaningAfterMatch ==
    ASSUME NEW h \in [1..4 -> Kinds], NEW k \in Kinds \ {"lit"}
    PROVE  Meaning(<<k, h[1], h[2], h[3]>>)
             = IF Meaning(h) < 7
               THEN CASE k = "match" -> 7 [] k = "rep" -> 8 [] OTHER -> 9
               ELSE IF k = "match" THEN 10 ELSE 11
  <1> DEFINE g == <<k, h[1], h[2], h[3]>>
  <1>1. g[1] = k /\ g[2] = h[1] /\ g[3] = h[2] /\ g[4] = h[3]
    OBVIOUS
  <1>2. Meaning(h) \in 0..11 /\ (Meaning(h) >= 7 <=> h[1] # "lit")
    BY MeaningOfMatch
  <1>3. h[1] \in Kinds /\ k \in Kinds /\ k # "lit"
    OBVIOUS
  <1> HIDE DEF g
  <1>4. Meaning(g) = IF h[1] = "lit"
                     THEN CASE k = "match" -> 7 [] k = "rep" -> 8 [] OTHER -> 9
                     ELSE IF k = "match" THEN 10 ELSE 11
    BY <1>1, <1>3 DEF Meaning, Kinds
  <1> QED BY <1>2, <1>4 DEF g

-----------------------------------------------------------------------------
(* The inductive invariant *)

\* A new match in earnest has its length, and its distance is being read.
Midway == mode = "real" /\ pc = "distance"

Going == status = "open" /\ ~ended

\* state is what the history means, or ahead of it by a match.
StateRight ==
    status = "open" => state = IF Midway THEN Meaning(Latest("match")) ELSE Meaning(hist)

\* Unless the decoder is stale, every distance of the LRU is served, or nothing
\* was output; the state says that there is output to copy from.
RepsRight ==
    Going /\ ~stale =>
             /\ \A i \in 1..4 : Served(i) \/ Unset(i)
             /\ ~Midway /\ state >= 7 => len > 0

\* After the end marker only a literal can be decoded, which fails.
Over ==
    /\ ended => rep[1] = Marker /\ state >= 7 /\ pc \in {"idle", "is_match", "literal"}
    /\ Midway => state >= 7
    /\ pc # "idle" => status = "open"

IInv == TypeOK /\ StateRight /\ RepsRight /\ Over

LEMMA InitIInv == Init => IInv
  <1> SUFFICES ASSUME Init PROVE IInv
    OBVIOUS
  <1>1. hist = [i \in 1..4 |-> "lit"]
    BY DEF Init
  <1>2. hist[1] = "lit" /\ hist[2] = "lit" /\ hist[3] = "lit" /\ hist[4] = "lit"
    BY <1>1
  <1>3. Meaning(hist) = 0
    BY <1>2 DEF Meaning
  <1>4. rep = [i \in 1..4 |-> 0]
    BY DEF Init
  <1>5. TypeOK
    <2>1. hist \in [1..4 -> Kinds]
      BY <1>1 DEF Kinds
    <2>2. rep \in [1..4 -> Nat]
      BY <1>4
    <2>3. text \in Seq(Byte) /\ len \in 0..Len(text) /\ length \in Nat /\ state \in 0..11
      BY WindowAssumption DEF Init
    <2> QED BY <2>1, <2>2, <2>3 DEF Init, TypeOK, Kinds
  <1> QED
    BY <1>3, <1>4, <1>5
       DEF Init, IInv, StateRight, RepsRight, Over, Midway, Going, Unset

-----------------------------------------------------------------------------
(* Runs begin and end *)

\* A run that fails leaves an invariant that only speaks of open decoders.
LEMMA FailsIInv ==
    ASSUME IInv, update, pc' = "idle", status' \in {"short", "distance", "window", "marker"},
           UNCHANGED <<text, mode, told, stale, ended, len, hist>>,
           state' \in 0..11, rep' \in [1..4 -> Nat], length' \in Nat,
           ended => state' = state /\ rep' = rep
    PROVE  IInv'
  <1>1. TypeOK'
    BY DEF IInv, TypeOK
  <1>2. ~Going'
    BY DEF Going
  <1>3. Over'
    BY DEF IInv, Over, Midway
  <1> QED BY <1>1, <1>2, <1>3 DEF IInv, StateRight, RepsRight

\* A dry run that ends, well or not, leaves the decoder as it was.
LEMMA DryEndIInv ==
    ASSUME IInv, ~update, pc # "idle", pc' = "idle", told' \in BOOLEAN,
           UNCHANGED <<text, state, rep, len, mode, stale, ended, status, hist>>,
           length' \in Nat
    PROVE  IInv'
  <1>1. TypeOK'
    BY DEF IInv, TypeOK
  <1>2. ~Midway /\ ~Midway'
    BY DEF Midway, update
  <1>3. StateRight' /\ RepsRight' /\ Over'
    BY <1>2 DEF IInv, StateRight, RepsRight, Over, Going, Midway, Served, Unset
  <1> QED BY <1>1, <1>3 DEF IInv

LEMMA BeginsIInv ==
    ASSUME IInv, NEW m \in {"try", "real"}, NEW known \in BOOLEAN, Begins(m, known)
    PROVE  IInv'
  <1>1. TypeOK'
    BY DEF IInv, TypeOK, Begins
  <1>2. ~Midway /\ ~Midway'
    BY DEF Midway, Begins
  <1>3. StateRight' /\ RepsRight' /\ Over'
    BY <1>2 DEF IInv, StateRight, RepsRight, Over, Going, Midway, Served, Unset, Begins
  <1> QED BY <1>1, <1>3 DEF IInv

LEMMA ReceivesIs ==
    ASSUME text \in Seq(Byte), len \in 0..Len(text), NEW n \in Nat, NEW emptied \in BOOLEAN,
           Receives(n, emptied)
    PROVE  text' \in Seq(Byte) /\ len' \in 0..Len(text') /\ (~emptied => len' >= len)
  <1>1. len' \in Nat /\ len' <= Len(text') /\ (~emptied => len' >= len)
    BY DEF Receives
  <1>2. text' \in Seq(Byte)
    <2>1. CASE emptied
      <3>1. text' = SubSeq(text, len + 1, Len(text))
        BY <2>1 DEF Receives
      <3>2. \A i \in (len + 1)..Len(text) : text[i] \in Byte
        OBVIOUS
      <3> QED BY <3>1, <3>2, SubSeqProperties
    <2>2. CASE ~emptied
      BY <2>2 DEF Receives
    <2> QED BY <2>1, <2>2
  <1> QED BY <1>1, <1>2

LEMMA ResetIInv ==
    ASSUME IInv, NEW reset_dict \in BOOLEAN, ResetState(reset_dict)
    PROVE  IInv'
  <1>1. hist' = [i \in 1..4 |-> "lit"] /\ rep' = [i \in 1..4 |-> 0]
    BY DEF ResetState
  <1>2. hist'[1] = "lit" /\ hist'[2] = "lit" /\ hist'[3] = "lit" /\ hist'[4] = "lit"
    BY <1>1
  <1>3. Meaning(hist') = 0
    BY <1>2 DEF Meaning
  <1>4. TypeOK'
    <2>1. hist' \in [1..4 -> Kinds]
      BY <1>1 DEF Kinds
    <2>2. rep' \in [1..4 -> Nat]
      BY <1>1
    <2>3. text' \in Seq(Byte) /\ len' \in 0..Len(text')
      BY ReceivesIs DEF IInv, TypeOK, ResetState
    <2>4. state' \in 0..11
      BY DEF ResetState
    <2>5. stale' \in BOOLEAN /\ ended' \in BOOLEAN /\ told' \in BOOLEAN
      BY Zenon DEF ResetState, Between
    <2>6. UNCHANGED <<mode, pc, length, status>>
      BY DEF ResetState, Between
    <2> QED BY <2>1, <2>2, <2>3, <2>4, <2>5, <2>6 DEF IInv, TypeOK, Kinds
  <1>5. ~Midway'
    BY DEF ResetState, Between, Midway
  <1>6. StateRight'
    BY <1>3, <1>5 DEF StateRight, ResetState
  <1>7. RepsRight'
    <2>1. len' \in Nat /\ \A i \in 1..4 : rep'[i] = 0
      BY <1>1, <1>4 DEF TypeOK
    <2>2. \A i \in 1..4 : Served(i)' \/ Unset(i)'
      BY <2>1, WindowAssumption DEF Served, Unset
    <2> QED BY <2>2 DEF RepsRight, ResetState
  <1>8. Over'
    BY <1>5 DEF Over, ResetState, Between
  <1> QED BY <1>4, <1>6, <1>7, <1>8 DEF IInv

\* A window that only grows serves what it served.
LEMMA UncompressedIInv ==
    ASSUME IInv, NEW n \in Nat \ {0}, NEW reset_dict \in BOOLEAN, Uncompressed(n, reset_dict)
    PROVE  IInv'
  <1>1. text' \in Seq(Byte) /\ len' \in 0..Len(text') /\ (~reset_dict => len' >= len)
    BY ReceivesIs DEF IInv, TypeOK, Uncompressed
  <1>2. TypeOK'
    BY <1>1 DEF IInv, TypeOK, Uncompressed, Between
  <1>3. ~Midway /\ ~Midway'
    BY DEF Uncompressed, Between, Midway
  <1>4. StateRight'
    BY <1>3 DEF IInv, StateRight, Uncompressed, Between
  <1>5. RepsRight'
    <2>1. SUFFICES ASSUME Going', ~stale' PROVE RepsRight'
      BY DEF RepsRight
    <2>2. /\ len' \in Nat /\ len \in Nat /\ len' > 0 /\ len' >= len /\ Going /\ ~stale
          /\ UNCHANGED <<state, rep>> /\ rep \in [1..4 -> Nat]
      BY <1>1, <2>1 DEF IInv, TypeOK, Uncompressed, Between, Receives, Going
    <2>3. ASSUME NEW i \in 1..4 PROVE Served(i)'
      <3>1. Served(i) \/ Unset(i)
        BY <2>2 DEF IInv, RepsRight
      <3> QED BY <2>2, <3>1, WindowAssumption DEF Served, Unset
    <2> QED BY <2>2, <2>3 DEF RepsRight
  <1>6. Over'
    BY <1>3 DEF IInv, Over, Uncompressed, Between
  <1> QED BY <1>2, <1>4, <1>5, <1>6 DEF IInv

LEMMA DecompressIInv == ASSUME IInv, Decompress PROVE IInv'
  <1>1. text' \in Seq(Byte) /\ len' \in 0..Len(text')
    BY ReceivesIs DEF IInv, TypeOK, Decompress
  <1>2. TypeOK'
    BY <1>1 DEF IInv, TypeOK, Decompress, Between
  <1>3. ~Midway /\ ~Midway'
    BY DEF Decompress, Between, Midway
  <1>4. StateRight' /\ RepsRight' /\ Over'
    BY <1>3 DEF IInv, StateRight, RepsRight, Over, Decompress, Between
  <1> QED BY <1>2, <1>4 DEF IInv

LEMMA ShortIInv == ASSUME IInv, Short PROVE IInv'
  <1>1. CASE update
    <2>1. state \in 0..11 /\ rep \in [1..4 -> Nat] /\ length \in Nat
      BY DEF IInv, TypeOK
    <2> QED BY <1>1, <2>1, FailsIInv DEF Short, Fails
  <1>2. CASE ~update
    <2>1. told' \in BOOLEAN /\ length' \in Nat /\ pc # "idle"
      BY <1>2 DEF IInv, TypeOK, Short, Fails
    <2> QED BY <1>2, <2>1, DryEndIInv DEF Short, Fails
  <1> QED BY <1>1, <1>2

-----------------------------------------------------------------------------
(* Symbols *)

\* A step inside a run, which may reorder the LRU but no more.
LEMMA GoesIInv ==
    ASSUME IInv, pc \notin {"idle", "distance"},
           NEW next \in {"literal", "is_rep", "is_rep_g0", "is_rep_0long", "is_rep_g1",
                         "is_rep_g2", "rep_len", "len"},
           Goes(next), UNCHANGED <<text, state, len, length, hist>>,
           rep' \in [1..4 -> Nat],
           \A i \in 1..4 : \E j \in 1..4 : rep'[i] = rep[j],
           ended => next = "literal" /\ rep' = rep
    PROVE  IInv'
  <1>1. TypeOK'
    BY DEF IInv, TypeOK, Goes
  <1>2. /\ ~Midway /\ ~Midway' /\ (Going' <=> Going)
        /\ UNCHANGED <<stale, status, hist, state>>
    BY DEF Midway, Going, Goes
  <1>3. StateRight'
    <2>1. Meaning(hist)' = Meaning(hist)
      BY DEF Meaning
    <2> QED BY <1>2, <2>1 DEF IInv, StateRight
  <1>4. RepsRight'
    <2>1. SUFFICES ASSUME Going, ~stale, NEW i \in 1..4
                   PROVE  Served(i)' \/ Unset(i)'
      BY <1>2 DEF IInv, RepsRight
    <2>2. PICK j \in 1..4 : rep'[i] = rep[j]
      OBVIOUS
    <2>3. Served(j) \/ Unset(j)
      BY <2>1 DEF IInv, RepsRight
    <2> QED BY <2>2, <2>3 DEF Served, Unset
  <1>5. Over'
    BY <1>2 DEF IInv, Over, Goes
  <1> QED BY <1>1, <1>3, <1>4, <1>5 DEF IInv

LEMMA IsMatchIInv == ASSUME IInv, IsMatch PROVE IInv'
  <1>1. PICK b \in Bit : /\ ended => b = 0
                        /\ Goes(IF b = 0 THEN "literal" ELSE "is_rep")
    BY DEF IsMatch
  <1>2. rep' = rep /\ rep \in [1..4 -> Nat]
    BY DEF IsMatch, IInv, TypeOK
  <1>3. CASE b = 0
    BY <1>1, <1>2, <1>3, GoesIInv DEF IsMatch
  <1>4. CASE b = 1
    BY <1>1, <1>2, <1>4, GoesIInv DEF IsMatch
  <1> QED BY <1>3, <1>4 DEF Bit

LEMMA IsRepIInv == ASSUME IInv, IsRep PROVE IInv'
  <1>1. PICK b \in Bit :
            /\ Goes(IF b = 1 THEN "is_rep_g0" ELSE "len")
            /\ rep' = IF b = 0 /\ update THEN <<rep[1], rep[1], rep[2], rep[3]>> ELSE rep
    BY DEF IsRep
  <1>2. rep \in [1..4 -> Nat] /\ ~ended
    BY DEF IsRep, IInv, TypeOK, Over
  <1>3. /\ rep' \in [1..4 -> Nat]
        /\ \A i \in 1..4 : \E j \in 1..4 : rep'[i] = rep[j]
    <2>1. CASE rep' = rep
      BY <1>2, <2>1
    <2>2. CASE rep' = <<rep[1], rep[1], rep[2], rep[3]>>
      <3>1. /\ rep'[1] = rep[1] /\ rep'[2] = rep[1]
            /\ rep'[3] = rep[2] /\ rep'[4] = rep[3]
        BY <2>2
      <3>2. rep' \in [1..4 -> Nat]
        BY <1>2, <2>2
      <3> QED BY <3>1, <3>2
    <2> QED BY <1>1, <2>1, <2>2
  <1>4. CASE b = 1
    BY <1>1, <1>2, <1>3, <1>4, GoesIInv DEF IsRep
  <1>5. CASE b = 0
    BY <1>1, <1>2, <1>3, <1>5, GoesIInv DEF IsRep
  <1> QED BY <1>4, <1>5 DEF Bit

LEMMA IsRepG0IInv == ASSUME IInv, IsRepG0 PROVE IInv'
  <1>1. PICK b \in Bit : Goes(IF b = 0 THEN "is_rep_0long" ELSE "is_rep_g1")
    BY DEF IsRepG0
  <1>2. rep' = rep /\ rep \in [1..4 -> Nat] /\ ~ended
    BY DEF IsRepG0, IInv, TypeOK, Over
  <1>3. CASE b = 0
    BY <1>1, <1>2, <1>3, GoesIInv DEF IsRepG0
  <1>4. CASE b = 1
    BY <1>1, <1>2, <1>4, GoesIInv DEF IsRepG0
  <1> QED BY <1>3, <1>4 DEF Bit

\* The LRU is only reordered.
LEMMA ToFrontReorders ==
    ASSUME rep \in [1..4 -> Nat], NEW idx \in 1..3
    PROVE  /\ ToFront(idx) \in [1..4 -> Nat]
           /\ \A i \in 1..4 : \E j \in 1..4 : ToFront(idx)[i] = rep[j]
  BY DEF ToFront

LEMMA IsRepG1IInv == ASSUME IInv, IsRepG1 PROVE IInv'
  <1>1. PICK b \in Bit : /\ Goes(IF b = 0 THEN "rep_len" ELSE "is_rep_g2")
                        /\ rep' = IF b = 0 /\ update THEN ToFront(1) ELSE rep
    BY DEF IsRepG1
  <1>2. rep \in [1..4 -> Nat] /\ ~ended
    BY DEF IsRepG1, IInv, TypeOK, Over
  <1>3. /\ rep' \in [1..4 -> Nat]
        /\ \A i \in 1..4 : \E j \in 1..4 : rep'[i] = rep[j]
    BY <1>1, <1>2, ToFrontReorders
  <1>4. CASE b = 0
    BY <1>1, <1>2, <1>3, <1>4, GoesIInv DEF IsRepG1
  <1>5. CASE b = 1
    BY <1>1, <1>2, <1>3, <1>5, GoesIInv DEF IsRepG1
  <1> QED BY <1>4, <1>5 DEF Bit

LEMMA IsRepG2IInv == ASSUME IInv, IsRepG2 PROVE IInv'
  <1>1. PICK b \in Bit : /\ Goes("rep_len")
                        /\ rep' = IF update THEN ToFront(2 + b) ELSE rep
    BY DEF IsRepG2
  <1>2. rep \in [1..4 -> Nat] /\ ~ended /\ 2 + b \in 1..3
    BY DEF IsRepG2, IInv, TypeOK, Over, Bit
  <1>3. /\ rep' \in [1..4 -> Nat]
        /\ \A i \in 1..4 : \E j \in 1..4 : rep'[i] = rep[j]
    BY <1>1, <1>2, ToFrontReorders
  <1> QED BY <1>1, <1>2, <1>3, GoesIInv DEF IsRepG2

\* The next history, and what state must be to mean it.
LEMMA LatestKinds ==
    ASSUME hist \in [1..4 -> Kinds], NEW kind \in Kinds
    PROVE  Latest(kind) \in [1..4 -> Kinds]
  BY DEF Latest

\* A literal or a match whose distance the window serves is appended.
LEMMA AppendsIInv ==
    ASSUME IInv, update, pc # "idle", ~ended,
           NEW n \in Nat \ {0}, NEW kind \in Kinds,
           len + n <= Len(text), Appends(n, kind),
           UNCHANGED <<text, length>>,
           state' \in 0..11, rep' \in [1..4 -> Nat],
           len' = len + n => state' = Meaning(Latest(kind)),
           \A i \in 1..4 : rep'[i] = rep[i] \/ (rep'[i] + 1 <= DictSize /\ rep'[i] + 1 <= len)
    PROVE  IInv'
  <1>1. /\ len \in 0..Len(text) /\ length \in Nat /\ hist \in [1..4 -> Kinds]
        /\ status = "open"
    BY DEF IInv, TypeOK, Over, Kinds
  <1>2. CASE Fails("window") /\ UNCHANGED <<len, hist>>
    BY <1>1, <1>2, FailsIInv DEF Fails
  <1>3. CASE len' = len + n /\ hist' = Latest(kind) /\ Succeeds
    <2>1. TypeOK'
      <3>1. hist' \in [1..4 -> Kinds]
        BY <1>1, <1>3, LatestKinds
      <3>2. len' \in 0..Len(text)
        BY <1>1, <1>3, WindowAssumption
      <3> QED BY <1>3, <3>1, <3>2 DEF IInv, TypeOK, Succeeds, Kinds
    <2>2. ~Midway' /\ Going /\ Going' /\ len' > 0
      BY <1>1, <1>3 DEF Midway, Going, Succeeds
    <2>3. Meaning(hist)' = Meaning(Latest(kind))
      BY <1>3 DEF Meaning
    <2>4. StateRight'
      BY <1>3, <2>2, <2>3 DEF StateRight
    <2>5. RepsRight'
      <3>1. SUFFICES ASSUME ~stale, NEW i \in 1..4 PROVE Served(i)' \/ Unset(i)'
        BY <1>3, <2>2 DEF RepsRight, Succeeds
      <3>2. CASE rep'[i] = rep[i]
        <4>1. Served(i) \/ Unset(i)
          BY <2>2, <3>1 DEF IInv, RepsRight
        <4>2. rep[i] \in Nat /\ len \in Nat /\ DictSize \in Nat \ {0}
          BY <1>1, WindowAssumption DEF IInv, TypeOK
        <4>3. CASE Served(i)
          BY <1>3, <3>2, <4>2, <4>3 DEF Served
        <4>4. CASE Unset(i)
          BY <1>3, <3>2, <4>2, <4>4 DEF Served, Unset
        <4> QED BY <4>1, <4>3, <4>4
      <3>3. CASE rep'[i] + 1 <= DictSize /\ rep'[i] + 1 <= len
        BY <1>1, <1>3, <3>3, WindowAssumption DEF Served
      <3> QED BY <3>2, <3>3
    <2>6. Over'
      BY <1>3, <2>2 DEF Over, Succeeds
    <2> QED BY <2>1, <2>4, <2>5, <2>6 DEF IInv
  <1> QED BY <1>2, <1>3 DEF Appends

\* A match at the new first distance is copied, or fails on its distance.
LEMMA CopiesIInv ==
    ASSUME IInv, update, pc # "idle", ~ended,
           NEW n \in Nat \ {0}, NEW kind \in Kinds,
           Spelt(n, rep'[1] + 1), Copies(n, rep'[1] + 1, kind),
           UNCHANGED <<text, length>>,
           state' \in 0..11, state' = Meaning(Latest(kind)),
           rep' \in [1..4 -> Nat], \A i \in 2..4 : rep'[i] = rep[i]
    PROVE  IInv'
  <1>1. CASE TooFar(rep'[1] + 1)
    <2>1. Fails("distance") /\ UNCHANGED <<len, hist>>
      BY <1>1 DEF Copies
    <2>2. length' \in Nat
      BY DEF IInv, TypeOK
    <2> QED BY <2>1, <2>2, FailsIInv DEF Fails
  <1>2. CASE ~TooFar(rep'[1] + 1)
    <2>1. len + n <= Len(text) /\ Appends(n, kind)
      BY <1>2 DEF Copies, Spelt
    <2>2. rep'[1] + 1 <= DictSize /\ rep'[1] + 1 <= len
      BY <1>2, WindowAssumption DEF TooFar, IInv, TypeOK
    <2>3. \A i \in 1..4 : rep'[i] = rep[i]
                          \/ (rep'[i] + 1 <= DictSize /\ rep'[i] + 1 <= len)
      BY <2>2
    <2> QED BY <2>1, <2>3, AppendsIInv
  <1> QED BY <1>1, <1>2

LEMMA LiteralIInv == ASSUME IInv, Literal PROVE IInv'
  <1>1. /\ pc = "literal" /\ rep' = rep /\ text' = text /\ length' = length
        /\ rep \in [1..4 -> Nat] /\ length \in Nat /\ state \in 0..11
        /\ len \in 0..Len(text) /\ told \in BOOLEAN /\ hist \in [1..4 -> Kinds]
    BY DEF Literal, IInv, TypeOK, Kinds
  <1>2. CASE Fails("distance") /\ UNCHANGED <<state, len, trace, hist>>
    <2>1. CASE update
      BY <1>1, <1>2, <2>1, FailsIInv DEF Fails
    <2>2. CASE ~update
      BY <1>1, <1>2, <2>2, DryEndIInv DEF Fails
    <2> QED BY <2>1, <2>2
  <1>3. CASE ~update /\ Succeeds /\ UNCHANGED <<state, len, hist>>
    BY <1>1, <1>3, DryEndIInv DEF Succeeds
  <1>4. CASE /\ ~(state >= 7 /\ TooFar(rep[1] + 1)) /\ len < Len(text)
             /\ update /\ Appends(1, "lit")
             /\ state' = IF len' = len THEN state ELSE AfterLiteral
    <2>1. ~ended
      <3>1. ended => rep[1] = Marker /\ state >= 7
        BY DEF IInv, Over
      <3>2. Marker \in Nat /\ DictSize \in Nat /\ DictSize <= Marker
        BY MarkerAssumption, WindowAssumption
      <3> QED BY <1>4, <3>1, <3>2 DEF TooFar
    <2>2. state = Meaning(hist)
      BY <1>1, <2>1 DEF IInv, StateRight, Over, Going, Midway
    <2>3. Meaning(Latest("lit")) = AfterLiteral
      BY <1>1, <2>2, MeaningAfterLiteral DEF Latest, AfterLiteral
    <2>4. AfterLiteral \in 0..11
      BY <1>1 DEF AfterLiteral
    <2>5. state' \in 0..11 /\ (len' = len + 1 => state' = Meaning(Latest("lit")))
      BY <1>1, <1>4, <2>3, <2>4
    <2>6. len + 1 <= Len(text)
      BY <1>1, <1>4, WindowAssumption
    <2> QED BY <1>1, <1>4, <2>1, <2>5, <2>6, AppendsIInv DEF Kinds
  <1> QED BY <1>2, <1>3, <1>4 DEF Literal

\* The jump of a match, of a kind that is the last.
LEMMA JumpOfMatch ==
    ASSUME IInv, pc \notin {"idle", "distance"}, ~ended
    PROVE  /\ Meaning(Latest("match")) = AfterMatch
           /\ Meaning(Latest("rep")) = AfterRep
           /\ Meaning(Latest("shortrep")) = AfterShortRep
           /\ {AfterMatch, AfterRep, AfterShortRep} \subseteq 7..11
  <1>1. state = Meaning(hist) /\ hist \in [1..4 -> Kinds]
    BY DEF IInv, TypeOK, StateRight, Over, Going, Midway, Kinds
  <1>2. Meaning(Latest("match")) = AfterMatch
    BY <1>1, MeaningAfterMatch DEF Latest, AfterMatch, Kinds
  <1>3. Meaning(Latest("rep")) = AfterRep
    BY <1>1, MeaningAfterMatch DEF Latest, AfterRep, Kinds
  <1>4. Meaning(Latest("shortrep")) = AfterShortRep
    BY <1>1, MeaningAfterMatch DEF Latest, AfterShortRep, Kinds
  <1> QED BY <1>2, <1>3, <1>4 DEF AfterMatch, AfterRep, AfterShortRep

LEMMA IsRep0LongIInv == ASSUME IInv, IsRep0Long PROVE IInv'
  <1>1. /\ pc = "is_rep_0long" /\ rep' = rep /\ text' = text /\ length' = length
        /\ rep \in [1..4 -> Nat] /\ length \in Nat /\ told \in BOOLEAN /\ ~ended
    BY DEF IsRep0Long, IInv, TypeOK, Over
  <1>2. CASE Goes("rep_len") /\ UNCHANGED <<state, len, hist>>
    BY <1>1, <1>2, GoesIInv
  <1>3. CASE ~update /\ Succeeds /\ UNCHANGED <<state, len, hist>>
    BY <1>1, <1>3, DryEndIInv DEF Succeeds
  <1>4. CASE /\ update /\ Spelt(1, rep[1] + 1)
             /\ state' = AfterShortRep /\ Copies(1, rep[1] + 1, "shortrep")
    <2>1. state' = Meaning(Latest("shortrep")) /\ state' \in 0..11
      BY <1>1, <1>4, JumpOfMatch
    <2> QED BY <1>1, <1>4, <2>1, CopiesIInv DEF Kinds
  <1> QED BY <1>2, <1>3, <1>4 DEF IsRep0Long

LEMMA RepLenIInv == ASSUME IInv, RepLen PROVE IInv'
  <1>1. /\ pc = "rep_len" /\ rep' = rep /\ text' = text /\ length' = length
        /\ rep \in [1..4 -> Nat] /\ length \in Nat /\ told \in BOOLEAN /\ ~ended
    BY DEF RepLen, IInv, TypeOK, Over
  <1>2. PICK n \in 0..MaxLength :
            /\ Spelt(n + 2, rep[1] + 1)
            /\ IF update
               THEN state' = AfterRep /\ Copies(n + 2, rep[1] + 1, "rep")
               ELSE Succeeds /\ UNCHANGED <<state, len, hist>>
    BY DEF RepLen
  <1>3. CASE ~update
    BY <1>1, <1>2, <1>3, DryEndIInv DEF Succeeds
  <1>4. CASE update
    <2>1. state' = Meaning(Latest("rep")) /\ state' \in 0..11
      BY <1>1, <1>2, <1>4, JumpOfMatch
    <2>2. n + 2 \in Nat \ {0}
      OBVIOUS
    <2> QED BY <1>1, <1>2, <1>4, <2>1, <2>2, CopiesIInv DEF Kinds
  <1> QED BY <1>3, <1>4

\* The length of a new match is read, and the state jumps.
LEMMA NewLenIInv == ASSUME IInv, NewLen PROVE IInv'
  <1>1. /\ pc = "len" /\ UNCHANGED <<text, rep, len, hist>> /\ Goes("distance")
        /\ ~ended /\ status = "open"
    BY DEF NewLen, IInv, Over
  <1>2. length' \in Nat
    <2>1. PICK n \in 0..MaxLength : length' = n
      BY DEF NewLen
    <2> QED BY <2>1
  <1>3. state' = IF update THEN AfterMatch ELSE state
    BY DEF NewLen
  <1>4. AfterMatch \in 7..11 /\ AfterMatch = Meaning(Latest("match"))
    BY <1>1, JumpOfMatch
  <1>5. TypeOK'
    BY <1>1, <1>2, <1>3, <1>4 DEF IInv, TypeOK, Goes
  <1>6. (Midway' <=> update) /\ ~Midway
    BY <1>1 DEF Midway, update, Goes
  <1>7. Meaning(hist)' = Meaning(hist) /\ Meaning(Latest("match"))' = Meaning(Latest("match"))
    BY <1>1 DEF Meaning, Latest
  <1>8. StateRight'
    BY <1>1, <1>3, <1>4, <1>6, <1>7 DEF IInv, StateRight, Going, Goes
  <1>9. RepsRight'
    BY <1>1, <1>3, <1>6 DEF IInv, RepsRight, Going, Goes, Served, Unset
  <1>10. Over'
    BY <1>1, <1>3, <1>4, <1>6 DEF Over, Goes
  <1> QED BY <1>5, <1>8, <1>9, <1>10 DEF IInv

LEMMA DistanceIInv == ASSUME IInv, Distance PROVE IInv'
  <1>1. /\ pc = "distance" /\ UNCHANGED <<text, state, length>>
        /\ rep \in [1..4 -> Nat] /\ length \in Nat /\ told \in BOOLEAN /\ ~ended
        /\ state \in 0..11 /\ status = "open"
    BY DEF Distance, IInv, TypeOK, Over
  <1>2. PICK dist \in 0..(Marker - 1) :
            /\ Spelt(length + 2, dist + 1)
            /\ rep' = IF update THEN [rep EXCEPT ![1] = dist] ELSE rep
            /\ IF update THEN Copies(length + 2, dist + 1, "match")
                         ELSE Succeeds /\ UNCHANGED <<len, hist>>
    BY DEF Distance
  <1>3. CASE ~update
    BY <1>1, <1>2, <1>3, DryEndIInv DEF Succeeds
  <1>4. CASE update
    <2>1. dist \in Nat
      BY MarkerAssumption
    <2>2. /\ rep' \in [1..4 -> Nat] /\ rep'[1] = dist
          /\ \A i \in 2..4 : rep'[i] = rep[i]
      BY <1>1, <1>2, <1>4, <2>1
    <2>3. state' = Meaning(Latest("match"))
      BY <1>1, <1>4 DEF IInv, StateRight, Going, Midway, update
    <2>4. length + 2 \in Nat \ {0}
      BY <1>1
    <2> QED BY <1>1, <1>2, <1>4, <2>2, <2>3, <2>4, CopiesIInv DEF Kinds
  <1> QED BY <1>3, <1>4

LEMMA EndMarkerIInv == ASSUME IInv, EndMarker PROVE IInv'
  <1>1. /\ pc = "distance" /\ UNCHANGED <<text, state, len, length>>
        /\ rep \in [1..4 -> Nat] /\ length \in Nat /\ told \in BOOLEAN /\ ~ended
        /\ state \in 0..11 /\ status = "open"
        /\ hist' = IF update THEN Latest("match") ELSE hist
        /\ rep' = IF update THEN [rep EXCEPT ![1] = Marker] ELSE rep
    BY DEF EndMarker, IInv, TypeOK, Over
  <1>2. update => rep' \in [1..4 -> Nat] /\ rep'[1] = Marker
    BY <1>1, MarkerAssumption
  <1>3. update => hist' \in [1..4 -> Kinds] /\ hist' = Latest("match")
    BY <1>1, LatestKinds DEF IInv, TypeOK, Kinds
  <1>4. CASE ~update /\ Succeeds
    BY <1>1, <1>4, DryEndIInv DEF Succeeds
  <1>5. CASE update /\ Fails("marker")
    <2>1. TypeOK'
      BY <1>1, <1>2, <1>5, <1>3 DEF IInv, TypeOK, Fails, Kinds
    <2> QED BY <1>1, <1>5, <2>1 DEF IInv, StateRight, RepsRight, Over, Going, Midway, Fails
  <1>6. CASE /\ update /\ ended' = TRUE /\ pc' = "idle"
             /\ UNCHANGED <<mode, foreseen, told, stale, status>>
    <2>1. TypeOK'
      BY <1>1, <1>2, <1>6, <1>3 DEF IInv, TypeOK, Kinds
    <2>2. ~Going' /\ ~Midway'
      BY <1>6 DEF Going, Midway
    <2>3. state >= 7
      BY <1>1, <1>6 DEF IInv, Over, Midway, update
    <2>4. StateRight'
      <3>1. state = Meaning(Latest("match"))
        BY <1>1, <1>6 DEF IInv, StateRight, Midway, update
      <3>2. Meaning(hist)' = Meaning(Latest("match"))
        BY <1>6, <1>3 DEF Meaning
      <3> QED BY <1>1, <2>2, <3>1, <3>2 DEF StateRight
    <2> QED BY <1>1, <1>2, <1>6, <2>1, <2>2, <2>3, <2>4
            DEF IInv, RepsRight, Over
  <1> QED BY <1>4, <1>5, <1>6 DEF EndMarker

-----------------------------------------------------------------------------
(* The invariant is inductive *)

LEMMA StepIInv == IInv /\ [Next]_vars => IInv'
  <1> SUFFICES ASSUME IInv, [Next]_vars PROVE IInv'
    OBVIOUS
  <1>1. CASE Try
    BY <1>1, BeginsIInv DEF Try
  <1>2. CASE Process
    <2>1. (mode = "try" /\ told) \in BOOLEAN
      OBVIOUS
    <2> QED BY <1>2, <2>1, BeginsIInv DEF Process
  <1>3. CASE Short        BY <1>3, ShortIInv
  <1>4. CASE \E reset_dict \in BOOLEAN :
                ResetState(reset_dict) \/ \E n \in 1..Len(text) : Uncompressed(n, reset_dict)
    <2>1. Len(text) \in Nat
      BY DEF IInv, TypeOK
    <2>2. PICK reset_dict \in BOOLEAN :
              ResetState(reset_dict) \/ \E n \in 1..Len(text) : Uncompressed(n, reset_dict)
      BY <1>4
    <2>3. ASSUME NEW n \in 1..Len(text), Uncompressed(n, reset_dict) PROVE IInv'
      <3>1. n \in Nat \ {0}
        BY <2>1
      <3> QED BY <2>3, <3>1, UncompressedIInv
    <2> QED BY <2>2, <2>3, ResetIInv
  <1>17. CASE Decompress  BY <1>17, DecompressIInv
  <1>5. CASE IsMatch      BY <1>5, IsMatchIInv
  <1>6. CASE Literal      BY <1>6, LiteralIInv
  <1>7. CASE IsRep        BY <1>7, IsRepIInv
  <1>8. CASE IsRepG0      BY <1>8, IsRepG0IInv
  <1>9. CASE IsRep0Long   BY <1>9, IsRep0LongIInv
  <1>10. CASE IsRepG1     BY <1>10, IsRepG1IInv
  <1>11. CASE IsRepG2     BY <1>11, IsRepG2IInv
  <1>12. CASE RepLen      BY <1>12, RepLenIInv
  <1>13. CASE NewLen      BY <1>13, NewLenIInv
  <1>14. CASE Distance    BY <1>14, DistanceIInv
  <1>15. CASE EndMarker   BY <1>15, EndMarkerIInv
  <1>16. CASE UNCHANGED vars
    <2>1. UNCHANGED <<text, state, rep, len, stale, ended, status, hist, mode, pc, length, told>>
      BY <1>16 DEF vars, run
    <2> QED BY <2>1 DEF IInv, TypeOK, StateRight, RepsRight, Over, Going, Midway,
                        Served, Unset, Meaning, Latest
  <1> QED
    BY <1>1, <1>2, <1>3, <1>4, <1>5, <1>6, <1>7, <1>8, <1>9, <1>10, <1>11,
       <1>12, <1>13, <1>14, <1>15, <1>16, <1>17 DEF Next

\* The invariant holds in every state: process_next_inner, reset_state, what
\* LZMA2 does to the window and what a raw decoder's next input does keep it, and a dry run, whatever it meets, leaves it alone.
THEOREM Inductive == Spec => []IInv
  BY InitIInv, StepIInv, PTL DEF Spec

\* The variables of the decoder keep their types; state stays an index of the
\* twelve rows of is_match, is_rep and the others (process_next_inner).
THEOREM TypeCorrect == Spec => []TypeOK
  <1>1. IInv => TypeOK
    BY DEF IInv
  <1> QED BY Inductive, <1>1, PTL

\* Between two symbols, the jumps of state in process_next_inner have kept in
\* it what the format defines it to be, after any number of symbols and dry
\* runs.
THEOREM StateIsMeaning == Spec => []StateMeaning
  <1>1. IInv => StateMeaning
    BY DEF IInv, StateRight, StateMeaning, Going, Midway
  <1> QED BY Inductive, <1>1, PTL

\* Between two symbols, every distance of the LRU in DecoderState.rep is one
\* append_lz would accept, or nothing was output yet; and in a state that
\* follows a match there is output, so that last_n in decode_literal answers.
\* This holds until the window is emptied with the state kept (a dictionary
\* reset in front of uncompressed LZMA2 data, a raw decoder's next input), and
\* again once the state is reset.
THEOREM RepsAlwaysServed == Spec => []RepsServed
  <1>1. IInv => RepsServed
    <2>1. SUFFICES ASSUME IInv, pc = "idle", Going, ~stale PROVE
                     /\ \A i \in 1..4 : Served(i) \/ Unset(i)
                     /\ state >= 7 => Served(1)
      BY DEF RepsServed, Going
    <2>2. \A i \in 1..4 : Served(i) \/ Unset(i)
      BY <2>1 DEF IInv, RepsRight
    <2>3. state >= 7 => len > 0
      BY <2>1 DEF IInv, RepsRight, Midway
    <2>4. len \in Nat
      BY <2>1, WindowAssumption DEF IInv, TypeOK
    <2> QED BY <2>2, <2>3, <2>4 DEF Unset
  <1> QED BY Inductive, <1>1, PTL

\* After the end marker nothing is decoded: the distance it leaves in rep[0]
\* makes the literal of every state it leaves fail (decode_literal), and code
\* is 0, which decodes no other symbol.  Only a reset of the state or another
\* input goes on from there, at most with an empty window.
THEOREM MarkerLast == Spec => MarkerIsLast
  <1>1. IInv /\ [Next]_vars => [ended => len' \in {0, len}]_vars
    <2>1. SUFFICES ASSUME IInv, Next, ended PROVE len' \in {0, len}
      BY DEF vars
    <2>2. rep[1] = Marker /\ state >= 7 /\ pc \in {"idle", "is_match", "literal"}
      BY <2>1 DEF IInv, Over
    <2>3. TooFar(rep[1] + 1)
      BY <2>2, MarkerAssumption, WindowAssumption DEF TooFar
    <2>4. CASE Literal
      BY <2>2, <2>3, <2>4 DEF Literal
    <2>5. CASE Decompress \/ \E reset_dict \in BOOLEAN : ResetState(reset_dict)
      <3>1. len \in Nat
        BY <2>1 DEF IInv, TypeOK
      <3> QED BY <2>5, <3>1 DEF Decompress, ResetState, Receives
    <2>6. CASE ~Literal /\ ~(Decompress \/ \E reset_dict \in BOOLEAN : ResetState(reset_dict))
      BY <2>1, <2>2, <2>6 DEF Next, Try, Process, Begins, Short, Uncompressed, IsMatch,
         IsRep, IsRepG0, IsRep0Long, IsRepG1, IsRepG2, RepLen, NewLen, Distance, EndMarker
    <2> QED BY <2>4, <2>5, <2>6
  <1> QED BY Inductive, <1>1, PTL DEF Spec, MarkerIsLast

-----------------------------------------------------------------------------
(* What is read in a tree *)

\* The nodes of a tree on the way that bits choose.
LEMMA NodesAre ==
    ASSUME NEW n \in Nat, NEW s \in Bits(n)
    PROVE  /\ s \in Seq(Bit) /\ Len(s) = n
           /\ Nodes(s) \in [0..n -> Nat \ {0}] /\ Nodes(s)[0] = 1
           /\ \A i \in 1..n : Nodes(s)[i] = 2 * Nodes(s)[i - 1] + s[i]
  <1> DEFINE Is(f) == f = [i \in 0..n |-> IF i = 0 THEN 1 ELSE 2 * f[i - 1] + s[i]]
             f == CHOOSE g : Is(g)
             step == [p \in (Nat \ {0}) \X (1..n) |-> 2 * p[1] + s[p[2]]]
  <1>0. s \in Seq(Bit) /\ Len(s) = n /\ \A i \in 1..n : s[i] \in {0, 1}
    BY DEF Bits, Bit
  <1>1. step \in [(Nat \ {0}) \X (1..n) -> Nat \ {0}] /\ 1 \in Nat \ {0}
    <2>1. \A p \in (Nat \ {0}) \X (1..n) : 2 * p[1] + s[p[2]] \in Nat \ {0}
      BY <1>0
    <2> QED BY <2>1
  <1>2. \A x \in Nat \ {0}, i \in 1..n : step[<<x, i>>] = 2 * x + s[i]
    OBVIOUS
  <1> HIDE DEF step
  <1>3. PICK g \in [0..n -> Nat \ {0}] :
            g[0] = 1 /\ \A i \in 1..n : g[i] = step[<<g[i - 1], i>>]
    <2>1. Steps(Nat \ {0}, 1, step, n) # {}
      BY <1>1, StepByStep
    <2> QED
      BY <2>1 DEF Steps
  <1>4. /\ 0 \in 0..n /\ \A i \in 0..n : i # 0 => i \in 1..n
        /\ \A i \in 1..n : i \in 0..n /\ i # 0 /\ i - 1 \in 0..n
    OBVIOUS
  <1>5. \A i \in 1..n : g[i] = 2 * g[i - 1] + s[i]
    BY <1>2, <1>3, <1>4
  <1>6. g = [i \in 0..n |-> IF i = 0 THEN 1 ELSE 2 * g[i - 1] + s[i]]
    BY <1>3, <1>4, <1>5
  <1>7. Is(f)
    BY <1>6, Zenon
  <1>8. Nodes(s) = f
    BY <1>0, Zenon DEF Nodes
  <1> HIDE DEF f
  <1>9. f[0] = 1 /\ \A i \in 1..n : f[i] = 2 * f[i - 1] + s[i]
    BY <1>4, <1>7
  <1>10. \A i \in 0..n : f[i] = g[i]
    <2>1. f[0] = g[0]
      BY <1>3, <1>9
    <2>2. \A i \in 1..n : f[i - 1] = g[i - 1] => f[i] = g[i]
      BY <1>5, <1>9
    <2> DEFINE P == {i \in 0..n : f[i] = g[i]}
    <2>3. 0 \in P /\ \A i \in 1..n : i - 1 \in P => i \in P
      BY <1>4, <2>1, <2>2
    <2>4. \A i \in P : f[i] = g[i]
      OBVIOUS
    <2> HIDE DEF P
    <2> QED
      BY <2>3, <2>4, InductionUpTo
  <1>11. f \in [0..n -> Nat \ {0}]
    <2>1. f = [i \in 0..n |-> f[i]]
      BY <1>7
    <2> QED BY <2>1, <1>10
  <1> QED
    BY <1>0, <1>8, <1>9, <1>11

\* Every node comes later than the ones before it.
LEMMA NodesGrow ==
    ASSUME NEW n \in Nat, NEW s \in Bits(n), NEW i \in 0..n, NEW j \in 0..n, i < j
    PROVE  Nodes(s)[i] < Nodes(s)[j]
  <1>1. /\ \A k \in 0..n : Nodes(s)[k] \in Nat \ {0}
        /\ \A k \in 1..n : Nodes(s)[k] = 2 * Nodes(s)[k - 1] + s[k] /\ s[k] \in {0, 1}
    BY NodesAre DEF Bits, Bit
  <1> DEFINE node(k) == Nodes(s)[k]
             P == {k \in 0..(j - i - 1) : node(i) < node(i + 1 + k)}
  <1>2. \A k \in 1..n : node(k - 1) \in Nat \ {0} /\ node(k) \in Nat /\ node(k - 1) < node(k)
    <2> TAKE k \in 1..n
    <2>1. k - 1 \in 0..n /\ k \in 0..n
      OBVIOUS
    <2> QED BY <1>1, <2>1
  <1> HIDE DEF node
  <1>3. j - i - 1 \in Nat
    OBVIOUS
  <1>4. 0 \in P
    <2>1. i + 1 \in 1..n /\ (i + 1) - 1 = i
      OBVIOUS
    <2> QED BY <1>2, <1>3, <2>1
  <1>5. ASSUME NEW k \in 1..(j - i - 1), k - 1 \in P PROVE k \in P
    <2>1. i + 1 + k \in 1..n /\ i + 1 + (k - 1) = (i + 1 + k) - 1 /\ i + 1 \in 1..n /\ (i + 1) - 1 = i
      OBVIOUS
    <2>2. node(i) < node((i + 1 + k) - 1) /\ node((i + 1 + k) - 1) < node(i + 1 + k)
      BY <1>2, <1>5, <2>1
    <2>3. node(i) \in Nat /\ node((i + 1 + k) - 1) \in Nat /\ node(i + 1 + k) \in Nat
      BY <1>2, <2>1
    <2> QED BY <1>5, <2>2, <2>3
  <1>6. \A k \in P : node(i) < node(i + 1 + k)
    OBVIOUS
  <1> HIDE DEF P
  <1>7. j - i - 1 \in P
    BY <1>3, <1>4, <1>5, InductionUpTo
  <1>8. i + 1 + (j - i - 1) = j
    OBVIOUS
  <1> QED BY <1>6, <1>7, <1>8 DEF node

\* Ways that have the same bits so far are at the same node.
LEMMA NodesAgree ==
    ASSUME NEW n \in Nat, NEW s \in Bits(n), NEW t \in Bits(n), NEW k \in 0..n,
           \A j \in 1..k : s[j] = t[j]
    PROVE  Nodes(s)[k] = Nodes(t)[k]
  <1>1. /\ Nodes(s)[0] = 1 /\ \A i \in 1..n : Nodes(s)[i] = 2 * Nodes(s)[i - 1] + s[i]
        /\ Nodes(t)[0] = 1 /\ \A i \in 1..n : Nodes(t)[i] = 2 * Nodes(t)[i - 1] + t[i]
    BY NodesAre
  <1> DEFINE f == Nodes(s)
             g == Nodes(t)
  <1>2. f[0] = g[0] /\ \A i \in 1..k : f[i - 1] = g[i - 1] => f[i] = g[i]
    BY <1>1
  <1> HIDE DEF f, g
  <1>3. \A i \in 0..k : f[i] = g[i]
    BY <1>2, AgreeUpTo
  <1> QED BY <1>3 DEF f, g

-----------------------------------------------------------------------------
(* A run that follows a dry run *)

Arrays ==
    {"is_match", "is_rep", "is_rep_g0", "is_rep_0long", "is_rep_g1", "is_rep_g2",
     "literal_probs", "choice", "choice2", "low_coder", "mid_coder", "high_coder",
     "pos_slot_decoder", "pos_decoders", "direct", "align_decoder"}
Cells   == [of : {"lzma", "len", "rep_len"}, array : Arrays, at : Int]
Entries == [cell : Cells, bit : Bit]

\* Bits and the cells they are read in, as runs keep them.
Zip(c, s) == [i \in 1..Len(c) |-> [cell |-> c[i], bit |-> s[i]]]

\* Bits s with as many cells c, each of which is read once.
WellFormed(c, s) ==
    /\ c \in Seq(Cells) /\ s \in Seq(Bit) /\ Len(c) = Len(s)
    /\ \A i, j \in 1..Len(s) : i < j => c[i] # c[j]

\* As long as its bits are those of d and t, c and s go on in d's cells.
Branch(c, s, d, t) ==
    \A k \in 1..Len(t) :
        (\A j \in 1..(k - 1) : s[j] = t[j]) => k <= Len(s) /\ c[k] = d[k]

LEMMA FieldsAre ==
    ASSUME NEW e, NEW c, NEW b, e = [cell |-> c, bit |-> b]
    PROVE  e.cell = c /\ e.bit = b
  OBVIOUS

LEMMA JoinedIs ==
    ASSUME NEW S, NEW s \in Seq(S), NEW t \in Seq(S)
    PROVE  /\ s \o t \in Seq(S) /\ Len(s \o t) = Len(s) + Len(t)
           /\ Len(s) \in Nat /\ Len(t) \in Nat
           /\ \A i \in 1..Len(s) : (s \o t)[i] = s[i]
           /\ \A i \in 1..Len(t) : (s \o t)[Len(s) + i] = t[i]
  OBVIOUS

LEMMA ZipIs ==
    ASSUME NEW c, NEW s, WellFormed(c, s)
    PROVE  /\ Zip(c, s) \in Seq(Entries) /\ Len(Zip(c, s)) = Len(s) /\ Len(s) \in Nat
           /\ \A i \in 1..Len(s) : Zip(c, s)[i] = [cell |-> c[i], bit |-> s[i]]
  <1>1. /\ c \in Seq(Cells) /\ s \in Seq(Bit) /\ Len(c) = Len(s) /\ Len(s) \in Nat
        /\ \A i \in 1..Len(s) : c[i] \in Cells /\ s[i] \in Bit
    BY DEF WellFormed
  <1>2. \A i \in 1..Len(s) : [cell |-> c[i], bit |-> s[i]] \in Entries
    BY <1>1 DEF Entries
  <1>3. Zip(c, s) \in [1..Len(s) -> Entries]
    BY <1>1, <1>2 DEF Zip
  <1> QED
    BY <1>1, <1>3 DEF Zip

\* y, of m entries, is known up to n, and goes on with the a bits s in the cells
\* c; x goes on with the b bits t in d, and y determines it.
Follows(n, m, a, c, s, y, b, d, t, x) ==
    /\ n \in Nat /\ m \in Nat /\ a \in Nat /\ b \in Nat /\ m >= n + a
    /\ \A i \in 1..n : x[i] = y[i]
    /\ \A i \in 1..a : y[n + i] = [cell |-> c[i], bit |-> s[i]]
    /\ \A i \in 1..b : x[n + i] = [cell |-> d[i], bit |-> t[i]]
    /\ \A k \in 1..b : (\A j \in 1..(k - 1) : s[j] = t[j]) => k <= a /\ c[k] = d[k]
    /\ \A k \in 1..a : (\A j \in 1..(k - 1) : t[j] = s[j]) => k <= b
    /\ \A i \in 1..n, k \in 1..b : x[i].cell # d[k]
    /\ \A i, k \in 1..b : i < k => d[i] # d[k]
    /\ \A k \in 1..(n + b) :
           /\ k <= m
           /\ \A j \in 1..(k - 1) : x[j] = y[j] /\ x[j].cell # x[k].cell
           /\ x[k].cell = y[k].cell
           => x[k].bit = y[k].bit

LEMMA SameBits ==
    ASSUME NEW n, NEW m, NEW a, NEW c, NEW s, NEW y, NEW b, NEW d, NEW t, NEW x,
           Follows(n, m, a, c, s, y, b, d, t, x)
    PROVE  a = b /\ \A j \in 1..b : s[j] = t[j] /\ c[j] = d[j]
  <1> USE DEF Follows
  <1> DEFINE Same(j) == j <= a /\ s[j] = t[j] /\ c[j] = d[j]
             P == {k \in 0..b : \A j \in 1..k : Same(j)}
  <1>6. 0 \in P
    OBVIOUS
  <1>7. ASSUME NEW k \in 1..b, k - 1 \in P PROVE k \in P
    <2>1. \A j \in 1..(k - 1) : Same(j)
      BY <1>7
    <2>2. k <= a /\ c[k] = d[k]
      BY <2>1
    <2>3. k \in 1..a /\ n + k \in 1..(n + b) /\ n + k <= m
      BY <2>2
    <2>4. /\ x[n + k].cell = d[k] /\ x[n + k].bit = t[k]
          /\ y[n + k].cell = c[k] /\ y[n + k].bit = s[k]
      <3>1. x[n + k] = [cell |-> d[k], bit |-> t[k]]
        BY Zenon
      <3>2. y[n + k] = [cell |-> c[k], bit |-> s[k]]
        BY <2>3, Zenon
      <3> QED BY <3>1, <3>2, FieldsAre
    <2>5. ASSUME NEW j \in 1..(n + k - 1)
          PROVE  x[j] = y[j] /\ x[j].cell # x[n + k].cell
      <3>1. CASE j \in 1..n
        <4>1. x[j] = y[j] /\ x[j].cell # d[k]
          BY <3>1
        <4> QED BY <4>1, <2>4
      <3>2. CASE j \notin 1..n
        <4> DEFINE i == j - n
        <4>1. i \in 1..(k - 1) /\ n + i = j /\ i \in 1..b /\ i < k
          BY <3>2
        <4> HIDE DEF i
        <4>2. i \in 1..a /\ s[i] = t[i] /\ c[i] = d[i]
          BY <2>1, <4>1
        <4>3. x[n + i] = [cell |-> d[i], bit |-> t[i]] /\ y[n + i] = [cell |-> c[i], bit |-> s[i]]
          BY <4>1, <4>2
        <4>4. d[i] # d[k]
          BY <4>1
        <4> QED BY <4>1, <4>2, <4>3, <4>4, <2>4
      <3> QED BY <3>1, <3>2
    <2>6. x[n + k].bit = y[n + k].bit
      BY <2>2, <2>3, <2>4, <2>5
    <2>7. Same(k)
      BY <2>2, <2>4, <2>6
    <2>8. \A j \in 1..k : j \in 1..(k - 1) \/ j = k
      OBVIOUS
    <2> HIDE DEF Same
    <2> QED
      BY <2>1, <2>7, <2>8
  <1>8. \A k \in P : \A j \in 1..k : Same(j)
    OBVIOUS
  <1>9. b \in P
    <2> HIDE DEF P
    <2>1. 0..b \subseteq P
      BY <1>6, <1>7, InductionUpTo
    <2> QED BY <2>1
  <1>10. \A j \in 1..b : Same(j)
    BY <1>8, <1>9
  <1>11. a = b
    <2>1. CASE b > a
      <3>1. b \in 1..b
        BY <2>1
      <3> QED BY <1>10, <2>1, <3>1
    <2>2. CASE b < a
      <3> DEFINE k == b + 1
      <3>1. k \in 1..a /\ \A j \in 1..(k - 1) : t[j] = s[j]
        BY <1>10, <2>2
      <3>2. k <= b
        BY <3>1
      <3> QED BY <3>2
    <2> QED BY <2>1, <2>2
  <1> QED BY <1>10, <1>11

LEMMA JoinedTwice ==
    ASSUME NEW S, NEW p \in Seq(S), NEW z \in Seq(S), NEW q \in Seq(S)
    PROVE  /\ p \o (z \o q) \in Seq(S)
           /\ Len(p \o (z \o q)) = Len(p) + Len(z) + Len(q)
           /\ Len(p) \in Nat /\ Len(z) \in Nat /\ Len(q) \in Nat
           /\ \A i \in 1..Len(p) : (p \o (z \o q))[i] = p[i]
           /\ \A i \in 1..Len(z) : (p \o (z \o q))[Len(p) + i] = z[i]
  <1> DEFINE v == z \o q
  <1>1. /\ v \in Seq(S) /\ Len(v) = Len(z) + Len(q)
        /\ Len(z) \in Nat /\ Len(q) \in Nat
        /\ \A i \in 1..Len(z) : v[i] = z[i]
    BY JoinedIs
  <1> HIDE DEF v
  <1>a. v \in Seq(S)
    BY <1>1
  <1>2. /\ p \o v \in Seq(S) /\ Len(p \o v) = Len(p) + Len(v) /\ Len(p) \in Nat
        /\ \A i \in 1..Len(p) : (p \o v)[i] = p[i]
        /\ \A i \in 1..Len(v) : (p \o v)[Len(p) + i] = v[i]
    BY <1>a, JoinedIs
  <1>3. \A i \in 1..Len(z) : i \in 1..Len(v)
    BY <1>1
  <1>4. \A i \in 1..Len(z) : (p \o v)[Len(p) + i] = z[i]
    BY <1>1, <1>2, <1>3
  <1>5. Len(p \o v) = Len(p) + Len(z) + Len(q)
    BY <1>1, <1>2
  <1> QED BY <1>1, <1>2, <1>4, <1>5 DEF v

\* What is read in a run that goes on with c and s.
LEMMA SpelledOut ==
    ASSUME NEW c, NEW s, WellFormed(c, s), NEW p \in Seq(Entries), NEW q \in Seq(Entries)
    PROVE  LET y == p \o (Zip(c, s) \o q) IN
           /\ Len(y) = Len(p) + Len(s) + Len(q)
           /\ Len(p) \in Nat /\ Len(s) \in Nat /\ Len(q) \in Nat
           /\ \A i \in 1..Len(p) : y[i] = p[i]
           /\ \A i \in 1..Len(s) : y[Len(p) + i] = [cell |-> c[i], bit |-> s[i]]
  <1> DEFINE z == Zip(c, s)
  <1>1. z \in Seq(Entries) /\ Len(z) = Len(s)
    BY ZipIs
  <1>2. \A i \in 1..Len(s) : z[i] = [cell |-> c[i], bit |-> s[i]]
    BY ZipIs
  <1> HIDE DEF z
  <1> DEFINE y == p \o (z \o q)
  <1>3. /\ Len(y) = Len(p) + Len(z) + Len(q)
        /\ Len(p) \in Nat /\ Len(z) \in Nat /\ Len(q) \in Nat
        /\ \A i \in 1..Len(p) : y[i] = p[i]
        /\ \A i \in 1..Len(z) : y[Len(p) + i] = z[i]
    <2>1. z \in Seq(Entries)
      BY <1>1
    <2>2. \A Z \in Seq(Entries) :
            /\ Len(p \o (Z \o q)) = Len(p) + Len(Z) + Len(q)
            /\ Len(p) \in Nat /\ Len(Z) \in Nat /\ Len(q) \in Nat
            /\ \A i \in 1..Len(p) : (p \o (Z \o q))[i] = p[i]
            /\ \A i \in 1..Len(Z) : (p \o (Z \o q))[Len(p) + i] = Z[i]
      BY JoinedTwice
    <2> QED BY <2>1, <2>2
  <1> HIDE DEF y
  <1>4. \A i \in 1..Len(s) : y[Len(p) + i] = [cell |-> c[i], bit |-> s[i]]
    BY <1>1, <1>2, <1>3, Zenon
  <1> QED BY <1>1, <1>3, <1>4 DEF y, z

\* The same, if nothing follows.
LEMMA SpelledLast ==
    ASSUME NEW c, NEW s, WellFormed(c, s), NEW p \in Seq(Entries)
    PROVE  LET y == p \o (Zip(c, s) \o <<>>) IN
           /\ Len(y) = Len(p) + Len(s) + 0
           /\ \A i \in 1..Len(p) : y[i] = p[i]
           /\ \A i \in 1..Len(s) : y[Len(p) + i] = [cell |-> c[i], bit |-> s[i]]
  <1>1. ASSUME NEW q \in Seq(Entries)
        PROVE  LET y == p \o (Zip(c, s) \o q) IN
               /\ Len(y) = Len(p) + Len(s) + Len(q)
               /\ \A i \in 1..Len(p) : y[i] = p[i]
               /\ \A i \in 1..Len(s) : y[Len(p) + i] = [cell |-> c[i], bit |-> s[i]]
    BY SpelledOut
  <1>2. <<>> \in Seq(Entries) /\ Len(<<>>) = 0
    OBVIOUS
  <1> QED BY <1>1, <1>2, Zenon

\* What a dry run foresees, and the bits it determines.
Foretold(c, s, d, t, p, q) ==
    /\ WellFormed(c, s) /\ WellFormed(d, t) /\ Branch(c, s, d, t) /\ Branch(d, t, c, s)
    /\ p \in Seq(Entries) /\ q \in Seq(Entries)
    /\ foreseen = p \o (Zip(c, s) \o q) /\ Determined(p \o (Zip(d, t) \o <<>>))
    /\ \A i \in 1..Len(p), k \in 1..Len(t) : p[i].cell # d[k]

\* Bits that the dry run determines are those of the dry run, if they are read
\* from where it has read them.
LEMMA FollowsForeseen ==
    ASSUME NEW c, NEW s, NEW d, NEW t, NEW p, NEW q, Foretold(c, s, d, t, p, q)
    PROVE  s = t /\ c = d
  <1>0. /\ WellFormed(c, s) /\ WellFormed(d, t) /\ Branch(c, s, d, t) /\ Branch(d, t, c, s)
        /\ p \in Seq(Entries) /\ q \in Seq(Entries)
        /\ foreseen = p \o (Zip(c, s) \o q) /\ Determined(p \o (Zip(d, t) \o <<>>))
        /\ \A i \in 1..Len(p), k \in 1..Len(t) : p[i].cell # d[k]
    BY DEF Foretold
  <1> DEFINE n == Len(p)
             x == p \o (Zip(d, t) \o <<>>)
             y == p \o (Zip(c, s) \o q)
  <1>1. /\ s \in Seq(Bit) /\ t \in Seq(Bit) /\ c \in Seq(Cells) /\ d \in Seq(Cells)
        /\ Len(c) = Len(s) /\ Len(d) = Len(t)
        /\ Len(s) \in Nat /\ Len(t) \in Nat /\ n \in Nat /\ Len(q) \in Nat
        /\ \A i, j \in 1..Len(t) : i < j => d[i] # d[j]
    BY <1>0 DEF WellFormed
  <1>2. <<>> \in Seq(Entries) /\ Len(<<>>) = 0
    OBVIOUS
  <1>a. foreseen = y /\ Determined(x)
    BY <1>0
  <1>3. /\ Len(x) = n + Len(t) + 0
        /\ \A i \in 1..n : x[i] = p[i]
        /\ \A i \in 1..Len(t) : x[n + i] = [cell |-> d[i], bit |-> t[i]]
    BY <1>0, SpelledLast
  <1>4. /\ Len(y) = n + Len(s) + Len(q)
        /\ \A i \in 1..n : y[i] = p[i]
        /\ \A i \in 1..Len(s) : y[n + i] = [cell |-> c[i], bit |-> s[i]]
    BY <1>0, SpelledOut
  <1> HIDE DEF x, y
  <1>5. /\ \A k \in 1..Len(t) :
              (\A j \in 1..(k - 1) : s[j] = t[j]) => k <= Len(s) /\ c[k] = d[k]
        /\ \A k \in 1..Len(s) : (\A j \in 1..(k - 1) : t[j] = s[j]) => k <= Len(t)
    BY <1>0, Zenon DEF Branch
  <1>6. \A k \in 1..Len(x) :
            /\ k <= Len(y)
            /\ \A j \in 1..(k - 1) : x[j] = y[j] /\ x[j].cell # x[k].cell
            /\ x[k].cell = y[k].cell
            => x[k].bit = y[k].bit
    BY <1>a, Zenon DEF Determined
  <1>7. /\ \A i \in 1..n : x[i] = y[i]
        /\ \A i \in 1..n, k \in 1..Len(t) : x[i].cell # d[k]
    BY <1>0, <1>3, <1>4, Zenon
  <1>8. Len(x) = n + Len(t) /\ Len(y) \in Nat /\ Len(y) >= n + Len(s)
    <2> DEFINE lp == Len(p)  ls == Len(s)  lt == Len(t)  lq == Len(q)  lx == Len(x)  ly == Len(y)
    <2>1. /\ lp \in Nat /\ ls \in Nat /\ lt \in Nat /\ lq \in Nat
          /\ lx = lp + lt + 0 /\ ly = lp + ls + lq
      BY <1>1, <1>3, <1>4, Zenon
    <2> HIDE DEF lp, ls, lt, lq, lx, ly
    <2>2. lx = lp + lt /\ ly \in Nat /\ ly >= lp + ls
      BY <2>1
    <2> QED BY <2>2 DEF lp, ls, lt, lq, lx, ly
  <1>9. \A k \in 1..(n + Len(t)) :
            /\ k <= Len(y)
            /\ \A j \in 1..(k - 1) : x[j] = y[j] /\ x[j].cell # x[k].cell
            /\ x[k].cell = y[k].cell
            => x[k].bit = y[k].bit
    BY <1>6, <1>8, Zenon
  <1> HIDE DEF n
  <1>10. Len(s) = Len(t) /\ \A j \in 1..Len(t) : s[j] = t[j] /\ c[j] = d[j]
    <2>1. Follows(n, Len(y), Len(s), c, s, y, Len(t), d, t, x)
      BY <1>1, <1>3, <1>4, <1>5, <1>7, <1>8, <1>9 DEF Follows
    <2> QED BY <2>1, SameBits
  <1> QED BY <1>1, <1>10, SeqEqual, Zenon

\* A bit tree is read in cells of its own, and each choice leads to the next.
LEMMA TreeIsWellFormed ==
    ASSUME NEW n \in Nat, NEW s \in Bits(n), NEW root \in Cells
    PROVE  /\ WellFormed(TreeCells(root, s), s) /\ Len(s) = n
           /\ \A i \in 1..n : /\ TreeCells(root, s)[i].of = root.of
                              /\ TreeCells(root, s)[i].array = root.array
  <1> DEFINE node(i) == Nodes(s)[i]
             cell(i) == [root EXCEPT !.at = @ + node(i - 1)]
  <1>1. s \in Seq(Bit) /\ Len(s) = n /\ \A i \in 0..n : node(i) \in Nat
    BY NodesAre
  <1>2. \A i \in 1..n, j \in 1..n : i < j => node(i - 1) < node(j - 1)
    <2> TAKE i \in 1..n, j \in 1..n
    <2>1. i - 1 \in 0..n /\ j - 1 \in 0..n
      OBVIOUS
    <2> QED BY <2>1, NodesGrow
  <1>3. TreeCells(root, s) = [i \in 1..n |-> cell(i)]
    BY <1>1 DEF TreeCells
  <1> HIDE DEF node
  <1>4. \A i \in 1..n : /\ cell(i) \in Cells /\ cell(i).of = root.of
                        /\ cell(i).array = root.array /\ cell(i).at = root.at + node(i - 1)
    <2> TAKE i \in 1..n
    <2>1. i - 1 \in 0..n
      OBVIOUS
    <2> QED BY <1>1, <2>1 DEF Cells
  <1>5. \A i \in 1..n, j \in 1..n : i < j => cell(i).at < cell(j).at
    <2> TAKE i \in 1..n, j \in 1..n
    <2>1. node(i - 1) \in Nat /\ node(j - 1) \in Nat /\ root.at \in Int
      <3>1. i - 1 \in 0..n /\ j - 1 \in 0..n
        OBVIOUS
      <3> QED BY <1>1, <3>1 DEF Cells
    <2>2. cell(i).at = root.at + node(i - 1) /\ cell(j).at = root.at + node(j - 1)
      BY <1>4
    <2> HIDE DEF cell
    <2> QED BY <1>2, <2>1, <2>2
  <1> HIDE DEF cell
  <1> DEFINE c == TreeCells(root, s)
  <1>6. c \in Seq(Cells) /\ Len(c) = n /\ \A i \in 1..n : c[i] = cell(i)
    <2>1. c \in [1..n -> Cells]
      BY <1>3, <1>4
    <2> QED BY <1>3, <2>1
  <1>7. \A i, j \in 1..n : i < j => c[i] # c[j]
    <2> TAKE i, j \in 1..n
    <2>1. \A k \in 1..n : cell(k).at \in Int
      BY <1>4 DEF Cells
    <2> QED BY <1>5, <1>6, <2>1
  <1> HIDE DEF c
  <1>8. WellFormed(c, s)
    BY <1>1, <1>6, <1>7 DEF WellFormed
  <1> QED BY <1>1, <1>4, <1>6, <1>8 DEF c

LEMMA TreeBranches ==
    ASSUME NEW n \in Nat, NEW s \in Bits(n), NEW t \in Bits(n), NEW root
    PROVE  Branch(TreeCells(root, s), s, TreeCells(root, t), t)
  <1>1. Len(s) = n /\ Len(t) = n
    BY NodesAre
  <1> SUFFICES ASSUME NEW k \in 1..n, \A j \in 1..(k - 1) : s[j] = t[j]
               PROVE  TreeCells(root, s)[k] = TreeCells(root, t)[k]
    BY <1>1 DEF Branch
  <1>2. k - 1 \in 0..n
    OBVIOUS
  <1>3. Nodes(s)[k - 1] = Nodes(t)[k - 1]
    BY <1>2, NodesAgree
  <1> QED BY <1>1, <1>3 DEF TreeCells

\* One piece after another, in other cells.
LEMMA JoinedWellFormed ==
    ASSUME NEW c, NEW s, NEW d, NEW t, WellFormed(c, s), WellFormed(d, t),
           \A i \in 1..Len(s), j \in 1..Len(t) : c[i] # d[j]
    PROVE  WellFormed(c \o d, s \o t)
  <1> DEFINE e == c \o d
             u == s \o t
  <1>1. /\ c \in Seq(Cells) /\ s \in Seq(Bit) /\ Len(c) = Len(s)
        /\ d \in Seq(Cells) /\ t \in Seq(Bit) /\ Len(d) = Len(t)
    BY DEF WellFormed
  <1>2. /\ e \in Seq(Cells) /\ Len(e) = Len(s) + Len(t)
        /\ \A i \in 1..Len(s) : e[i] = c[i]
        /\ \A i \in 1..Len(t) : e[Len(s) + i] = d[i]
    <2>1. /\ e \in Seq(Cells) /\ Len(e) = Len(c) + Len(d)
          /\ \A i \in 1..Len(c) : e[i] = c[i]
          /\ \A i \in 1..Len(d) : e[Len(c) + i] = d[i]
      <3>1. c \in Seq(Cells) /\ d \in Seq(Cells)
        BY <1>1
      <3> QED BY <3>1, JoinedIs
    <2> QED BY <1>1, <2>1, Zenon
  <1>3. u \in Seq(Bit) /\ Len(u) = Len(s) + Len(t) /\ Len(s) \in Nat /\ Len(t) \in Nat
    BY <1>1, JoinedIs
  <1> HIDE DEF e, u
  <1>4. \A i, j \in 1..Len(u) : i < j => e[i] # e[j]
    <2> SUFFICES ASSUME NEW i \in 1..Len(u), NEW j \in 1..Len(u), i < j
                 PROVE  e[i] # e[j]
      OBVIOUS
    <2>1. CASE j \in 1..Len(s)
      <3>1. i \in 1..Len(s)
        BY <1>3, <2>1
      <3> QED BY <1>2, <2>1, <3>1 DEF WellFormed
    <2>2. CASE j \notin 1..Len(s)
      <3> DEFINE k == j - Len(s)
      <3>1. k \in 1..Len(t) /\ Len(s) + k = j
        BY <1>3, <2>2
      <3> HIDE DEF k
      <3>2. e[j] = d[k]
        BY <1>2, <3>1
      <3>3. CASE i \in 1..Len(s)
        BY <1>2, <3>1, <3>2, <3>3
      <3>4. CASE i \notin 1..Len(s)
        <4> DEFINE l == i - Len(s)
        <4>1. l \in 1..Len(t) /\ Len(s) + l = i /\ l < k
          BY <1>3, <3>1, <3>4
        <4> HIDE DEF l
        <4>2. e[i] = d[l]
          BY <1>2, <4>1
        <4> QED BY <3>1, <3>2, <4>1, <4>2 DEF WellFormed
      <3> QED BY <3>3, <3>4
    <2> QED BY <2>1, <2>2
  <1>5. WellFormed(e, u)
    BY <1>2, <1>3, <1>4 DEF WellFormed
  <1> QED BY <1>5 DEF e, u

\* The sequences e and u are c and s, then d and t.
Pieces(c, s, d, t, e, u) ==
    /\ Len(s) \in Nat /\ Len(t) \in Nat /\ Len(u) = Len(s) + Len(t)
    /\ \A i \in 1..Len(s) : u[i] = s[i] /\ e[i] = c[i]
    /\ \A i \in 1..Len(t) : u[Len(s) + i] = t[i] /\ e[Len(s) + i] = d[i]

LEMMA JoinedPieces ==
    ASSUME NEW c, NEW s, NEW d, NEW t, WellFormed(c, s), WellFormed(d, t)
    PROVE  Pieces(c, s, d, t, c \o d, s \o t)
  <1>1. /\ c \in Seq(Cells) /\ s \in Seq(Bit) /\ Len(c) = Len(s)
        /\ d \in Seq(Cells) /\ t \in Seq(Bit) /\ Len(d) = Len(t)
    BY DEF WellFormed
  <1>2. /\ Len(s \o t) = Len(s) + Len(t)
        /\ Len(s) \in Nat /\ Len(t) \in Nat
        /\ \A i \in 1..Len(s) : (s \o t)[i] = s[i]
        /\ \A i \in 1..Len(t) : (s \o t)[Len(s) + i] = t[i]
    BY <1>1, JoinedIs
  <1>3. /\ \A i \in 1..Len(c) : (c \o d)[i] = c[i]
        /\ \A i \in 1..Len(d) : (c \o d)[Len(c) + i] = d[i]
    BY <1>1, JoinedIs
  <1> QED BY <1>1, <1>2, <1>3, Zenon DEF Pieces

LEMMA JoinedBranches ==
    ASSUME NEW c, NEW s, NEW d, NEW t, NEW c2, NEW s2, NEW d2, NEW t2,
           WellFormed(c, s), WellFormed(d, t), WellFormed(c2, s2), WellFormed(d2, t2),
           Len(s) = Len(t), Branch(c, s, d, t),
           s = t => Branch(c2, s2, d2, t2)
    PROVE  Branch(c \o c2, s \o s2, d \o d2, t \o t2)
  <1> DEFINE e == c \o c2
             u == s \o s2
             f == d \o d2
             v == t \o t2
             n == Len(s)
  <1>1. /\ c \in Seq(Cells) /\ s \in Seq(Bit) /\ Len(c) = n
        /\ c2 \in Seq(Cells) /\ s2 \in Seq(Bit) /\ Len(c2) = Len(s2)
        /\ d \in Seq(Cells) /\ t \in Seq(Bit) /\ Len(d) = n /\ Len(t) = n
        /\ d2 \in Seq(Cells) /\ t2 \in Seq(Bit) /\ Len(d2) = Len(t2)
    BY DEF WellFormed
  <1>2. Pieces(c, s, c2, s2, e, u)
    BY JoinedPieces
  <1>3. Pieces(d, t, d2, t2, f, v)
    BY JoinedPieces
  <1> HIDE DEF e, u, f, v
  <1>4. /\ Len(u) = n + Len(s2) /\ n \in Nat /\ Len(s2) \in Nat
        /\ \A i \in 1..n : u[i] = s[i] /\ e[i] = c[i]
        /\ \A i \in 1..Len(s2) : u[n + i] = s2[i] /\ e[n + i] = c2[i]
    BY <1>2, Zenon DEF Pieces
  <1>5. /\ Len(v) = n + Len(t2) /\ Len(t2) \in Nat
        /\ \A i \in 1..n : v[i] = t[i] /\ f[i] = d[i]
        /\ \A i \in 1..Len(t2) : v[n + i] = t2[i] /\ f[n + i] = d2[i]
    BY <1>1, <1>3, Zenon DEF Pieces
  <1>6. /\ \A k \in 1..n : (\A j \in 1..(k - 1) : s[j] = t[j]) => c[k] = d[k]
        /\ s = t => \A k \in 1..Len(t2) :
              (\A j \in 1..(k - 1) : s2[j] = t2[j]) => k <= Len(s2) /\ c2[k] = d2[k]
    BY <1>1 DEF Branch
  <1>7. ASSUME NEW k \in 1..Len(v), \A j \in 1..(k - 1) : u[j] = v[j]
        PROVE  k <= Len(u) /\ e[k] = f[k]
    <2>1. CASE k \in 1..n
      <3>1. \A j \in 1..(k - 1) : j \in 1..n
        BY <1>4, <2>1
      <3>2. \A j \in 1..(k - 1) : s[j] = t[j]
        BY <1>4, <1>5, <1>7, <3>1
      <3>3. c[k] = d[k]
        BY <1>6, <2>1, <3>2
      <3>4. k <= Len(u)
        BY <1>4, <2>1
      <3> QED BY <1>4, <1>5, <2>1, <3>3, <3>4
    <2>2. CASE k \notin 1..n
      <3> DEFINE l == k - n
      <3>1. l \in 1..Len(t2) /\ n + l = k
        BY <1>4, <1>5, <2>2
      <3>2. \A j \in 1..n : j \in 1..(k - 1)
        BY <1>4, <2>2
      <3>3. \A j \in 1..n : s[j] = t[j]
        BY <1>4, <1>5, <1>7, <3>2
      <3>4. s = t
        BY <1>1, <3>3, SeqEqual, Zenon
      <3>5. \A j \in 1..(l - 1) : n + j \in 1..(k - 1) /\ j \in 1..Len(t2)
        BY <1>4, <1>5, <3>1
      <3> HIDE DEF l
      <3>6. ASSUME NEW m \in 1..l, \A j \in 1..(m - 1) : s2[j] = t2[j] PROVE m <= Len(s2)
        <4>1. m \in 1..Len(t2)
          BY <1>5, <3>1
        <4> QED BY <1>6, <3>4, <3>6, <4>1
      <3> DEFINE P == {m \in 0..(l - 1) : \A j \in 1..m : s2[j] = t2[j]}
      <3>7. 0 \in P
        BY <3>1
      <3>8. ASSUME NEW m \in 1..(l - 1), m - 1 \in P PROVE m \in P
        <4>1. m \in 1..l /\ \A j \in 1..(m - 1) : s2[j] = t2[j]
          BY <3>1, <3>8
        <4>2. m \in 1..Len(s2)
          BY <1>4, <3>6, <4>1
        <4>3. u[n + m] = s2[m] /\ v[n + m] = t2[m] /\ u[n + m] = v[n + m]
          BY <1>4, <1>5, <1>7, <3>5, <4>2
        <4>4. \A j \in 1..m : j \in 1..(m - 1) \/ j = m
          OBVIOUS
        <4>5. \A j \in 1..m : s2[j] = t2[j]
          BY <4>1, <4>3, <4>4
        <4> QED BY <4>5
      <3>9. \A m \in P : \A j \in 1..m : s2[j] = t2[j]
        OBVIOUS
      <3> HIDE DEF P
      <3>10. l - 1 \in Nat /\ l - 1 \in 0..(l - 1)
        BY <3>1
      <3>11. l - 1 \in P
        BY <3>7, <3>8, <3>10, InductionUpTo
      <3>12. l <= Len(s2) /\ c2[l] = d2[l]
        BY <1>6, <3>1, <3>4, <3>9, <3>11
      <3>13. l \in 1..Len(s2) /\ k <= Len(u)
        BY <1>4, <1>5, <3>1, <3>12
      <3> QED BY <1>4, <1>5, <3>1, <3>12, <3>13
    <2> QED BY <2>1, <2>2
  <1>8. Branch(e, u, f, v)
    BY <1>7 DEF Branch
  <1> QED BY <1>8 DEF e, u, f, v

\* Sequences of bits and cells that differ after the same cells.
LEMMA Forks ==
    ASSUME NEW c, NEW s, NEW d, NEW t, WellFormed(c, s), WellFormed(d, t),
           NEW i \in Nat, 1 <= i, i <= Len(s), i <= Len(t), s[i] # t[i],
           \A k \in 1..i : c[k] = d[k]
    PROVE  Branch(c, s, d, t)
  <1>1. Len(s) \in Nat /\ Len(t) \in Nat
    BY DEF WellFormed
  <1>2. ASSUME NEW k \in 1..Len(t), \A j \in 1..(k - 1) : s[j] = t[j]
        PROVE  k <= Len(s) /\ c[k] = d[k]
    <2>1. k <= i
      <3>1. k > i => i \in 1..(k - 1)
        BY <1>1
      <3> QED BY <1>1, <1>2, <3>1
    <2> QED BY <1>1, <2>1
  <1> QED BY <1>2 DEF Branch

LEMMA BranchItself == ASSUME NEW c, NEW s, WellFormed(c, s) PROVE Branch(c, s, c, s)
  <1>1. Len(s) \in Nat
    BY DEF WellFormed
  <1> QED BY <1>1 DEF Branch

LEMMA OneBit ==
    ASSUME NEW c \in Cells, NEW b \in Bit
    PROVE  WellFormed(<<c>>, <<b>>) /\ Len(<<b>>) = 1 /\ <<b>>[1] = b /\ <<c>>[1] = c
  BY DEF WellFormed

LEMMA TwoBits ==
    ASSUME NEW c \in Cells, NEW d \in Cells, c # d, NEW a \in Bit, NEW b \in Bit
    PROVE  /\ WellFormed(<<c, d>>, <<a, b>>) /\ Len(<<a, b>>) = 2
           /\ <<a, b>>[1] = a /\ <<a, b>>[2] = b
           /\ <<c, d>>[1] = c /\ <<c, d>>[2] = d
  <1> DEFINE e == <<c, d>>
             u == <<a, b>>
  <1>1. /\ e \in Seq(Cells) /\ u \in Seq(Bit) /\ Len(e) = 2 /\ Len(u) = 2
        /\ e[1] = c /\ e[2] = d /\ u[1] = a /\ u[2] = b
    OBVIOUS
  <1> HIDE DEF e, u
  <1>2. \A i, j \in 1..Len(u) : i < j => e[i] # e[j]
    <2> SUFFICES ASSUME NEW i \in 1..Len(u), NEW j \in 1..Len(u), i < j PROVE e[i] # e[j]
      OBVIOUS
    <2>1. i = 1 /\ j = 2
      BY <1>1
    <2> QED BY <1>1, <2>1
  <1>3. WellFormed(e, u)
    BY <1>1, <1>2 DEF WellFormed
  <1> QED BY <1>1, <1>3 DEF e, u

\* The bits u are p, in the cells q, and then some in a tree.
InTree(p, q, root, n, u, e) ==
    /\ WellFormed(e, u) /\ Len(p) \in Nat /\ Len(u) = Len(p) + n
    /\ \A i \in 1..Len(p) : u[i] = p[i] /\ e[i] = q[i]
    /\ \A i \in 1..Len(u) : i > Len(p) => e[i].of = root.of /\ e[i].array = root.array

LEMMA TreeAfter ==
    ASSUME NEW p, NEW q, WellFormed(q, p), NEW n \in Nat, NEW root \in Cells,
           \A i \in 1..Len(p) : q[i].array # root.array, NEW s \in Bits(n)
    PROVE  InTree(p, q, root, n, p \o s, q \o TreeCells(root, s))
  <1> DEFINE c == TreeCells(root, s)
  <1>1. /\ WellFormed(c, s) /\ Len(s) = n
        /\ \A i \in 1..n : c[i].of = root.of /\ c[i].array = root.array
    BY TreeIsWellFormed
  <1> HIDE DEF c
  <1>2. \A i \in 1..Len(p), j \in 1..Len(s) : q[i] # c[j]
    BY <1>1, Zenon
  <1>3. WellFormed(q \o c, p \o s)
    BY <1>1, <1>2, JoinedWellFormed
  <1>4. Pieces(q, p, c, s, q \o c, p \o s)
    BY <1>1, JoinedPieces
  <1> DEFINE u == p \o s
             e == q \o c
  <1> HIDE DEF u, e
  <1>5. Pieces(q, p, c, s, e, u) /\ WellFormed(e, u)
    BY <1>3, <1>4 DEF e, u
  <1>6. ASSUME NEW i \in 1..Len(u), i > Len(p)
        PROVE  e[i].of = root.of /\ e[i].array = root.array
    <2> DEFINE k == i - Len(p)
    <2>1. Len(p) \in Nat /\ Len(s) \in Nat /\ Len(u) = Len(p) + Len(s)
      BY <1>5 DEF Pieces
    <2>2. k \in 1..Len(s) /\ Len(p) + k = i
      BY <1>6, <2>1
    <2> HIDE DEF k
    <2>3. e[Len(p) + k] = c[k]
      BY <1>5, <2>2 DEF Pieces
    <2> QED BY <1>1, <2>2, <2>3
  <1>7. InTree(p, q, root, n, u, e)
    BY <1>1, <1>5, <1>6 DEF InTree, Pieces
  <1> QED BY <1>7 DEF u, e, c

LEMMA TreesAfterBranch ==
    ASSUME NEW p, NEW q, WellFormed(q, p), NEW n \in Nat, NEW root \in Cells,
           NEW s \in Bits(n), NEW t \in Bits(n)
    PROVE  /\ Branch(q \o TreeCells(root, s), p \o s, q \o TreeCells(root, t), p \o t)
           /\ p \o s = p \o t => s = t
  <1>1. /\ WellFormed(TreeCells(root, s), s) /\ Len(s) = n
        /\ WellFormed(TreeCells(root, t), t) /\ Len(t) = n
    BY TreeIsWellFormed
  <1>2. Branch(TreeCells(root, s), s, TreeCells(root, t), t)
    BY TreeBranches
  <1>3. Branch(q, p, q, p)
    BY BranchItself
  <1>4. Branch(q \o TreeCells(root, s), p \o s, q \o TreeCells(root, t), p \o t)
    BY <1>1, <1>2, <1>3, JoinedBranches
  <1>5. ASSUME p \o s = p \o t PROVE s = t
    <2> DEFINE u == p \o s
               c == TreeCells(root, s)
               d == TreeCells(root, t)
    <2>1. Pieces(q, p, c, s, q \o c, u)
      BY <1>1, JoinedPieces
    <2>2. Pieces(q, p, d, t, q \o d, u)
      BY <1>1, <1>5, JoinedPieces
    <2> HIDE DEF u, c, d
    <2>3. \A i \in 1..n : s[i] = t[i]
      BY <1>1, <2>1, <2>2 DEF Pieces
    <2>4. s \in Seq(Bit) /\ t \in Seq(Bit)
      BY <1>1 DEF WellFormed
    <2> QED BY <1>1, <2>3, <2>4, SeqEqual, Zenon
  <1> QED BY <1>4, <1>5

\* Codes that can be told apart while they are read, each cell once.
Book(C) ==
    /\ \A o \in C : WellFormed(o.cells, o.bits) /\ Len(o.bits) >= 1
    /\ \A o, q \in C : Branch(o.cells, o.bits, q.cells, q.bits)

LEMMA LenCellIs ==
    ASSUME NEW lens \in {"len", "rep_len"}, NEW array \in Arrays, NEW k \in Nat
    PROVE  /\ LenCell(lens, array, k) \in Cells
           /\ LenCell(lens, array, k).of = lens /\ LenCell(lens, array, k).array = array
  BY DEF LenCell, Cells

\* The lengths that a bit tree gives after the bits p, from v on.
LengthsOf(p, q, root, n, v) ==
    {[value |-> TreeValue(s) + v, bits |-> p \o s,
      cells |-> q \o TreeCells(root, s)] : s \in Bits(n)}

\* Codes l whose bits and cells are p and q, and then a path in a tree.
LEMMA LengthsOfAre ==
    ASSUME NEW p, NEW q, WellFormed(q, p), NEW n \in Nat, NEW root \in Cells, NEW v,
           \A i \in 1..Len(p) : q[i].array # root.array
    PROVE  /\ \A l \in LengthsOf(p, q, root, n, v) : InTree(p, q, root, n, l.bits, l.cells)
           /\ \A l, m \in LengthsOf(p, q, root, n, v) :
                 /\ Branch(l.cells, l.bits, m.cells, m.bits)
                 /\ l.bits = m.bits => l.value = m.value
  <1> DEFINE Code(s) == [value |-> TreeValue(s) + v, bits |-> p \o s,
                         cells |-> q \o TreeCells(root, s)]
  <1>1. ASSUME NEW s \in Bits(n)
        PROVE  /\ Code(s).value = TreeValue(s) + v /\ Code(s).bits = p \o s
               /\ Code(s).cells = q \o TreeCells(root, s)
    OBVIOUS
  <1>2. \A l \in LengthsOf(p, q, root, n, v) : \E s \in Bits(n) : l = Code(s)
    BY DEF LengthsOf
  <1> HIDE DEF Code
  <1>3. ASSUME NEW l \in LengthsOf(p, q, root, n, v)
        PROVE  InTree(p, q, root, n, l.bits, l.cells)
    <2>1. PICK s \in Bits(n) : l = Code(s)
      BY <1>2
    <2>2. InTree(p, q, root, n, p \o s, q \o TreeCells(root, s))
      BY TreeAfter
    <2> QED BY <1>1, <2>1, <2>2, Zenon
  <1>4. ASSUME NEW l \in LengthsOf(p, q, root, n, v), NEW m \in LengthsOf(p, q, root, n, v)
        PROVE  /\ Branch(l.cells, l.bits, m.cells, m.bits)
               /\ l.bits = m.bits => l.value = m.value
    <2>1. PICK s \in Bits(n) : l = Code(s)
      BY <1>2
    <2>2. PICK t \in Bits(n) : m = Code(t)
      BY <1>2
    <2>3. /\ Branch(q \o TreeCells(root, s), p \o s, q \o TreeCells(root, t), p \o t)
          /\ p \o s = p \o t => s = t
      BY TreesAfterBranch
    <2>4. /\ l.value = TreeValue(s) + v /\ l.bits = p \o s
          /\ l.cells = q \o TreeCells(root, s)
      BY <1>1, <2>1, Zenon
    <2>5. /\ m.value = TreeValue(t) + v /\ m.bits = p \o t
          /\ m.cells = q \o TreeCells(root, t)
      BY <1>1, <2>2, Zenon
    <2> QED BY <2>3, <2>4, <2>5, Zenon
  <1> QED BY <1>3, <1>4

\* What is read of a length: one, two or three bits choose among its trees.
LEMMA LengthsAre ==
    ASSUME len \in Nat, NEW lens \in {"len", "rep_len"}
    PROVE  /\ Book(Lengths(lens))
           /\ \A l, m \in Lengths(lens) : l.bits = m.bits => l.value = m.value
           /\ \A l \in Lengths(lens) : \A i \in 1..Len(l.bits) : l.cells[i].of = lens
  <1> DEFINE choice  == LenCell(lens, "choice", 0)
             choice2 == LenCell(lens, "choice2", 0)
             low     == LenCell(lens, "low_coder", pos_state * Pow2(LowBits))
             mid     == LenCell(lens, "mid_coder", pos_state * Pow2(LowBits))
             high    == LenCell(lens, "high_coder", 0)
             A == LengthsOf(<<0>>, <<choice>>, low, LowBits, 0)
             B == LengthsOf(<<1, 0>>, <<choice, choice2>>, mid, LowBits, Pow2(LowBits))
             C == LengthsOf(<<1, 1>>, <<choice, choice2>>, high, HighBits, 2 * Pow2(LowBits))
             InA(l) == InTree(<<0>>, <<choice>>, low, LowBits, l.bits, l.cells)
             InB(l) == InTree(<<1, 0>>, <<choice, choice2>>, mid, LowBits, l.bits, l.cells)
             InC(l) == InTree(<<1, 1>>, <<choice, choice2>>, high, HighBits, l.bits, l.cells)
  <1>1. LowBits \in Nat /\ HighBits \in Nat /\ pos_state * Pow2(LowBits) \in Nat
    <2>1. Pow2(Pb) \in Nat \ {0} /\ Pow2(LowBits) \in Nat
      BY PowerOfMore, PropsAssumption, LengthAssumption
    <2>2. pos_state \in Nat
      BY <2>1 DEF pos_state
    <2> QED BY <2>1, <2>2, LengthAssumption
  <1>2. /\ choice \in Cells /\ choice2 \in Cells /\ low \in Cells /\ mid \in Cells /\ high \in Cells
        /\ choice.of = lens /\ choice2.of = lens /\ low.of = lens /\ mid.of = lens
        /\ high.of = lens
        /\ choice.array = "choice" /\ choice2.array = "choice2" /\ low.array = "low_coder"
        /\ mid.array = "mid_coder" /\ high.array = "high_coder"
    <2>1. {"choice", "choice2", "low_coder", "mid_coder", "high_coder"} \subseteq Arrays /\ 0 \in Nat
      BY DEF Arrays
    <2>2. \A array \in {"choice", "choice2", "low_coder", "mid_coder", "high_coder"}, k \in Nat :
              /\ LenCell(lens, array, k) \in Cells
              /\ LenCell(lens, array, k).of = lens /\ LenCell(lens, array, k).array = array
      BY <2>1, LenCellIs
    <2> QED BY <1>1, <2>1, <2>2
  <1>3. Lengths(lens) = A \cup B \cup C
    <2> DEFINE L(s) == TreeCells(low, s)
    <2>1. \A s \in Bits(LowBits) : TreeValue(s) + 0 = TreeValue(s)
      <3> SUFFICES ASSUME NEW s \in Bits(LowBits) PROVE TreeValue(s) \in Int
        OBVIOUS
      <3>1. Len(s) = LowBits /\ Nodes(s)[LowBits] \in Int /\ Pow2(LowBits) \in Int
        BY <1>1, NodesAre, PowerOfMore
      <3> QED BY <3>1 DEF TreeValue
    <2>2. A = {[value |-> TreeValue(s), bits |-> <<0>> \o s,
                cells |-> <<choice>> \o TreeCells(low, s)] : s \in Bits(LowBits)}
      BY <2>1, Zenon DEF LengthsOf
    <2> QED BY <2>2, Zenon DEF Lengths, LengthsOf
  <1> HIDE DEF choice, choice2, low, mid, high
  <1>4. /\ \A l \in A : InA(l)
        /\ \A l, m \in A : /\ Branch(l.cells, l.bits, m.cells, m.bits)
                           /\ l.bits = m.bits => l.value = m.value
    <2> DEFINE p == <<0>>
               q == <<choice>>
    <2>1. WellFormed(q, p) /\ \A i \in 1..Len(p) : q[i].array # low.array
      <3>1. WellFormed(q, p) /\ Len(p) = 1 /\ q[1] = choice
        BY <1>2, OneBit DEF Bit
      <3> HIDE DEF p, q
      <3>2. \A i \in 1..Len(p) : i = 1
        BY <3>1
      <3> QED BY <1>2, <3>1, <3>2
    <2> HIDE DEF p, q
    <2> QED BY <1>1, <1>2, <2>1, LengthsOfAre DEF p, q
  <1>5. /\ WellFormed(<<choice, choice2>>, <<1, 0>>) /\ WellFormed(<<choice, choice2>>, <<1, 1>>)
        /\ Len(<<1, 0>>) = 2 /\ Len(<<1, 1>>) = 2
    BY <1>2, TwoBits DEF Bit
  <1>6. /\ \A l \in B : InB(l)
        /\ \A l, m \in B : /\ Branch(l.cells, l.bits, m.cells, m.bits)
                           /\ l.bits = m.bits => l.value = m.value
    <2> DEFINE p == <<1, 0>>
               q == <<choice, choice2>>
               v == Pow2(LowBits)
    <2>1. WellFormed(q, p) /\ \A i \in 1..Len(p) : q[i].array # mid.array
      <3>1. WellFormed(q, p) /\ Len(p) = 2 /\ q[1] = choice /\ q[2] = choice2
        BY <1>5
      <3> HIDE DEF p, q
      <3>2. \A i \in 1..Len(p) : i = 1 \/ i = 2
        BY <3>1
      <3> QED BY <1>2, <3>1, <3>2
    <2> HIDE DEF p, q, v
    <2> QED BY <1>1, <1>2, <2>1, LengthsOfAre DEF p, q, v
  <1>7. /\ \A l \in C : InC(l)
        /\ \A l, m \in C : /\ Branch(l.cells, l.bits, m.cells, m.bits)
                           /\ l.bits = m.bits => l.value = m.value
    <2> DEFINE p == <<1, 1>>
               q == <<choice, choice2>>
               v == 2 * Pow2(LowBits)
    <2>1. WellFormed(q, p) /\ \A i \in 1..Len(p) : q[i].array # high.array
      <3>1. WellFormed(q, p) /\ Len(p) = 2 /\ q[1] = choice /\ q[2] = choice2
        BY <1>5
      <3> HIDE DEF p, q
      <3>2. \A i \in 1..Len(p) : i = 1 \/ i = 2
        BY <3>1
      <3> QED BY <1>2, <3>1, <3>2
    <2> HIDE DEF p, q, v
    <2> QED BY <1>1, <1>2, <2>1, LengthsOfAre DEF p, q, v
  <1> HIDE DEF A, B, C
  <1>8. \A l : InA(l) =>
            /\ WellFormed(l.cells, l.bits) /\ Len(l.bits) \in Nat /\ 1 <= Len(l.bits)
            /\ l.bits[1] = 0 /\ l.cells[1] = choice
            /\ \A i \in 1..Len(l.bits) : l.cells[i].of = lens
    <2> SUFFICES ASSUME NEW l, InA(l)
                 PROVE  /\ WellFormed(l.cells, l.bits) /\ Len(l.bits) \in Nat
                        /\ 1 <= Len(l.bits) /\ l.bits[1] = 0 /\ l.cells[1] = choice
                        /\ \A i \in 1..Len(l.bits) : l.cells[i].of = lens
      OBVIOUS
    <2> DEFINE p == <<0>>
               q == <<choice>>
               u == l.bits
               e == l.cells
    <2>1. Len(p) = 1 /\ p[1] = 0 /\ q[1] = choice
      OBVIOUS
    <2>2. InTree(p, q, low, LowBits, u, e)
      OBVIOUS
    <2> HIDE DEF p, q, u, e, InA
    <2>3. /\ WellFormed(e, u) /\ Len(u) = 1 + LowBits
          /\ u[1] = 0 /\ e[1] = choice
          /\ \A i \in 1..Len(u) : i > 1 => e[i].of = lens
      BY <1>2, <2>1, <2>2 DEF InTree
    <2>4. \A i \in 1..Len(u) : i = 1 \/ i > 1
      BY <1>1, <2>3
    <2> QED BY <1>1, <1>2, <2>3, <2>4 DEF u, e
  <1>9. ASSUME NEW b \in Bit, NEW root, root.of = lens, NEW n \in Nat, NEW l,
               InTree(<<1, b>>, <<choice, choice2>>, root, n, l.bits, l.cells)
        PROVE  /\ WellFormed(l.cells, l.bits) /\ Len(l.bits) \in Nat /\ 2 <= Len(l.bits)
               /\ l.bits[1] = 1 /\ l.bits[2] = b /\ l.cells[1] = choice /\ l.cells[2] = choice2
               /\ \A i \in 1..Len(l.bits) : l.cells[i].of = lens
    <2> DEFINE p == <<1, b>>
               q == <<choice, choice2>>
               u == l.bits
               e == l.cells
    <2>1. Len(p) = 2 /\ p[1] = 1 /\ p[2] = b /\ q[1] = choice /\ q[2] = choice2
      OBVIOUS
    <2>2. InTree(p, q, root, n, u, e)
      BY <1>9
    <2> HIDE DEF p, q, u, e
    <2>3. /\ WellFormed(e, u) /\ Len(u) = 2 + n
          /\ u[1] = 1 /\ e[1] = choice /\ u[2] = b /\ e[2] = choice2
          /\ \A i \in 1..Len(u) : i > 2 => e[i].of = lens
      BY <1>9, <2>1, <2>2 DEF InTree
    <2>4. \A i \in 1..Len(u) : i = 1 \/ i = 2 \/ i > 2
      BY <1>9, <2>3
    <2>5. \A i \in 1..Len(u) : e[i].of = lens
      BY <1>2, <2>3, <2>4
    <2>6. Len(u) \in Nat /\ 2 <= Len(u)
      BY <1>9, <2>3
    <2> QED BY <2>3, <2>5, <2>6 DEF u, e
  <1>10. /\ \A l \in B : /\ WellFormed(l.cells, l.bits) /\ Len(l.bits) \in Nat /\ 2 <= Len(l.bits)
                          /\ l.bits[1] = 1 /\ l.bits[2] = 0
                          /\ l.cells[1] = choice /\ l.cells[2] = choice2
                          /\ \A i \in 1..Len(l.bits) : l.cells[i].of = lens
         /\ \A l \in C : /\ WellFormed(l.cells, l.bits) /\ Len(l.bits) \in Nat /\ 2 <= Len(l.bits)
                          /\ l.bits[1] = 1 /\ l.bits[2] = 1
                          /\ l.cells[1] = choice /\ l.cells[2] = choice2
                          /\ \A i \in 1..Len(l.bits) : l.cells[i].of = lens
    <2>1. 0 \in Bit /\ 1 \in Bit
      BY DEF Bit
    <2> HIDE DEF InB, InC
    <2>2. ASSUME NEW l \in B
          PROVE  /\ WellFormed(l.cells, l.bits) /\ Len(l.bits) \in Nat /\ 2 <= Len(l.bits)
                 /\ l.bits[1] = 1 /\ l.bits[2] = 0
                 /\ l.cells[1] = choice /\ l.cells[2] = choice2
                 /\ \A i \in 1..Len(l.bits) : l.cells[i].of = lens
      <3>1. InB(l)
        BY <1>6
      <3> QED BY <1>1, <1>2, <1>9, <2>1, <3>1 DEF InB
    <2>3. ASSUME NEW l \in C
          PROVE  /\ WellFormed(l.cells, l.bits) /\ Len(l.bits) \in Nat /\ 2 <= Len(l.bits)
                 /\ l.bits[1] = 1 /\ l.bits[2] = 1
                 /\ l.cells[1] = choice /\ l.cells[2] = choice2
                 /\ \A i \in 1..Len(l.bits) : l.cells[i].of = lens
      <3>1. InC(l)
        BY <1>7
      <3> QED BY <1>1, <1>2, <1>9, <2>1, <3>1 DEF InC
    <2> QED BY <2>2, <2>3
  <1>11. \A l \in A : /\ WellFormed(l.cells, l.bits) /\ Len(l.bits) \in Nat /\ 1 <= Len(l.bits)
                      /\ l.bits[1] = 0 /\ l.cells[1] = choice
                      /\ \A i \in 1..Len(l.bits) : l.cells[i].of = lens
    BY <1>4, <1>8, Zenon
  <1> HIDE DEF InA, InB, InC
  <1>12. ASSUME NEW l \in Lengths(lens)
         PROVE  /\ WellFormed(l.cells, l.bits) /\ Len(l.bits) >= 1
                /\ \A i \in 1..Len(l.bits) : l.cells[i].of = lens
    BY <1>3, <1>10, <1>11
  <1>13. ASSUME NEW l \in Lengths(lens), NEW m \in Lengths(lens)
         PROVE  /\ Branch(l.cells, l.bits, m.cells, m.bits)
                /\ l.bits = m.bits => l.value = m.value
    <2> DEFINE Here == {A, B, C}
    <2>1. CASE (l \in A /\ m \in A) \/ (l \in B /\ m \in B) \/ (l \in C /\ m \in C)
      BY <1>4, <1>6, <1>7, <2>1
    <2>2. CASE (l \in A /\ m \in B \cup C) \/ (l \in B \cup C /\ m \in A)
      <3>1. /\ WellFormed(l.cells, l.bits) /\ WellFormed(m.cells, m.bits)
            /\ 1 <= Len(l.bits) /\ 1 <= Len(m.bits)
            /\ l.bits[1] # m.bits[1] /\ l.cells[1] = m.cells[1]
        BY <1>10, <1>11, <2>2
      <3>2. \A k \in 1..1 : l.cells[k] = m.cells[k]
        BY <3>1
      <3> QED BY <3>1, <3>2, Forks
    <2>3. CASE (l \in B /\ m \in C) \/ (l \in C /\ m \in B)
      <3>1. /\ WellFormed(l.cells, l.bits) /\ WellFormed(m.cells, m.bits)
            /\ 2 <= Len(l.bits) /\ 2 <= Len(m.bits)
            /\ l.bits[2] # m.bits[2] /\ l.cells[1] = m.cells[1] /\ l.cells[2] = m.cells[2]
        BY <1>10, <2>3
      <3>2. \A k \in 1..2 : l.cells[k] = m.cells[k]
        BY <3>1
      <3> QED BY <3>1, <3>2, Forks
    <2> QED BY <1>3, <2>1, <2>2, <2>3
  <1> QED BY <1>12, <1>13 DEF Book

\* Where the nodes of a tree are.
LEMMA NodeRange ==
    ASSUME NEW n \in Nat, NEW s \in Bits(n), NEW k \in 0..n
    PROVE  /\ Nodes(s)[k] \in Nat /\ Pow2(k) \in Nat /\ Pow2(k + 1) = 2 * Pow2(k)
           /\ Pow2(k) <= Nodes(s)[k] /\ Nodes(s)[k] < 2 * Pow2(k)
  <1> DEFINE node(i) == Nodes(s)[i]
             In(i) == Pow2(i) <= node(i) /\ node(i) < 2 * Pow2(i)
             P == {i \in 0..k : In(i)}
  <1>1. /\ \A i \in 0..n : node(i) \in Nat
        /\ node(0) = 1 /\ \A i \in 1..n : node(i) = 2 * node(i - 1) + s[i] /\ s[i] \in {0, 1}
    BY NodesAre DEF Bits, Bit
  <1>2. \A i \in 0..n : Pow2(i) \in Nat /\ Pow2(i + 1) = 2 * Pow2(i) /\ Pow2(0) = 1
    BY PowerOfMore
  <1> HIDE DEF node
  <1>3. 0 \in P
    BY <1>1, <1>2
  <1>4. ASSUME NEW i \in 1..k, i - 1 \in P PROVE i \in P
    <2>1. In(i - 1)
      BY <1>4
    <2>2. i - 1 \in 0..n /\ i \in 1..n /\ (i - 1) + 1 = i /\ i \in 0..k /\ i \in 0..n
      OBVIOUS
    <2>3. Pow2(i) = 2 * Pow2(i - 1) /\ Pow2(i - 1) \in Nat /\ node(i - 1) \in Nat
      BY <1>1, <1>2, <2>2
    <2>4. node(i) = 2 * node(i - 1) + s[i] /\ s[i] \in {0, 1}
      BY <1>1, <2>2
    <2>5. In(i)
      BY <2>1, <2>3, <2>4
    <2> QED BY <2>2, <2>5
  <1>5. \A i \in P : In(i)
    OBVIOUS
  <1> HIDE DEF P
  <1>6. In(k)
    <2>1. k \in P
      BY <1>3, <1>4, InductionUpTo
    <2> QED BY <1>5, <2>1
  <1> QED BY <1>1, <1>2, <1>6 DEF node

LEMMA TreeValueIs ==
    ASSUME NEW n \in Nat, NEW s \in Bits(n)
    PROVE  TreeValue(s) \in 0..(Pow2(n) - 1)
  <1>1. Len(s) = n /\ n \in 0..n
    BY NodesAre
  <1>2. /\ Nodes(s)[n] \in Nat /\ Pow2(n) \in Nat
        /\ Pow2(n) <= Nodes(s)[n] /\ Nodes(s)[n] < 2 * Pow2(n)
    BY <1>1, NodeRange
  <1> QED BY <1>1, <1>2 DEF TreeValue

LEMMA CellIs ==
    ASSUME NEW array \in Arrays, NEW k \in Int
    PROVE  /\ Cell(array, k) \in Cells /\ Cell(array, k).at = k
           /\ Cell(array, k).of = "lzma" /\ Cell(array, k).array = array
  BY DEF Cell, Cells

\* Bits that are not coded, one after the other.
DirectCells(n) == [i \in 1..n |-> Cell("direct", i)]

LEMMA DirectIs ==
    ASSUME NEW n \in Nat, NEW d \in Bits(n)
    PROVE  /\ WellFormed(DirectCells(n), d) /\ Len(d) = n
           /\ \A i \in 1..n : DirectCells(n)[i].of = "lzma" /\ DirectCells(n)[i].array = "direct"
  <1>1. d \in Seq(Bit) /\ Len(d) = n
    BY DEF Bits
  <1>2. \A i \in 1..n : /\ Cell("direct", i) \in Cells /\ Cell("direct", i).at = i
                        /\ Cell("direct", i).of = "lzma" /\ Cell("direct", i).array = "direct"
    BY CellIs DEF Arrays
  <1>3. /\ DirectCells(n) \in Seq(Cells) /\ Len(DirectCells(n)) = n
        /\ \A i \in 1..n : DirectCells(n)[i] = Cell("direct", i)
    <2>1. DirectCells(n) \in [1..n -> Cells]
      BY <1>2 DEF DirectCells
    <2> QED BY <2>1 DEF DirectCells
  <1>4. \A i, j \in 1..n : i < j => DirectCells(n)[i] # DirectCells(n)[j]
    <2> TAKE i, j \in 1..n
    <2> QED BY <1>2, <1>3
  <1> QED BY <1>1, <1>2, <1>3, <1>4 DEF WellFormed

LEMMA DirectBitsAre ==
    ASSUME NEW chosen \in Nat, chosen >= 4
    PROVE  /\ DirectBits(chosen) \in Nat /\ DirectBits(chosen) >= 1
           /\ chosen >= EndSlot => DirectBits(chosen) - AlignBits \in Nat
           /\ Base(chosen) - chosen \in Int
  <1>1. DirectBits(chosen) \in Nat /\ DirectBits(chosen) >= 1
    BY DEF DirectBits
  <1>2. chosen >= EndSlot => DirectBits(chosen) - AlignBits \in Nat
    BY DistanceAssumption DEF DirectBits
  <1>3. Pow2(DirectBits(chosen)) \in Nat
    BY <1>1, PowerOfMore
  <1>4. Base(chosen) \in Nat
    BY <1>3 DEF Base
  <1> QED BY <1>1, <1>2, <1>4

\* What comes after a slot.
Tails(chosen) ==
    IF chosen < 4 THEN {[value |-> 0, bits |-> <<>>, cells |-> <<>>]} ELSE Below(chosen)

TailArrays == {"pos_decoders", "direct", "align_decoder"}

LEMMA NothingIs == WellFormed(<<>>, <<>>) /\ Branch(<<>>, <<>>, <<>>, <<>>) /\ Len(<<>>) = 0
  BY DEF WellFormed, Branch

LEMMA ShortTails ==
    ASSUME NEW chosen \in Nat, chosen >= 4, chosen < EndSlot
    PROVE  /\ \A x \in Below(chosen) :
                 /\ WellFormed(x.cells, x.bits)
                 /\ \A i \in 1..Len(x.bits) : x.cells[i].of = "lzma" /\ x.cells[i].array \in TailArrays
           /\ \A x, y \in Below(chosen) : Branch(x.cells, x.bits, y.cells, y.bits)
  <1> DEFINE n == DirectBits(chosen)
             root == Cell("pos_decoders", Base(chosen) - chosen)
             Code(r) == [value |-> ReverseValue(r), bits |-> r, cells |-> TreeCells(root, r)]
  <1>1. n \in Nat /\ root \in Cells /\ root.of = "lzma" /\ root.array = "pos_decoders"
    BY DirectBitsAre, CellIs DEF Arrays
  <1>2. \A x \in Below(chosen) : \E r \in Bits(n) : x = Code(r)
    BY DEF Below, PosCells
  <1> HIDE DEF n, root
  <1>3. \A r : Code(r).bits = r /\ Code(r).cells = TreeCells(root, r)
    OBVIOUS
  <1> HIDE DEF Code
  <1>4. ASSUME NEW x \in Below(chosen)
        PROVE  /\ WellFormed(x.cells, x.bits)
               /\ \A i \in 1..Len(x.bits) : x.cells[i].of = "lzma" /\ x.cells[i].array \in TailArrays
    <2>1. PICK r \in Bits(n) : x = Code(r)
      BY <1>2
    <2>2. /\ WellFormed(TreeCells(root, r), r) /\ Len(r) = n
          /\ \A i \in 1..n : /\ TreeCells(root, r)[i].of = root.of
                             /\ TreeCells(root, r)[i].array = root.array
      BY <1>1, TreeIsWellFormed
    <2>3. x.bits = r /\ x.cells = TreeCells(root, r)
      BY <1>3, <2>1
    <2> QED BY <1>1, <2>2, <2>3 DEF TailArrays
  <1>5. ASSUME NEW x \in Below(chosen), NEW y \in Below(chosen)
        PROVE  Branch(x.cells, x.bits, y.cells, y.bits)
    <2>1. PICK r \in Bits(n) : x = Code(r)
      BY <1>2
    <2>2. PICK s \in Bits(n) : y = Code(s)
      BY <1>2
    <2>3. Branch(TreeCells(root, r), r, TreeCells(root, s), s)
      BY <1>1, TreeBranches
    <2> QED BY <1>3, <2>1, <2>2, <2>3
  <1> QED BY <1>4, <1>5

LEMMA LongTails ==
    ASSUME NEW chosen \in Nat, chosen >= 4, chosen >= EndSlot
    PROVE  /\ \A x \in Below(chosen) :
                 /\ WellFormed(x.cells, x.bits)
                 /\ \A i \in 1..Len(x.bits) : x.cells[i].of = "lzma" /\ x.cells[i].array \in TailArrays
           /\ \A x, y \in Below(chosen) : Branch(x.cells, x.bits, y.cells, y.bits)
  <1> DEFINE n == DirectBits(chosen) - AlignBits
             root == Cell("align_decoder", 0)
             Code(d, a) == [value |-> TreeValue(d) * Pow2(AlignBits) + ReverseValue(a),
                            bits |-> d \o a, cells |-> DirectCells(n) \o TreeCells(root, a)]
  <1>1. /\ n \in Nat /\ AlignBits \in Nat /\ root \in Cells
        /\ root.of = "lzma" /\ root.array = "align_decoder"
    BY DirectBitsAre, CellIs, DistanceAssumption DEF Arrays
  <1>2. \A x \in Below(chosen) : \E d \in Bits(n), a \in Bits(AlignBits) : x = Code(d, a)
    <2>1. ~(chosen < EndSlot)
      BY DistanceAssumption
    <2>2. \A d \in Bits(n) : [i \in 1..Len(d) |-> Cell("direct", i)] = DirectCells(n)
      BY <1>1, DirectIs, Zenon DEF DirectCells
    <2> SUFFICES ASSUME NEW x \in Below(chosen)
                 PROVE  \E d \in Bits(n), a \in Bits(AlignBits) : x = Code(d, a)
      OBVIOUS
    <2>3. \E d \in Bits(n), a \in Bits(AlignBits) :
              x = [value |-> TreeValue(d) * Pow2(AlignBits) + ReverseValue(a),
                   bits  |-> d \o a,
                   cells |-> [i \in 1..Len(d) |-> Cell("direct", i)] \o TreeCells(root, a)]
      <3> DEFINE A == {[value |-> ReverseValue(r), bits |-> r, cells |-> PosCells(chosen, r)] :
                          r \in Bits(DirectBits(chosen))}
                 E(d, a) == [value |-> TreeValue(d) * Pow2(AlignBits) + ReverseValue(a),
                             bits  |-> d \o a,
                             cells |-> [i \in 1..Len(d) |-> Cell("direct", i)]
                                         \o TreeCells(root, a)]
                 B == {E(d, a) : d \in Bits(n), a \in Bits(AlignBits)}
      <3>1. Below(chosen) = IF chosen < EndSlot THEN A ELSE B
        BY DEF Below
      <3> HIDE DEF A, B
      <3>2. x \in B
        BY <2>1, <3>1
      <3> HIDE DEF n, root, E
      <3>3. \E d \in Bits(n), a \in Bits(AlignBits) : x = E(d, a)
        BY <3>2 DEF B
      <3> QED BY <3>3, Zenon DEF E
    <2>4. PICK d \in Bits(n), a \in Bits(AlignBits) :
              x = [value |-> TreeValue(d) * Pow2(AlignBits) + ReverseValue(a),
                   bits  |-> d \o a,
                   cells |-> [i \in 1..Len(d) |-> Cell("direct", i)] \o TreeCells(root, a)]
      BY <2>3, Zenon
    <2>5. [i \in 1..Len(d) |-> Cell("direct", i)] = DirectCells(n)
      BY <2>2
    <2> HIDE DEF n, root
    <2>6. x = Code(d, a)
      BY <2>4, <2>5, Zenon
    <2> QED BY <2>6
  <1> HIDE DEF n, root
  <1>3. \A d, a : Code(d, a).bits = d \o a /\ Code(d, a).cells = DirectCells(n) \o TreeCells(root, a)
    OBVIOUS
  <1> HIDE DEF Code
  <1>4. ASSUME NEW d \in Bits(n), NEW a \in Bits(AlignBits)
        PROVE  /\ WellFormed(DirectCells(n), d) /\ Len(d) = n
               /\ WellFormed(TreeCells(root, a), a)
               /\ InTree(d, DirectCells(n), root, AlignBits, d \o a, DirectCells(n) \o TreeCells(root, a))
               /\ \A i \in 1..n : DirectCells(n)[i].of = "lzma" /\ DirectCells(n)[i].array = "direct"
    <2>1. /\ WellFormed(DirectCells(n), d) /\ Len(d) = n
          /\ \A i \in 1..n : DirectCells(n)[i].of = "lzma" /\ DirectCells(n)[i].array = "direct"
      BY <1>1, DirectIs
    <2>2. \A i \in 1..Len(d) : DirectCells(n)[i].array # root.array
      BY <1>1, <2>1
    <2>3. WellFormed(TreeCells(root, a), a)
      BY <1>1, TreeIsWellFormed
    <2>4. InTree(d, DirectCells(n), root, AlignBits, d \o a, DirectCells(n) \o TreeCells(root, a))
      BY <1>1, <2>1, <2>2, TreeAfter
    <2> QED BY <2>1, <2>3, <2>4
  <1>5. ASSUME NEW x \in Below(chosen)
        PROVE  /\ WellFormed(x.cells, x.bits)
               /\ \A i \in 1..Len(x.bits) : x.cells[i].of = "lzma" /\ x.cells[i].array \in TailArrays
    <2>1. PICK d \in Bits(n), a \in Bits(AlignBits) : x = Code(d, a)
      BY <1>2
    <2> DEFINE u == x.bits
               e == x.cells
    <2>2. InTree(d, DirectCells(n), root, AlignBits, u, e)
      BY <1>3, <1>4, <2>1
    <2> HIDE DEF u, e
    <2>3. /\ WellFormed(e, u) /\ Len(u) = n + AlignBits
          /\ \A i \in 1..n : e[i].of = "lzma" /\ e[i].array = "direct"
          /\ \A i \in 1..Len(u) : i > n => e[i].of = "lzma" /\ e[i].array = "align_decoder"
      BY <1>1, <1>4, <2>2 DEF InTree
    <2>4. \A i \in 1..Len(u) : i \in 1..n \/ i > n
      BY <1>1, <2>3
    <2> QED BY <2>3, <2>4 DEF u, e, TailArrays
  <1>6. ASSUME NEW x \in Below(chosen), NEW y \in Below(chosen)
        PROVE  Branch(x.cells, x.bits, y.cells, y.bits)
    <2>1. PICK d \in Bits(n), a \in Bits(AlignBits) : x = Code(d, a)
      BY <1>2
    <2>2. PICK f \in Bits(n), b \in Bits(AlignBits) : y = Code(f, b)
      BY <1>2
    <2>3. Branch(TreeCells(root, a), a, TreeCells(root, b), b)
      BY <1>1, TreeBranches
    <2>4. Branch(DirectCells(n), d, DirectCells(n), f)
      BY <1>1, <1>4 DEF Branch
    <2>5. Branch(DirectCells(n) \o TreeCells(root, a), d \o a, DirectCells(n) \o TreeCells(root, b), f \o b)
      BY <1>4, <2>3, <2>4, JoinedBranches
    <2> QED BY <1>3, <2>1, <2>2, <2>5
  <1> QED BY <1>5, <1>6

Distances(tree) == UNION {FromSlot(tree, s) : s \in Bits(SlotBits)}

LEMMA TailsAre ==
    ASSUME NEW chosen \in Nat
    PROVE  /\ \A x \in Tails(chosen) :
                 /\ WellFormed(x.cells, x.bits)
                 /\ \A i \in 1..Len(x.bits) : x.cells[i].of = "lzma" /\ x.cells[i].array \in TailArrays
           /\ \A x, y \in Tails(chosen) : Branch(x.cells, x.bits, y.cells, y.bits)
  <1>1. CASE chosen < 4
    <2>1. \A x \in Tails(chosen) : x.cells = <<>> /\ x.bits = <<>>
      BY <1>1 DEF Tails
    <2>2. \A i \in 1..Len(<<>>) : FALSE
      OBVIOUS
    <2> QED BY <2>1, <2>2, NothingIs, Zenon
  <1>2. CASE chosen >= 4 /\ chosen < EndSlot
    BY <1>2, ShortTails DEF Tails
  <1>3. CASE chosen >= 4 /\ chosen >= EndSlot
    BY <1>3, LongTails DEF Tails
  <1> QED BY <1>1, <1>2, <1>3, DistanceAssumption

\* A distance is its slot and then what the slot leaves open.
LEMMA SlotsAre ==
    ASSUME NEW tree \in Nat, NEW s \in Bits(SlotBits), NEW d \in FromSlot(tree, s)
    PROVE  \E x \in Tails(TreeValue(s)) :
              LET root == Cell("pos_slot_decoder", tree * Pow2(SlotBits)) IN
              d.bits = s \o x.bits /\ d.cells = TreeCells(root, s) \o x.cells
  <1> DEFINE chosen == TreeValue(s)
             cells == TreeCells(Cell("pos_slot_decoder", tree * Pow2(SlotBits)), s)
             E(x) == [value |-> Base(chosen) + x.value, bits |-> s \o x.bits, cells |-> cells \o x.cells]
  <1>1. CASE chosen < 4
    <2>1. d = [value |-> chosen, bits |-> s, cells |-> cells]
      <3> DEFINE A == {[value |-> chosen, bits |-> s, cells |-> cells]}
                 B == {E(x) : x \in Below(chosen)}
      <3>1. FromSlot(tree, s) = IF chosen < 4 THEN A ELSE B
        BY DEF FromSlot
      <3> HIDE DEF B, chosen, cells
      <3> QED BY <1>1, <3>1
    <2>2. d.bits = s /\ d.cells = cells
      BY <2>1
    <2>3. s \in Seq(Bit) /\ Len(s) = SlotBits
      BY NodesAre, DistanceAssumption
    <2>4. cells \in Seq(Cells)
      <3>1. tree * Pow2(SlotBits) \in Int
        BY PowerOfMore, DistanceAssumption
      <3>2. Cell("pos_slot_decoder", tree * Pow2(SlotBits)) \in Cells
        BY <3>1, CellIs DEF Arrays
      <3>3. WellFormed(cells, s)
        BY <3>2, TreeIsWellFormed, DistanceAssumption
      <3> QED BY <3>3 DEF WellFormed
    <2> HIDE DEF cells
    <2>5. s \o <<>> = s /\ cells \o <<>> = cells
      BY <2>3, <2>4
    <2> DEFINE x == [value |-> 0, bits |-> <<>>, cells |-> <<>>]
    <2>6. x \in Tails(chosen)
      BY <1>1 DEF Tails
    <2>7. x.bits = <<>> /\ x.cells = <<>>
      OBVIOUS
    <2> HIDE DEF x
    <2> QED BY <2>2, <2>5, <2>6, <2>7, Zenon DEF cells
  <1>2. CASE ~(chosen < 4)
    <2>1. \E x \in Below(chosen) : d = E(x)
      <3> DEFINE A == {[value |-> chosen, bits |-> s, cells |-> cells]}
                 B == {E(x) : x \in Below(chosen)}
      <3>1. FromSlot(tree, s) = IF chosen < 4 THEN A ELSE B
        BY DEF FromSlot
      <3> HIDE DEF A, B, chosen
      <3>2. d \in B
        BY <1>2, <3>1
      <3> HIDE DEF E
      <3> QED BY <3>2 DEF B
    <2>2. PICK x \in Below(chosen) : d = E(x)
      BY <2>1
    <2>3. d.bits = s \o x.bits /\ d.cells = cells \o x.cells
      BY <2>2
    <2>4. x \in Tails(chosen)
      BY <1>2 DEF Tails
    <2> QED BY <2>3, <2>4
  <1> QED BY <1>1, <1>2

LEMMA DistancesAre ==
    ASSUME NEW tree \in Nat
    PROVE  /\ Book(Distances(tree))
           /\ \A d \in Distances(tree) : \A i \in 1..Len(d.bits) :
                 /\ d.cells[i].of = "lzma"
                 /\ d.cells[i].array \in TailArrays \cup {"pos_slot_decoder"}
  <1> DEFINE n == SlotBits
             root == Cell("pos_slot_decoder", tree * Pow2(SlotBits))
             Is(d, s, x) == /\ x \in Tails(TreeValue(s))
                            /\ d.bits = s \o x.bits /\ d.cells = TreeCells(root, s) \o x.cells
  <1>1. /\ n \in Nat \ {0} /\ root \in Cells
        /\ root.of = "lzma" /\ root.array = "pos_slot_decoder"
    <2>1. tree * Pow2(SlotBits) \in Int
      BY PowerOfMore, DistanceAssumption
    <2> QED BY <2>1, CellIs, DistanceAssumption DEF Arrays
  <1>2. \A d \in Distances(tree) : \E s \in Bits(n) : \E x : Is(d, s, x)
    <2> SUFFICES ASSUME NEW d \in Distances(tree)
                 PROVE  \E s \in Bits(n) : \E x : Is(d, s, x)
      OBVIOUS
    <2>1. PICK s \in Bits(n) : d \in FromSlot(tree, s)
      BY DEF Distances
    <2>2. PICK x \in Tails(TreeValue(s)) :
              d.bits = s \o x.bits /\ d.cells = TreeCells(root, s) \o x.cells
      BY <2>1, SlotsAre
    <2> QED BY <2>2
  <1> HIDE DEF n, root
  <1>3. ASSUME NEW s \in Bits(n)
        PROVE  /\ WellFormed(TreeCells(root, s), s) /\ Len(s) = n /\ TreeValue(s) \in Nat
               /\ \A i \in 1..n : /\ TreeCells(root, s)[i].of = "lzma"
                                  /\ TreeCells(root, s)[i].array = "pos_slot_decoder"
    <2>1. TreeValue(s) \in Nat
      <3>1. TreeValue(s) \in 0..(Pow2(n) - 1)
        BY <1>1, TreeValueIs
      <3> QED BY <3>1
    <2> QED BY <1>1, <2>1, TreeIsWellFormed
  <1>4. ASSUME NEW d \in Distances(tree), NEW s \in Bits(n), NEW x, Is(d, s, x)
        PROVE  /\ WellFormed(d.cells, d.bits) /\ Len(d.bits) >= 1
               /\ \A i \in 1..Len(d.bits) :
                   /\ d.cells[i].of = "lzma"
                   /\ d.cells[i].array \in TailArrays \cup {"pos_slot_decoder"}
    <2> DEFINE c == TreeCells(root, s)
               u == d.bits
               e == d.cells
               v == x.bits
               f == x.cells
    <2>1. /\ WellFormed(c, s) /\ Len(s) = n /\ TreeValue(s) \in Nat
          /\ \A i \in 1..n : c[i].of = "lzma" /\ c[i].array = "pos_slot_decoder"
      BY <1>3
    <2>2. /\ WellFormed(f, v)
          /\ \A i \in 1..Len(v) : f[i].of = "lzma" /\ f[i].array \in TailArrays
      BY <1>4, <2>1, TailsAre
    <2>3. u = s \o v /\ e = c \o f
      BY <1>4
    <2> HIDE DEF c, u, e, v, f, Is
    <2>4. \A i \in 1..Len(s), j \in 1..Len(v) : c[i] # f[j]
      BY <2>1, <2>2 DEF TailArrays
    <2>5. WellFormed(c \o f, s \o v) /\ Pieces(c, s, f, v, c \o f, s \o v)
      BY <2>1, <2>2, <2>4, JoinedWellFormed, JoinedPieces
    <2>6. WellFormed(e, u) /\ Pieces(c, s, f, v, e, u)
      BY <2>3, <2>5
    <2>7. Len(u) = n + Len(v) /\ Len(v) \in Nat
      BY <2>1, <2>6 DEF Pieces
    <2>8. ASSUME NEW i \in 1..Len(u)
          PROVE  e[i].of = "lzma" /\ e[i].array \in TailArrays \cup {"pos_slot_decoder"}
      <3>1. CASE i \in 1..n
        BY <2>1, <2>6, <3>1 DEF Pieces
      <3>2. CASE i \notin 1..n
        <4> DEFINE k == i - n
        <4>1. k \in 1..Len(v) /\ n + k = i
          BY <1>1, <2>7, <3>2
        <4> HIDE DEF k
        <4> QED BY <2>1, <2>2, <2>6, <4>1 DEF Pieces
      <3> QED BY <3>1, <3>2
    <2>9. Len(u) >= 1
      BY <1>1, <2>7
    <2> QED BY <2>6, <2>8, <2>9 DEF u, e
  <1>5. ASSUME NEW d \in Distances(tree), NEW s \in Bits(n), NEW x, Is(d, s, x),
               NEW g \in Distances(tree), NEW t \in Bits(n), NEW y, Is(g, t, y)
        PROVE  Branch(d.cells, d.bits, g.cells, g.bits)
    <2>1. /\ WellFormed(TreeCells(root, s), s) /\ Len(s) = n /\ TreeValue(s) \in Nat
          /\ WellFormed(TreeCells(root, t), t) /\ Len(t) = n /\ TreeValue(t) \in Nat
      BY <1>3
    <2>2. WellFormed(x.cells, x.bits) /\ WellFormed(y.cells, y.bits)
      BY <1>5, <2>1, TailsAre
    <2>3. s = t => Branch(x.cells, x.bits, y.cells, y.bits)
      BY <1>5, <2>1, TailsAre
    <2>4. Branch(TreeCells(root, s), s, TreeCells(root, t), t)
      BY <1>1, TreeBranches
    <2>5. Branch(TreeCells(root, s) \o x.cells, s \o x.bits, TreeCells(root, t) \o y.cells, t \o y.bits)
      BY <2>1, <2>2, <2>3, <2>4, JoinedBranches
    <2> QED BY <1>5, <2>5
  <1> HIDE DEF Is
  <1>6. \A d \in Distances(tree) :
            /\ WellFormed(d.cells, d.bits) /\ Len(d.bits) >= 1
            /\ \A i \in 1..Len(d.bits) :
                   /\ d.cells[i].of = "lzma"
                   /\ d.cells[i].array \in TailArrays \cup {"pos_slot_decoder"}
    BY <1>2, <1>4
  <1>7. \A d, g \in Distances(tree) : Branch(d.cells, d.bits, g.cells, g.bits)
    BY <1>2, <1>5
  <1> QED BY <1>6, <1>7 DEF Book

LEMMA SpellingIs ==
    ASSUME NEW byte \in Nat
    PROVE  Spelling(byte) \in Bits(LitBits)
  <1>1. \A i \in 1..LitBits : (byte \div Pow2(LitBits - i)) % 2 \in Bit
    <2> TAKE i \in 1..LitBits
    <2>1. LitBits - i \in Nat
      BY PropsAssumption
    <2>2. Pow2(LitBits - i) \in Nat \ {0}
      BY <2>1, PowerOfMore
    <2> DEFINE p == Pow2(LitBits - i)
    <2> HIDE DEF p
    <2>3. byte \div p \in Nat
      BY <2>2 DEF p
    <2>4. (byte \div p) % 2 \in {0, 1}
      BY <2>3
    <2> QED BY <2>4 DEF p, Bit
  <1> QED BY <1>1 DEF Spelling, Bits

\* What the window holds.
LEMMA TextIs ==
    ASSUME text \in Seq(Byte), NEW i \in 1..Len(text)
    PROVE  text[i] \in Nat
  <1>1. text[i] \in Byte
    OBVIOUS
  <1>2. Pow2(LitBits) \in Nat
    BY PropsAssumption, PowerOfMore
  <1> QED BY <1>1, <1>2 DEF Byte

LEMMA LitStateIs ==
    ASSUME text \in Seq(Byte), len \in 0..Len(text)
    PROVE  lit_state \in Nat
  <1>1. Pow2(Lp) \in Nat \ {0} /\ Pow2(Lc) \in Nat /\ Pow2(LitBits - Lc) \in Nat \ {0}
    <2>1. Lp \in Nat /\ Lc \in Nat /\ LitBits - Lc \in Nat
      BY PropsAssumption
    <2> QED BY <2>1, PowerOfMore
  <1>2. last_or \in Nat
    <2>1. len # 0 => len \in 1..Len(text)
      OBVIOUS
    <2> QED BY <2>1, TextIs DEF last_or
  <1> DEFINE a == Pow2(Lp)
             b == Pow2(Lc)
             d == Pow2(LitBits - Lc)
  <1>3. a \in Nat \ {0} /\ b \in Nat /\ d \in Nat \ {0} /\ len \in Nat
    BY <1>1, WindowAssumption
  <1> HIDE DEF a, b, d
  <1>4. len % a \in Nat /\ last_or \div d \in Nat
    BY <1>2, <1>3
  <1>5. (len % a) * b \in Nat
    BY <1>3, <1>4
  <1>6. (len % a) * b + (last_or \div d) \in Nat
    BY <1>4, <1>5
  <1> QED BY <1>6 DEF lit_state, a, b, d

\* A literal reads each cell once: those that depend on the matched byte are
\* above the others.
LEMMA LiteralIsWellFormed ==
    ASSUME text \in Seq(Byte), len \in 0..Len(text), rep[1] \in Nat, NEW matched \in BOOLEAN,
           matched => ~TooFar(rep[1] + 1), NEW s \in Bits(LitBits)
    PROVE  /\ WellFormed(LiteralCells(s, matched), s) /\ Len(s) = LitBits
           /\ \A i \in 1..LitBits : /\ LiteralCells(s, matched)[i].of = "lzma"
                                    /\ LiteralCells(s, matched)[i].array = "literal_probs"
  <1> DEFINE p == Pow2(LitBits)
             m == Spelling(IF matched THEN text[len - rep[1]] ELSE 0)
             Agrees(i) == matched /\ \A j \in 1..(i - 1) : s[j] = m[j]
             base == lit_state * 3 * p
             node(i) == Nodes(s)[i - 1]
             off(i) == IF Agrees(i) THEN (1 + m[i]) * p ELSE 0
             c == LiteralCells(s, matched)
  <1>1. s \in Seq(Bit) /\ Len(s) = LitBits /\ LitBits \in Nat \ {0}
    BY NodesAre, PropsAssumption
  <1>2. p \in Nat /\ \A i \in 1..LitBits : node(i) \in Nat /\ node(i) < p
    <2>1. p \in Nat
      BY <1>1, PowerOfMore
    <2>2. ASSUME NEW i \in 1..LitBits PROVE node(i) \in Nat /\ node(i) < p
      <3>1. i - 1 \in 0..LitBits /\ i - 1 \in Nat /\ i - 1 < LitBits
        BY <1>1
      <3>2. Nodes(s)[i - 1] \in Nat /\ Nodes(s)[i - 1] < 2 * Pow2(i - 1) /\ Pow2(i - 1) \in Nat
        BY <1>1, <3>1, NodeRange
      <3>3. 2 * Pow2(i - 1) <= Pow2(LitBits)
        BY <1>1, <3>1, PowerGrows
      <3> QED BY <2>1, <3>2, <3>3
    <2> QED BY <2>1, <2>2
  <1>3. \A i, j \in 1..LitBits : i < j => node(i) < node(j)
    <2> TAKE i, j \in 1..LitBits
    <2>1. i - 1 \in 0..LitBits /\ j - 1 \in 0..LitBits /\ (i < j => i - 1 < j - 1)
      BY <1>1
    <2> QED BY <1>1, <2>1, NodesGrow
  <1>4. m \in Bits(LitBits)
    <2>1. matched => text[len - rep[1]] \in Nat
      <3>1. matched => len - rep[1] \in 1..Len(text)
        BY WindowAssumption DEF TooFar
      <3> QED BY <3>1, TextIs
    <2> QED BY <2>1, SpellingIs
  <1>5. base \in Nat
    BY <1>2, LitStateIs
  <1> HIDE DEF p, m, base, node
  <1>6. \A i \in 1..LitBits : off(i) \in {0, p, 2 * p}
    <2> TAKE i \in 1..LitBits
    <2>1. m[i] \in {0, 1}
      BY <1>4 DEF Bits, Bit
    <2>2. (1 + m[i]) * p \in {p, 2 * p}
      BY <1>2, <2>1
    <2> QED BY <2>2
  <1>7. /\ Len(c) = LitBits
        /\ c = [i \in 1..LitBits |-> Cell("literal_probs", base + node(i) + off(i))]
    BY <1>1 DEF LiteralCells, p, m, base, node
  <1> HIDE DEF Agrees, off
  <1>8. \A i \in 1..LitBits : base + node(i) + off(i) \in Int
    BY <1>2, <1>5, <1>6
  <1>9. \A i \in 1..LitBits : /\ c[i] \in Cells /\ c[i].at = base + node(i) + off(i)
                              /\ c[i].of = "lzma" /\ c[i].array = "literal_probs"
    <2> TAKE i \in 1..LitBits
    <2>1. c[i] = Cell("literal_probs", base + node(i) + off(i))
      BY <1>7
    <2> HIDE DEF c
    <2> QED BY <1>8, <2>1, CellIs DEF Arrays
  <1>10. c \in Seq(Cells)
    <2>1. c \in [1..LitBits -> Cells]
      BY <1>7, <1>9
    <2> QED BY <1>1, <2>1
  <1> HIDE DEF c
  <1>11. \A i, j \in 1..LitBits : i < j => c[i] # c[j]
    <2> SUFFICES ASSUME NEW i \in 1..LitBits, NEW j \in 1..LitBits, i < j
                 PROVE  base + node(i) + off(i) # base + node(j) + off(j)
      BY <1>9
    <2>1. /\ node(i) \in Nat /\ node(j) \in Nat /\ node(i) < node(j) /\ node(j) < p
          /\ off(i) \in {0, p, 2 * p} /\ off(j) \in {0, p, 2 * p} /\ base \in Nat /\ p \in Nat
      BY <1>2, <1>3, <1>5, <1>6
    <2> DEFINE x == node(i)
               y == node(j)
               a == off(i)
               b == off(j)
    <2> HIDE DEF x, y, a, b
    <2>2. base + x + a # base + y + b
      BY <2>1 DEF x, y, a, b
    <2> QED BY <2>2 DEF x, y, a, b
  <1>12. WellFormed(c, s)
    BY <1>1, <1>7, <1>10, <1>11 DEF WellFormed
  <1> QED BY <1>1, <1>9, <1>12 DEF c

-----------------------------------------------------------------------------
(* What can be read from a stage of a symbol on *)

\* The literal that comes next, if it can.
LiteralOption ==
    LET s == Spelling(text[len + 1])
    IN  [cells |-> LiteralCells(s, state >= 7), bits |-> s, next |-> "idle", length |-> 0]

Literals ==
    IF len < Len(text) /\ ~(state >= 7 /\ TooFar(rep[1] + 1)) THEN {LiteralOption} ELSE {}

\* What the decoder is in, as far as it decides what is read.
Now == [st |-> state, ps |-> pos_state, lit |-> Literals]

\* The lengths, at a position.
LengthsAt(lens, ps) ==
    LET choice    == LenCell(lens, "choice", 0)
        choice2   == LenCell(lens, "choice2", 0)
        LowAt(s)  == TreeCells(LenCell(lens, "low_coder", ps * Pow2(LowBits)), s)
        MidAt(s)  == TreeCells(LenCell(lens, "mid_coder", ps * Pow2(LowBits)), s)
        HighAt(s) == TreeCells(LenCell(lens, "high_coder", 0), s)
    IN  {[value |-> TreeValue(s), bits |-> <<0>> \o s,
          cells |-> <<choice>> \o LowAt(s)] : s \in Bits(LowBits)}
        \cup
        {[value |-> TreeValue(s) + Pow2(LowBits), bits |-> <<1, 0>> \o s,
          cells |-> <<choice, choice2>> \o MidAt(s)] : s \in Bits(LowBits)}
        \cup
        {[value |-> TreeValue(s) + 2 * Pow2(LowBits), bits |-> <<1, 1>> \o s,
          cells |-> <<choice, choice2>> \o HighAt(s)] : s \in Bits(HighBits)}

LEMMA LengthsNow == ASSUME NEW lens PROVE Lengths(lens) = LengthsAt(lens, pos_state)
  BY DEF Lengths, LengthsAt

Option(c, s, next, n) == [cells |-> c, bits |-> s, next |-> next, length |-> n]

Flags(array, i, zero, one) ==
    {Option(<<Cell(array, i)>>, <<0>>, zero, 0), Option(<<Cell(array, i)>>, <<1>>, one, 0)}

Posed(e) == e.st * Pow2(PosBits) + e.ps

\* What can be read next, and where it leads; e is what the decoder is in.
Options(stage, n, e) ==
    CASE stage = "is_match"     -> Flags("is_match", Posed(e), "literal", "is_rep")
      [] stage = "literal"      -> e.lit
      [] stage = "is_rep"       -> Flags("is_rep", e.st, "len", "is_rep_g0")
      [] stage = "is_rep_g0"    -> Flags("is_rep_g0", e.st, "is_rep_0long", "is_rep_g1")
      [] stage = "is_rep_0long" -> Flags("is_rep_0long", Posed(e), "idle", "rep_len")
      [] stage = "is_rep_g1"    -> Flags("is_rep_g1", e.st, "rep_len", "is_rep_g2")
      [] stage = "is_rep_g2"    -> Flags("is_rep_g2", e.st, "rep_len", "rep_len")
      [] stage = "rep_len"      -> {Option(l.cells, l.bits, "idle", 0) : l \in LengthsAt("rep_len", e.ps)}
      [] stage = "len"          -> {Option(l.cells, l.bits, "distance", l.value) : l \in LengthsAt("len", e.ps)}
      [] stage = "distance"     -> {Option(d.cells, d.bits, "idle", 0) : d \in Distances(IF n > 3 THEN 3 ELSE n)}
      [] OTHER                  -> {}

\* o is read, and then one of R.
Ahead(o, R) == {Zip(o.cells, o.bits) \o r : r \in R \cap Seq(Entries)}

\* What completes the symbol, stage by stage.
End == {<<>>}
DistanceRests(n) == UNION {Ahead(o, End) : o \in Options("distance", n, 0)}
LenRests(e) == UNION {Ahead(o, DistanceRests(o.length)) : o \in Options("len", 0, e)}
RepLenRests(e) == UNION {Ahead(o, End) : o \in Options("rep_len", 0, e)}
G2Rests(e) == UNION {Ahead(o, RepLenRests(e)) : o \in Options("is_rep_g2", 0, e)}
G1Rests(e) ==
    UNION {Ahead(o, IF o.next = "rep_len" THEN RepLenRests(e) ELSE G2Rests(e)) :
              o \in Options("is_rep_g1", 0, e)}
LongRests(e) ==
    UNION {Ahead(o, IF o.next = "idle" THEN End ELSE RepLenRests(e)) :
              o \in Options("is_rep_0long", 0, e)}
G0Rests(e) ==
    UNION {Ahead(o, IF o.next = "is_rep_0long" THEN LongRests(e) ELSE G1Rests(e)) :
              o \in Options("is_rep_g0", 0, e)}
RepRests(e) ==
    UNION {Ahead(o, IF o.next = "len" THEN LenRests(e) ELSE G0Rests(e)) :
              o \in Options("is_rep", 0, e)}
LiteralRests(e) == UNION {Ahead(o, End) : o \in Options("literal", 0, e)}
MatchRests(e) ==
    UNION {Ahead(o, IF o.next = "literal" THEN LiteralRests(e) ELSE RepRests(e)) :
              o \in Options("is_match", 0, e)}

Rests(stage, n, e) ==
    CASE stage = "is_match"     -> MatchRests(e)
      [] stage = "literal"      -> LiteralRests(e)
      [] stage = "is_rep"       -> RepRests(e)
      [] stage = "is_rep_g0"    -> G0Rests(e)
      [] stage = "is_rep_0long" -> LongRests(e)
      [] stage = "is_rep_g1"    -> G1Rests(e)
      [] stage = "is_rep_g2"    -> G2Rests(e)
      [] stage = "rep_len"      -> RepLenRests(e)
      [] stage = "len"          -> LenRests(e)
      [] stage = "distance"     -> DistanceRests(n)
      [] OTHER                  -> End

Stages == {"is_match", "literal", "is_rep", "is_rep_g0", "is_rep_0long", "is_rep_g1",
           "is_rep_g2", "rep_len", "len", "distance"}

LEMMA OptionIs ==
    ASSUME NEW c, NEW s, NEW next, NEW n
    PROVE  /\ Option(c, s, next, n).cells = c /\ Option(c, s, next, n).bits = s
           /\ Option(c, s, next, n).next = next /\ Option(c, s, next, n).length = n
  BY DEF Option

LEMMA FlagsAre ==
    ASSUME NEW array, NEW i, NEW zero, NEW one, NEW o \in Flags(array, i, zero, one)
    PROVE  /\ o.cells = <<Cell(array, i)>> /\ o.length = 0
           /\ \/ o.bits = <<0>> /\ o.next = zero
              \/ o.bits = <<1>> /\ o.next = one
  BY OptionIs DEF Flags

\* Where the options of a stage lead.
LEMMA NextStages ==
    ASSUME NEW stage \in Stages, NEW n, NEW e, \A l \in e.lit : l.next = "idle",
           NEW o \in Options(stage, n, e)
    PROVE  CASE stage = "is_match"     -> o.next \in {"literal", "is_rep"}
             [] stage = "is_rep"       -> o.next \in {"len", "is_rep_g0"}
             [] stage = "is_rep_g0"    -> o.next \in {"is_rep_0long", "is_rep_g1"}
             [] stage = "is_rep_0long" -> o.next \in {"idle", "rep_len"}
             [] stage = "is_rep_g1"    -> o.next \in {"rep_len", "is_rep_g2"}
             [] stage = "is_rep_g2"    -> o.next = "rep_len"
             [] stage = "len"          -> o.next = "distance"
             [] OTHER                  -> o.next = "idle"
  <1>1. CASE stage \in {"is_match", "is_rep", "is_rep_g0", "is_rep_0long", "is_rep_g1", "is_rep_g2"}
    BY <1>1, FlagsAre DEF Options
  <1>2. CASE stage = "literal"
    BY <1>2 DEF Options
  <1>3. CASE stage = "rep_len"
    <2>1. PICK l \in LengthsAt("rep_len", e.ps) : o = Option(l.cells, l.bits, "idle", 0)
      BY <1>3 DEF Options
    <2> QED BY <1>3, <2>1, OptionIs
  <1>4. CASE stage = "len"
    <2>1. PICK l \in LengthsAt("len", e.ps) : o = Option(l.cells, l.bits, "distance", l.value)
      BY <1>4 DEF Options
    <2> QED BY <1>4, <2>1, OptionIs
  <1>5. CASE stage = "distance"
    <2>1. PICK d \in Distances(IF n > 3 THEN 3 ELSE n) : o = Option(d.cells, d.bits, "idle", 0)
      BY <1>5 DEF Options
    <2> QED BY <1>5, <2>1, OptionIs
  <1> QED BY <1>1, <1>2, <1>3, <1>4, <1>5 DEF Stages

\* The options of a stage do not depend on a length, but for the distance.
LEMMA OptionsOfNone ==
    ASSUME NEW stage \in Stages, stage # "distance", NEW n, NEW e
    PROVE  Options(stage, n, e) = Options(stage, 0, e)
  BY DEF Options, Stages

LEMMA AheadIs ==
    ASSUME NEW o, NEW R, NEW x
    PROVE  x \in Ahead(o, R) <=> \E r \in R \cap Seq(Entries) : x = Zip(o.cells, o.bits) \o r
  BY DEF Ahead

\* The rests of a stage are its options, each with the rests of its next stage.
LEMMA RestsAre ==
    ASSUME NEW stage \in Stages, NEW n, NEW e, \A l \in e.lit : l.next = "idle"
    PROVE  \A x : x \in Rests(stage, n, e) <=>
              \E o \in Options(stage, n, e) : \E r \in Rests(o.next, o.length, e) \cap Seq(Entries) :
                 x = Zip(o.cells, o.bits) \o r
  <1>1. CASE stage = "distance"
    <2>1. Rests(stage, n, e) = DistanceRests(n)
      BY <1>1 DEF Rests
    <2>2. \A o \in Options(stage, n, e) : Rests(o.next, o.length, e) = End
      BY <1>1, NextStages DEF Rests
    <2>3. Options(stage, n, e) = Options("distance", n, 0)
      BY <1>1 DEF Options
    <2>4. \A x : x \in DistanceRests(n) <=>
                \E o \in Options("distance", n, 0) : x \in Ahead(o, End)
      BY Zenon DEF DistanceRests
    <2>5. \A x : x \in Rests(stage, n, e) <=>
                \E o \in Options(stage, n, e) : x \in Ahead(o, Rests(o.next, o.length, e))
      BY <2>1, <2>2, <2>3, <2>4
    <2> QED BY <2>5, AheadIs
  <1>2. CASE stage = "len"
    <2>1. Rests(stage, n, e) = LenRests(e)
      BY <1>2 DEF Rests
    <2>2. \A o \in Options(stage, n, e) : Rests(o.next, o.length, e) = DistanceRests(o.length)
      <3> SUFFICES ASSUME NEW o \in Options(stage, n, e)
                   PROVE  Rests(o.next, o.length, e) = DistanceRests(o.length)
        OBVIOUS
      <3>1. o.next \in {"distance"}
        BY <1>2, NextStages
      <3> QED BY <3>1 DEF Rests
    <2>3. Options(stage, n, e) = Options("len", 0, e)
      BY <1>2, OptionsOfNone
    <2>4. \A x : x \in LenRests(e) <=>
                \E o \in Options("len", 0, e) : x \in Ahead(o, DistanceRests(o.length))
      BY Zenon DEF LenRests
    <2>5. \A x : x \in Rests(stage, n, e) <=>
                \E o \in Options(stage, n, e) : x \in Ahead(o, Rests(o.next, o.length, e))
      BY <2>1, <2>2, <2>3, <2>4
    <2> QED BY <2>5, AheadIs
  <1>3. CASE stage = "rep_len"
    <2>1. Rests(stage, n, e) = RepLenRests(e)
      BY <1>3 DEF Rests
    <2>2. \A o \in Options(stage, n, e) : Rests(o.next, o.length, e) = End
      <3> SUFFICES ASSUME NEW o \in Options(stage, n, e)
                   PROVE  Rests(o.next, o.length, e) = End
        OBVIOUS
      <3>1. o.next \in {"idle"}
        BY <1>3, NextStages
      <3> QED BY <3>1 DEF Rests
    <2>3. Options(stage, n, e) = Options("rep_len", 0, e)
      BY <1>3, OptionsOfNone
    <2>4. \A x : x \in RepLenRests(e) <=>
                \E o \in Options("rep_len", 0, e) : x \in Ahead(o, End)
      BY Zenon DEF RepLenRests
    <2>5. \A x : x \in Rests(stage, n, e) <=>
                \E o \in Options(stage, n, e) : x \in Ahead(o, Rests(o.next, o.length, e))
      BY <2>1, <2>2, <2>3, <2>4
    <2> QED BY <2>5, AheadIs
  <1>4. CASE stage = "literal"
    <2>1. Rests(stage, n, e) = LiteralRests(e)
      BY <1>4 DEF Rests
    <2>2. \A o \in Options(stage, n, e) : Rests(o.next, o.length, e) = End
      <3> SUFFICES ASSUME NEW o \in Options(stage, n, e)
                   PROVE  Rests(o.next, o.length, e) = End
        OBVIOUS
      <3>1. o.next \in {"idle"}
        BY <1>4, NextStages
      <3> QED BY <3>1 DEF Rests
    <2>3. Options(stage, n, e) = Options("literal", 0, e)
      BY <1>4, OptionsOfNone
    <2>4. \A x : x \in LiteralRests(e) <=>
                \E o \in Options("literal", 0, e) : x \in Ahead(o, End)
      BY Zenon DEF LiteralRests
    <2>5. \A x : x \in Rests(stage, n, e) <=>
                \E o \in Options(stage, n, e) : x \in Ahead(o, Rests(o.next, o.length, e))
      BY <2>1, <2>2, <2>3, <2>4
    <2> QED BY <2>5, AheadIs
  <1>5. CASE stage = "is_rep_g2"
    <2>1. Rests(stage, n, e) = G2Rests(e)
      BY <1>5 DEF Rests
    <2>2. \A o \in Options(stage, n, e) : Rests(o.next, o.length, e) = RepLenRests(e)
      <3> SUFFICES ASSUME NEW o \in Options(stage, n, e)
                   PROVE  Rests(o.next, o.length, e) = RepLenRests(e)
        OBVIOUS
      <3>1. o.next \in {"rep_len"}
        BY <1>5, NextStages
      <3> QED BY <3>1 DEF Rests
    <2>3. Options(stage, n, e) = Options("is_rep_g2", 0, e)
      BY <1>5, OptionsOfNone
    <2>4. \A x : x \in G2Rests(e) <=>
                \E o \in Options("is_rep_g2", 0, e) : x \in Ahead(o, RepLenRests(e))
      BY Zenon DEF G2Rests
    <2>5. \A x : x \in Rests(stage, n, e) <=>
                \E o \in Options(stage, n, e) : x \in Ahead(o, Rests(o.next, o.length, e))
      BY <2>1, <2>2, <2>3, <2>4
    <2> QED BY <2>5, AheadIs
  <1>6. CASE stage = "is_rep_g1"
    <2>1. Rests(stage, n, e) = G1Rests(e)
      BY <1>6 DEF Rests
    <2>2. \A o \in Options(stage, n, e) : Rests(o.next, o.length, e) = IF o.next = "rep_len" THEN RepLenRests(e) ELSE G2Rests(e)
      <3> SUFFICES ASSUME NEW o \in Options(stage, n, e)
                   PROVE  Rests(o.next, o.length, e) = IF o.next = "rep_len" THEN RepLenRests(e) ELSE G2Rests(e)
        OBVIOUS
      <3>1. o.next \in {"rep_len", "is_rep_g2"}
        BY <1>6, NextStages
      <3> QED BY <3>1 DEF Rests
    <2>3. Options(stage, n, e) = Options("is_rep_g1", 0, e)
      BY <1>6, OptionsOfNone
    <2>4. \A x : x \in G1Rests(e) <=>
                \E o \in Options("is_rep_g1", 0, e) : x \in Ahead(o, IF o.next = "rep_len" THEN RepLenRests(e) ELSE G2Rests(e))
      BY Zenon DEF G1Rests
    <2>5. \A x : x \in Rests(stage, n, e) <=>
                \E o \in Options(stage, n, e) : x \in Ahead(o, Rests(o.next, o.length, e))
      BY <2>1, <2>2, <2>3, <2>4
    <2> QED BY <2>5, AheadIs
  <1>7. CASE stage = "is_rep_0long"
    <2>1. Rests(stage, n, e) = LongRests(e)
      BY <1>7 DEF Rests
    <2>2. \A o \in Options(stage, n, e) : Rests(o.next, o.length, e) = IF o.next = "idle" THEN End ELSE RepLenRests(e)
      <3> SUFFICES ASSUME NEW o \in Options(stage, n, e)
                   PROVE  Rests(o.next, o.length, e) = IF o.next = "idle" THEN End ELSE RepLenRests(e)
        OBVIOUS
      <3>1. o.next \in {"idle", "rep_len"}
        BY <1>7, NextStages
      <3> QED BY <3>1 DEF Rests
    <2>3. Options(stage, n, e) = Options("is_rep_0long", 0, e)
      BY <1>7, OptionsOfNone
    <2>4. \A x : x \in LongRests(e) <=>
                \E o \in Options("is_rep_0long", 0, e) : x \in Ahead(o, IF o.next = "idle" THEN End ELSE RepLenRests(e))
      BY Zenon DEF LongRests
    <2>5. \A x : x \in Rests(stage, n, e) <=>
                \E o \in Options(stage, n, e) : x \in Ahead(o, Rests(o.next, o.length, e))
      BY <2>1, <2>2, <2>3, <2>4
    <2> QED BY <2>5, AheadIs
  <1>8. CASE stage = "is_rep_g0"
    <2>1. Rests(stage, n, e) = G0Rests(e)
      BY <1>8 DEF Rests
    <2>2. \A o \in Options(stage, n, e) : Rests(o.next, o.length, e) = IF o.next = "is_rep_0long" THEN LongRests(e) ELSE G1Rests(e)
      <3> SUFFICES ASSUME NEW o \in Options(stage, n, e)
                   PROVE  Rests(o.next, o.length, e) = IF o.next = "is_rep_0long" THEN LongRests(e) ELSE G1Rests(e)
        OBVIOUS
      <3>1. o.next \in {"is_rep_0long", "is_rep_g1"}
        BY <1>8, NextStages
      <3> QED BY <3>1 DEF Rests
    <2>3. Options(stage, n, e) = Options("is_rep_g0", 0, e)
      BY <1>8, OptionsOfNone
    <2>4. \A x : x \in G0Rests(e) <=>
                \E o \in Options("is_rep_g0", 0, e) : x \in Ahead(o, IF o.next = "is_rep_0long" THEN LongRests(e) ELSE G1Rests(e))
      BY Zenon DEF G0Rests
    <2>5. \A x : x \in Rests(stage, n, e) <=>
                \E o \in Options(stage, n, e) : x \in Ahead(o, Rests(o.next, o.length, e))
      BY <2>1, <2>2, <2>3, <2>4
    <2> QED BY <2>5, AheadIs
  <1>9. CASE stage = "is_rep"
    <2>1. Rests(stage, n, e) = RepRests(e)
      BY <1>9 DEF Rests
    <2>2. \A o \in Options(stage, n, e) : Rests(o.next, o.length, e) = IF o.next = "len" THEN LenRests(e) ELSE G0Rests(e)
      <3> SUFFICES ASSUME NEW o \in Options(stage, n, e)
                   PROVE  Rests(o.next, o.length, e) = IF o.next = "len" THEN LenRests(e) ELSE G0Rests(e)
        OBVIOUS
      <3>1. o.next \in {"len", "is_rep_g0"}
        BY <1>9, NextStages
      <3> QED BY <3>1 DEF Rests
    <2>3. Options(stage, n, e) = Options("is_rep", 0, e)
      BY <1>9, OptionsOfNone
    <2>4. \A x : x \in RepRests(e) <=>
                \E o \in Options("is_rep", 0, e) : x \in Ahead(o, IF o.next = "len" THEN LenRests(e) ELSE G0Rests(e))
      BY Zenon DEF RepRests
    <2>5. \A x : x \in Rests(stage, n, e) <=>
                \E o \in Options(stage, n, e) : x \in Ahead(o, Rests(o.next, o.length, e))
      BY <2>1, <2>2, <2>3, <2>4
    <2> QED BY <2>5, AheadIs
  <1>10. CASE stage = "is_match"
    <2>1. Rests(stage, n, e) = MatchRests(e)
      BY <1>10 DEF Rests
    <2>2. \A o \in Options(stage, n, e) : Rests(o.next, o.length, e) = IF o.next = "literal" THEN LiteralRests(e) ELSE RepRests(e)
      <3> SUFFICES ASSUME NEW o \in Options(stage, n, e)
                   PROVE  Rests(o.next, o.length, e) = IF o.next = "literal" THEN LiteralRests(e) ELSE RepRests(e)
        OBVIOUS
      <3>1. o.next \in {"literal", "is_rep"}
        BY <1>10, NextStages
      <3> QED BY <3>1 DEF Rests
    <2>3. Options(stage, n, e) = Options("is_match", 0, e)
      BY <1>10, OptionsOfNone
    <2>4. \A x : x \in MatchRests(e) <=>
                \E o \in Options("is_match", 0, e) : x \in Ahead(o, IF o.next = "literal" THEN LiteralRests(e) ELSE RepRests(e))
      BY Zenon DEF MatchRests
    <2>5. \A x : x \in Rests(stage, n, e) <=>
                \E o \in Options(stage, n, e) : x \in Ahead(o, Rests(o.next, o.length, e))
      BY <2>1, <2>2, <2>3, <2>4
    <2> QED BY <2>5, AheadIs
  <1> QED BY <1>1, <1>2, <1>3, <1>4, <1>5, <1>6, <1>7, <1>8, <1>9, <1>10 DEF Stages

\* The array of a cell, or the length decoder that has it.
Kind(cell) == IF cell.of = "lzma" THEN cell.array ELSE cell.of

\* What is read at a stage, and what has been before.
Fresh(stage) ==
    CASE stage = "literal"  -> {"literal_probs"}
      [] stage = "distance" -> TailArrays \cup {"pos_slot_decoder"}
      [] OTHER              -> {stage}

Seen(stage) ==
    CASE stage = "is_match"                       -> {}
      [] stage \in {"literal", "is_rep"}          -> {"is_match"}
      [] stage \in {"is_rep_g0", "len"}           -> {"is_match", "is_rep"}
      [] stage \in {"is_rep_0long", "is_rep_g1"}  -> {"is_match", "is_rep", "is_rep_g0"}
      [] stage = "is_rep_g2"                      -> {"is_match", "is_rep", "is_rep_g0", "is_rep_g1"}
      [] stage = "distance"                       -> {"is_match", "is_rep", "len"}
      [] OTHER -> {"is_match", "is_rep", "is_rep_g0", "is_rep_0long", "is_rep_g1", "is_rep_g2"}

LEMMA FreshIsNotSeen ==
    ASSUME NEW stage \in Stages, NEW k \in Fresh(stage)
    PROVE  k \notin Seen(stage)
  BY DEF Stages, Fresh, Seen, TailArrays

LEMMA SeenNext ==
    ASSUME NEW stage \in Stages, NEW n, NEW e, \A l \in e.lit : l.next = "idle",
           NEW o \in Options(stage, n, e), o.next # "idle"
    PROVE  Seen(stage) \cup Fresh(stage) \subseteq Seen(o.next) /\ o.next \in Stages
  <1>1. CASE stage = "is_match"
    BY <1>1, NextStages DEF Stages, Fresh, Seen
  <1>2. CASE stage = "is_rep"
    BY <1>2, NextStages DEF Stages, Fresh, Seen
  <1>3. CASE stage = "is_rep_g0"
    BY <1>3, NextStages DEF Stages, Fresh, Seen
  <1>4. CASE stage = "is_rep_0long"
    BY <1>4, NextStages DEF Stages, Fresh, Seen
  <1>5. CASE stage = "is_rep_g1"
    BY <1>5, NextStages DEF Stages, Fresh, Seen
  <1>6. CASE stage = "is_rep_g2"
    BY <1>6, NextStages DEF Stages, Fresh, Seen
  <1>7. CASE stage = "len"
    BY <1>7, NextStages DEF Stages, Fresh, Seen
  <1>8. CASE stage \in {"rep_len", "distance", "literal"}
    BY <1>8, NextStages DEF Stages
  <1> QED BY <1>1, <1>2, <1>3, <1>4, <1>5, <1>6, <1>7, <1>8 DEF Stages

\* Options that can be told apart, in cells that have not been read yet.
Proper(stage, O) ==
    /\ Book(O)
    /\ \A o \in O : \A i \in 1..Len(o.bits) : Kind(o.cells[i]) \in Fresh(stage)
    /\ \A o, q \in O : o.bits = q.bits => o.next = q.next /\ o.length = q.length

LEMMA FlagsProper ==
    ASSUME NEW array \in Arrays, NEW i \in Int, NEW zero, NEW one, Fresh(array) = {array}
    PROVE  Proper(array, Flags(array, i, zero, one))
  <1> DEFINE c == Cell(array, i)
             O == Flags(array, i, zero, one)
  <1>1. c \in Cells /\ c.of = "lzma" /\ c.array = array
    BY CellIs
  <1> HIDE DEF c
  <1>2. <<0>> # <<1>> /\ 0 \in Bit /\ 1 \in Bit /\ <<0>>[1] # <<1>>[1]
    BY DEF Bit
  <1>3. /\ WellFormed(<<c>>, <<0>>) /\ Len(<<0>>) = 1 /\ <<c>>[1] = c
        /\ WellFormed(<<c>>, <<1>>) /\ Len(<<1>>) = 1
    BY <1>1, <1>2, OneBit
  <1>4. /\ Branch(<<c>>, <<0>>, <<c>>, <<0>>) /\ Branch(<<c>>, <<1>>, <<c>>, <<1>>)
        /\ Branch(<<c>>, <<0>>, <<c>>, <<1>>) /\ Branch(<<c>>, <<1>>, <<c>>, <<0>>)
    BY <1>3, BranchItself DEF Branch
  <1>5. \A o \in O : /\ o.cells = <<c>> /\ o.length = 0
                     /\ (o.bits = <<0>> /\ o.next = zero) \/ (o.bits = <<1>> /\ o.next = one)
    BY FlagsAre DEF c
  <1> HIDE DEF O
  <1>6. Book(O)
    BY <1>3, <1>4, <1>5 DEF Book
  <1>7. \A o \in O : \A j \in 1..Len(o.bits) : Kind(o.cells[j]) = array
    <2> SUFFICES ASSUME NEW o \in O, NEW j \in 1..Len(o.bits) PROVE Kind(o.cells[j]) = array
      OBVIOUS
    <2>1. Len(o.bits) = 1 /\ o.cells = <<c>>
      BY <1>3, <1>5
    <2>2. j = 1
      BY <2>1
    <2>3. o.cells[j] = c
      BY <1>3, <2>1, <2>2
    <2> QED BY <1>1, <2>3 DEF Kind
  <1>8. \A o, q \in O : o.bits = q.bits => o.next = q.next /\ o.length = q.length
    BY <1>2, <1>5
  <1> QED BY <1>6, <1>7, <1>8 DEF Proper, O

LEMMA NowIs ==
    ASSUME TypeOK
    PROVE  /\ Now.st = state /\ Now.ps = pos_state /\ Now.lit = Literals
           /\ state \in Nat /\ pos_state \in Nat /\ Posed(Now) \in Int
           /\ \A l \in Now.lit : l.next = "idle"
  <1>1. Now.st = state /\ Now.ps = pos_state /\ Now.lit = Literals
    BY DEF Now
  <1>2. state \in Nat /\ len \in Nat
    BY WindowAssumption DEF TypeOK
  <1>3. Pow2(Pb) \in Nat \ {0} /\ Pow2(PosBits) \in Nat
    BY PropsAssumption, PowerOfMore
  <1>4. pos_state \in Nat
    BY <1>2, <1>3 DEF pos_state
  <1>5. Posed(Now) \in Int
    BY <1>1, <1>2, <1>3, <1>4 DEF Posed
  <1>6. \A l \in Literals : l.next = "idle"
    BY DEF Literals, LiteralOption
  <1> QED BY <1>1, <1>2, <1>4, <1>5, <1>6

LEMMA LiteralsProper == ASSUME TypeOK PROVE Proper("literal", Literals)
  <1> DEFINE o == LiteralOption
             s == Spelling(text[len + 1])
             c == LiteralCells(s, state >= 7)
  <1>1. CASE ~(len < Len(text) /\ ~(state >= 7 /\ TooFar(rep[1] + 1)))
    <2>1. Literals = {}
      BY <1>1 DEF Literals
    <2> QED BY <2>1 DEF Proper, Book
  <1>2. CASE len < Len(text) /\ ~(state >= 7 /\ TooFar(rep[1] + 1))
    <2>1. Literals = {o}
      BY <1>2 DEF Literals
    <2>2. o.cells = c /\ o.bits = s
      BY DEF LiteralOption
    <2>3. s \in Bits(LitBits)
      <3>1. len + 1 \in 1..Len(text) /\ text \in Seq(Byte)
        BY <1>2, WindowAssumption DEF TypeOK
      <3>2. text[len + 1] \in Nat
        BY <3>1, TextIs
      <3> QED BY <3>2, SpellingIs
    <2>4. /\ WellFormed(c, s) /\ Len(s) = LitBits
          /\ \A i \in 1..LitBits : c[i].of = "lzma" /\ c[i].array = "literal_probs"
      <3>1. /\ text \in Seq(Byte) /\ len \in 0..Len(text) /\ rep[1] \in Nat /\ (state >= 7) \in BOOLEAN
            /\ (state >= 7) => ~TooFar(rep[1] + 1)
        BY <1>2 DEF TypeOK
      <3> QED BY <2>3, <3>1, LiteralIsWellFormed
    <2> HIDE DEF c, s, o
    <2>5. Branch(c, s, c, s)
      BY <2>4, BranchItself
    <2> QED BY <2>1, <2>2, <2>4, <2>5, PropsAssumption DEF Proper, Book, Kind, Fresh
  <1> QED BY <1>1, <1>2

\* Options made of codes.
LEMMA CodesProper ==
    ASSUME NEW stage, NEW C, Book(C), NEW next, NEW O,
           \A o \in O : \E l \in C : o.cells = l.cells /\ o.bits = l.bits /\ o.next = next,
           \A o, q \in O : o.bits = q.bits => o.length = q.length,
           \A l \in C : \A i \in 1..Len(l.bits) : Kind(l.cells[i]) \in Fresh(stage)
    PROVE  Proper(stage, O)
  <1>1. \A o \in O : WellFormed(o.cells, o.bits) /\ Len(o.bits) >= 1
    BY DEF Book
  <1>2. \A o, q \in O : Branch(o.cells, o.bits, q.cells, q.bits)
    <2> SUFFICES ASSUME NEW o \in O, NEW q \in O
                 PROVE  Branch(o.cells, o.bits, q.cells, q.bits)
      OBVIOUS
    <2>1. PICK l \in C : o.cells = l.cells /\ o.bits = l.bits
      OBVIOUS
    <2>2. PICK m \in C : q.cells = m.cells /\ q.bits = m.bits
      OBVIOUS
    <2>3. Branch(l.cells, l.bits, m.cells, m.bits)
      BY DEF Book
    <2> QED BY <2>1, <2>2, <2>3
  <1>3. \A o \in O : \A i \in 1..Len(o.bits) : Kind(o.cells[i]) \in Fresh(stage)
    <2> SUFFICES ASSUME NEW o \in O, NEW i \in 1..Len(o.bits)
                 PROVE  Kind(o.cells[i]) \in Fresh(stage)
      OBVIOUS
    <2>1. PICK l \in C : o.cells = l.cells /\ o.bits = l.bits
      OBVIOUS
    <2> QED BY <2>1
  <1>4. \A o, q \in O : o.next = next /\ q.next = next
    OBVIOUS
  <1> QED BY <1>1, <1>2, <1>3, <1>4 DEF Proper, Book

LEMMA OptionsProper ==
    ASSUME TypeOK, NEW stage \in Stages, NEW n \in Nat
    PROVE  Proper(stage, Options(stage, n, Now))
  <1> DEFINE O == Options(stage, n, Now)
  <1>0. len \in Nat /\ state \in Int /\ Posed(Now) \in Int /\ Now.st = state /\ Now.ps = pos_state
    BY NowIs, WindowAssumption DEF TypeOK
  <1>1. CASE stage \in {"is_match", "is_rep", "is_rep_g0", "is_rep_0long", "is_rep_g1", "is_rep_g2"}
    <2>1. stage \in Arrays /\ Fresh(stage) = {stage}
      BY <1>1 DEF Arrays, Fresh
    <2>2. \A i \in Int : \A zero, one : Proper(stage, Flags(stage, i, zero, one))
      BY <2>1, FlagsProper
    <2>3. \E i \in Int : \E zero, one : O = Flags(stage, i, zero, one)
      <3> HIDE DEF Posed
      <3> QED BY <1>0, <1>1 DEF Options
    <2> QED BY <2>2, <2>3
  <1>2. CASE stage = "literal"
    BY <1>2, NowIs, LiteralsProper DEF Options
  <1>3. CASE stage = "rep_len"
    <2> DEFINE C == Lengths("rep_len")
    <2>1. /\ Book(C) /\ \A l \in C : \A i \in 1..Len(l.bits) : l.cells[i].of = "rep_len"
      BY <1>0, LengthsAre
    <2>2. \A o \in O : \E l \in C : o = Option(l.cells, l.bits, "idle", 0)
      BY <1>0, <1>3, LengthsNow DEF Options
    <2> HIDE DEF O, C
    <2>3. \A l \in C : \A i \in 1..Len(l.bits) : Kind(l.cells[i]) \in Fresh(stage)
      BY <1>3, <2>1 DEF Kind, Fresh
    <2>4. \A o \in O : \E l \in C : /\ o.cells = l.cells /\ o.bits = l.bits /\ o.next = "idle"
                                    /\ o.length = 0
      BY <2>2, OptionIs
    <2>5. \A o, q \in O : o.bits = q.bits => o.length = q.length
      BY <2>4
    <2>6. Proper(stage, O)
      <3>1. \A o \in O : \E l \in C : o.cells = l.cells /\ o.bits = l.bits /\ o.next = "idle"
        BY <2>4
      <3> QED BY <2>1, <2>3, <2>5, <3>1, CodesProper
    <2> QED BY <2>6 DEF O
  <1>4. CASE stage = "len"
    <2> DEFINE C == Lengths("len")
    <2>1. /\ Book(C) /\ \A l \in C : \A i \in 1..Len(l.bits) : l.cells[i].of = "len"
          /\ \A l, m \in C : l.bits = m.bits => l.value = m.value
      BY <1>0, LengthsAre
    <2>2. \A o \in O : \E l \in C : o = Option(l.cells, l.bits, "distance", l.value)
      BY <1>0, <1>4, LengthsNow DEF Options
    <2> HIDE DEF O, C
    <2>3. \A l \in C : \A i \in 1..Len(l.bits) : Kind(l.cells[i]) \in Fresh(stage)
      BY <1>4, <2>1 DEF Kind, Fresh
    <2>4. \A o \in O : \E l \in C : /\ o.cells = l.cells /\ o.bits = l.bits /\ o.next = "distance"
                                    /\ o.length = l.value
      BY <2>2, OptionIs
    <2>5. \A o, q \in O : o.bits = q.bits => o.length = q.length
      BY <2>1, <2>4
    <2>6. Proper(stage, O)
      <3>1. \A o \in O : \E l \in C : o.cells = l.cells /\ o.bits = l.bits /\ o.next = "distance"
        BY <2>4
      <3> QED BY <2>1, <2>3, <2>5, <3>1, CodesProper
    <2> QED BY <2>6 DEF O
  <1>5. CASE stage = "distance"
    <2> DEFINE C == Distances(IF n > 3 THEN 3 ELSE n)
    <2>1. /\ Book(C)
          /\ \A d \in C : \A i \in 1..Len(d.bits) :
                 d.cells[i].of = "lzma" /\ d.cells[i].array \in TailArrays \cup {"pos_slot_decoder"}
      <3>1. (IF n > 3 THEN 3 ELSE n) \in Nat
        OBVIOUS
      <3> QED BY <3>1, DistancesAre
    <2>2. \A o \in O : \E d \in C : o = Option(d.cells, d.bits, "idle", 0)
      BY <1>5 DEF Options
    <2> HIDE DEF O, C
    <2>3. \A l \in C : \A i \in 1..Len(l.bits) : Kind(l.cells[i]) \in Fresh(stage)
      BY <1>5, <2>1 DEF Kind, Fresh
    <2>4. \A o \in O : \E l \in C : /\ o.cells = l.cells /\ o.bits = l.bits /\ o.next = "idle"
                                    /\ o.length = 0
      BY <2>2, OptionIs
    <2>5. \A o, q \in O : o.bits = q.bits => o.length = q.length
      BY <2>4
    <2>6. Proper(stage, O)
      <3>1. \A o \in O : \E l \in C : o.cells = l.cells /\ o.bits = l.bits /\ o.next = "idle"
        BY <2>4
      <3> QED BY <2>1, <2>3, <2>5, <3>1, CodesProper
    <2> QED BY <2>6 DEF O
  <1> QED BY <1>1, <1>2, <1>3, <1>4, <1>5 DEF Stages

LEMMA NowSame ==
    ASSUME UNCHANGED <<text, state, rep, len>>
    PROVE  Now' = Now
  <1>1. lit_state' = lit_state /\ pos_state' = pos_state
    BY DEF lit_state, last_or, pos_state
  <1>2. ASSUME NEW s, NEW m PROVE LiteralCells(s, m)' = LiteralCells(s, m)
    BY <1>1 DEF LiteralCells
  <1>3. LiteralOption' = LiteralOption
    BY <1>2 DEF LiteralOption
  <1>4. Literals' = Literals
    BY <1>3 DEF Literals, TooFar
  <1> QED BY <1>1, <1>4 DEF Now

LEMMA RestsElsewhere ==
    ASSUME NEW e, NEW f, e.ps = f.ps, NEW n
    PROVE  /\ Rests("len", n, e) = Rests("len", n, f)
           /\ Rests("rep_len", n, e) = Rests("rep_len", n, f)
           /\ Rests("distance", n, e) = Rests("distance", n, f)
  BY DEF Rests, LenRests, RepLenRests, DistanceRests, Options

\* A step reads an option, and goes where it leads.
Takes(o) ==
    /\ Reads(o.cells, o.bits) /\ mode' = mode
    /\ ~update => Now' = Now
    /\ \/ /\ o.next # "idle" /\ pc' = o.next
          /\ pc' = "distance" => length' = o.length
          /\ UNCHANGED <<foreseen, told, status>>
          /\ \A n : Rests(pc', n, Now') = Rests(pc', n, Now)
       \/ /\ o.next = "idle" /\ pc' = "idle"
          /\ \/ ~update /\ foreseen' = trace' /\ told' = TRUE /\ status' = status
             \/ /\ update /\ UNCHANGED <<foreseen, told>>
                /\ status' = status \/ status' \in {"distance", "window", "marker"}

LEMMA IsMatchTakes ==
    ASSUME TypeOK, IsMatch PROVE \E o \in Options(pc, length, Now) : Takes(o)
  <1>1. PICK b \in Bit : /\ Flag("is_match", state * Pow2(PosBits) + pos_state, b)
                         /\ Goes(IF b = 0 THEN "literal" ELSE "is_rep")
    BY DEF IsMatch
  <1> DEFINE c == <<Cell("is_match", Posed(Now))>>
             o == Option(c, <<b>>, IF b = 0 THEN "literal" ELSE "is_rep", 0)
  <1>2. Now' = Now /\ pc = "is_match"
    BY NowSame DEF IsMatch
  <1>3. Posed(Now) = state * Pow2(PosBits) + pos_state
    BY NowIs DEF Posed
  <1>4. o \in Options(pc, length, Now)
    BY <1>2 DEF Options, Flags, Bit
  <1>5. Reads(c, <<b>>)
    BY <1>1, <1>3, Zenon DEF Flag
  <1> HIDE DEF c
  <1>6. o.cells = c /\ o.bits = <<b>> /\ o.next = (IF b = 0 THEN "literal" ELSE "is_rep")
    BY OptionIs
  <1> HIDE DEF o
  <1>7. Takes(o)
    BY <1>1, <1>2, <1>5, <1>6 DEF Takes, Goes
  <1> QED BY <1>4, <1>7

LEMMA IsRepG0Takes ==
    ASSUME TypeOK, IsRepG0 PROVE \E o \in Options(pc, length, Now) : Takes(o)
  <1>1. PICK b \in Bit : Flag("is_rep_g0", state, b) /\ Goes(IF b = 0 THEN "is_rep_0long" ELSE "is_rep_g1")
    BY DEF IsRepG0
  <1> DEFINE c == <<Cell("is_rep_g0", Now.st)>>
             o == Option(c, <<b>>, IF b = 0 THEN "is_rep_0long" ELSE "is_rep_g1", 0)
  <1>2. pc = "is_rep_g0" /\ Now' = Now
    BY NowSame DEF IsRepG0
  <1>3. Now.st = state /\ Now.ps = pos_state
    BY NowIs DEF Posed
  <1>4. o \in Options(pc, length, Now)
    BY <1>2 DEF Options, Flags, Bit
  <1>5. Reads(c, <<b>>)
    BY <1>1, <1>3, Zenon DEF Flag
  <1> HIDE DEF c
  <1>6. o.cells = c /\ o.bits = <<b>> /\ o.next = (IF b = 0 THEN "is_rep_0long" ELSE "is_rep_g1")
    BY OptionIs
  <1> HIDE DEF o
  <1>7. Takes(o)
    BY <1>1, <1>2, <1>5, <1>6 DEF Takes, Goes
  <1> QED BY <1>4, <1>7

LEMMA IsRepTakes ==
    ASSUME TypeOK, IsRep PROVE \E o \in Options(pc, length, Now) : Takes(o)
  <1>1. PICK b \in Bit : /\ Flag("is_rep", state, b) /\ Goes(IF b = 1 THEN "is_rep_g0" ELSE "len")
                       /\ rep' = (IF b = 0 /\ update THEN <<rep[1], rep[1], rep[2], rep[3]>> ELSE rep)
    BY DEF IsRep
  <1> DEFINE c == <<Cell("is_rep", Now.st)>>
             o == Option(c, <<b>>, IF b = 1 THEN "is_rep_g0" ELSE "len", 0)
  <1>2. pc = "is_rep" /\ (~update => Now' = Now)
    BY NowSame DEF IsRep
  <1>3. Now.st = state /\ Now.ps = pos_state
    BY NowIs DEF Posed
  <1>8. Now'.ps = Now.ps
    BY <1>3 DEF IsRep, Now, pos_state
  <1>9. \A n : Rests(pc', n, Now') = Rests(pc', n, Now)
    <2>1. CASE b = 0
      BY <1>1, <1>8, <2>1, RestsElsewhere DEF Goes
    <2>2. CASE b = 1
      <3>1. Now' = Now
        BY <2>2, <1>1, NowSame DEF IsRep
      <3> QED BY <3>1
    <2> QED BY <2>1, <2>2 DEF Bit
  <1>4. o \in Options(pc, length, Now)
    BY <1>2 DEF Options, Flags, Bit
  <1>5. Reads(c, <<b>>)
    BY <1>1, <1>3, Zenon DEF Flag
  <1> HIDE DEF c
  <1>6. o.cells = c /\ o.bits = <<b>> /\ o.next = (IF b = 1 THEN "is_rep_g0" ELSE "len")
    BY OptionIs
  <1> HIDE DEF o
  <1>7. Takes(o)
    BY <1>1, <1>2, <1>5, <1>6, <1>9 DEF Takes, Goes
  <1> QED BY <1>4, <1>7

LEMMA IsRepG1Takes ==
    ASSUME TypeOK, IsRepG1 PROVE \E o \in Options(pc, length, Now) : Takes(o)
  <1>1. PICK b \in Bit : /\ Flag("is_rep_g1", state, b) /\ Goes(IF b = 0 THEN "rep_len" ELSE "is_rep_g2")
                       /\ rep' = (IF b = 0 /\ update THEN ToFront(1) ELSE rep)
    BY DEF IsRepG1
  <1> DEFINE c == <<Cell("is_rep_g1", Now.st)>>
             o == Option(c, <<b>>, IF b = 0 THEN "rep_len" ELSE "is_rep_g2", 0)
  <1>2. pc = "is_rep_g1" /\ (~update => Now' = Now)
    BY NowSame DEF IsRepG1
  <1>3. Now.st = state /\ Now.ps = pos_state
    BY NowIs DEF Posed
  <1>8. Now'.ps = Now.ps
    BY <1>3 DEF IsRepG1, Now, pos_state
  <1>9. \A n : Rests(pc', n, Now') = Rests(pc', n, Now)
    <2>1. CASE b = 0
      BY <1>1, <1>8, <2>1, RestsElsewhere DEF Goes
    <2>2. CASE b = 1
      <3>1. Now' = Now
        BY <2>2, <1>1, NowSame DEF IsRepG1
      <3> QED BY <3>1
    <2> QED BY <2>1, <2>2 DEF Bit
  <1>4. o \in Options(pc, length, Now)
    BY <1>2 DEF Options, Flags, Bit
  <1>5. Reads(c, <<b>>)
    BY <1>1, <1>3, Zenon DEF Flag
  <1> HIDE DEF c
  <1>6. o.cells = c /\ o.bits = <<b>> /\ o.next = (IF b = 0 THEN "rep_len" ELSE "is_rep_g2")
    BY OptionIs
  <1> HIDE DEF o
  <1>7. Takes(o)
    BY <1>1, <1>2, <1>5, <1>6, <1>9 DEF Takes, Goes
  <1> QED BY <1>4, <1>7

LEMMA IsRepG2Takes ==
    ASSUME TypeOK, IsRepG2 PROVE \E o \in Options(pc, length, Now) : Takes(o)
  <1>1. PICK b \in Bit : Flag("is_rep_g2", state, b) /\ Goes("rep_len")
    BY DEF IsRepG2
  <1> DEFINE c == <<Cell("is_rep_g2", Now.st)>>
             o == Option(c, <<b>>, "rep_len", 0)
  <1>2. pc = "is_rep_g2" /\ (~update => Now' = Now)
    BY NowSame DEF IsRepG2
  <1>3. Now.st = state /\ Now.ps = pos_state
    BY NowIs DEF Posed
  <1>8. Now'.ps = Now.ps
    BY <1>3 DEF IsRepG2, Now, pos_state
  <1>9. \A n : Rests(pc', n, Now') = Rests(pc', n, Now)
    BY <1>1, <1>8, RestsElsewhere DEF Goes
  <1>4. o \in Options(pc, length, Now)
    BY <1>2 DEF Options, Flags, Bit
  <1>5. Reads(c, <<b>>)
    BY <1>1, <1>3, Zenon DEF Flag
  <1> HIDE DEF c
  <1>6. o.cells = c /\ o.bits = <<b>> /\ o.next = ("rep_len")
    BY OptionIs
  <1> HIDE DEF o
  <1>7. Takes(o)
    BY <1>1, <1>2, <1>5, <1>6, <1>9 DEF Takes, Goes
  <1> QED BY <1>4, <1>7

LEMMA CopiesEnds ==
    ASSUME update, NEW n, NEW dist, NEW kind, Copies(n, dist, kind) \/ Appends(n, kind)
    PROVE  /\ pc' = "idle" /\ mode' = mode /\ UNCHANGED <<foreseen, told>>
           /\ status' = status \/ status' \in {"distance", "window", "marker"}
  BY DEF Copies, Appends, Succeeds, Fails

LEMMA SucceedsEnds ==
    ASSUME ~update, Succeeds
    PROVE  /\ pc' = "idle" /\ mode' = mode /\ foreseen' = trace' /\ told' = TRUE
           /\ status' = status
  BY DEF Succeeds

LEMMA IsRep0LongTakes ==
    ASSUME TypeOK, IsRep0Long PROVE \E o \in Options(pc, length, Now) : Takes(o)
  <1>1. PICK b \in Bit :
            /\ Flag("is_rep_0long", state * Pow2(PosBits) + pos_state, b)
            /\ \/ b = 1 /\ Goes("rep_len") /\ UNCHANGED <<state, len, hist>>
               \/ b = 0 /\ IF update
                           THEN Copies(1, rep[1] + 1, "shortrep")
                           ELSE Succeeds /\ UNCHANGED <<state, len, hist>>
    BY DEF IsRep0Long
  <1> DEFINE next == IF b = 0 THEN "idle" ELSE "rep_len"
             c == <<Cell("is_rep_0long", Posed(Now))>>
             o == Option(c, <<b>>, next, 0)
  <1>2. pc = "is_rep_0long" /\ UNCHANGED <<text, rep>>
    BY DEF IsRep0Long
  <1>3. Posed(Now) = state * Pow2(PosBits) + pos_state
    BY NowIs DEF Posed
  <1>4. o \in Options(pc, length, Now)
    BY <1>2 DEF Options, Flags, Bit
  <1>5. Reads(c, <<b>>)
    BY <1>1, <1>3, Zenon DEF Flag
  <1> HIDE DEF c
  <1>6. o.cells = c /\ o.bits = <<b>> /\ o.next = next
    BY OptionIs
  <1> HIDE DEF o
  <1>7. CASE b = 1
    <2>1. Now' = Now
      BY <1>1, <1>2, <1>7, NowSame
    <2> QED BY <1>1, <1>4, <1>5, <1>6, <1>7, <2>1 DEF Takes, Goes
  <1>8. CASE b = 0 /\ ~update
    <2>1. Now' = Now
      BY <1>1, <1>2, <1>8, NowSame
    <2>2. Succeeds
      BY <1>1, <1>8
    <2>3. o.next = "idle"
      BY <1>6, <1>8
    <2>4. Takes(o)
      BY <1>5, <1>6, <1>8, <2>1, <2>2, <2>3, SucceedsEnds DEF Takes
    <2> QED BY <1>4, <2>4
  <1>9. CASE b = 0 /\ update
    BY <1>1, <1>4, <1>5, <1>6, <1>9, CopiesEnds DEF Takes
  <1> QED BY <1>7, <1>8, <1>9 DEF Bit

\* The literal fails before it reads anything.
Stops ==
    /\ pc' = "idle" /\ trace' = trace /\ mode' = mode /\ UNCHANGED <<foreseen, told>>
    /\ status' = status \/ (update /\ status' = "distance")
    /\ status' = "open" => ~update

LEMMA LiteralTakes ==
    ASSUME TypeOK, Literal
    PROVE  Stops \/ \E o \in Options(pc, length, Now) : Takes(o)
  <1>0. pc = "literal" /\ UNCHANGED <<text, rep>>
    BY DEF Literal
  <1>1. CASE Fails("distance") /\ UNCHANGED <<state, len, trace, hist>>
    BY <1>1 DEF Fails, Stops, update
  <1>2. CASE /\ ~(state >= 7 /\ TooFar(rep[1] + 1)) /\ len < Len(text)
             /\ LET s == Spelling(text[len + 1]) IN Reads(LiteralCells(s, state >= 7), s)
             /\ IF update THEN Appends(1, "lit") ELSE Succeeds /\ UNCHANGED <<state, len, hist>>
    <2> DEFINE o == LiteralOption
               s == Spelling(text[len + 1])
               c == LiteralCells(s, state >= 7)
    <2>1. o \in Options(pc, length, Now)
      <3>1. Now.lit = {o}
        BY <1>2, NowIs DEF Literals
      <3> HIDE DEF o
      <3> QED BY <1>0, <3>1 DEF Options
    <2>2. o.cells = c /\ o.bits = s /\ o.next = "idle"
      BY DEF LiteralOption
    <2>3. Reads(c, s)
      BY <1>2
    <2> HIDE DEF o, c, s
    <2>4. Reads(o.cells, o.bits)
      BY <2>2, <2>3, Zenon
    <2>5. CASE update
      BY <1>2, <2>1, <2>2, <2>4, <2>5, CopiesEnds DEF Takes
    <2>6. CASE ~update
      <3>1. Now' = Now
        BY <1>0, <1>2, <2>6, NowSame
      <3> QED BY <1>2, <2>1, <2>2, <2>4, <2>6, <3>1, SucceedsEnds DEF Takes
    <2> QED BY <2>5, <2>6
  <1> QED BY <1>1, <1>2 DEF Literal

LEMMA RepLenTakes ==
    ASSUME TypeOK, RepLen PROVE \E o \in Options(pc, length, Now) : Takes(o)
  <1>0. PICK n \in 0..MaxLength :
            /\ \E l \in LengthCodes("rep_len", n) : Reads(l.cells, l.bits)
            /\ IF update THEN Copies(n + 2, rep[1] + 1, "rep")
                         ELSE Succeeds /\ UNCHANGED <<state, len, hist>>
    BY DEF RepLen
  <1>1. PICK l \in LengthCodes("rep_len", n) : Reads(l.cells, l.bits)
    BY <1>0
  <1> DEFINE o == Option(l.cells, l.bits, "idle", 0)
  <1>2. pc = "rep_len" /\ UNCHANGED <<text, rep>>
    BY DEF RepLen
  <1>3. o \in Options(pc, length, Now)
    <2>1. l \in LengthsAt("rep_len", Now.ps)
      BY LengthsNow, NowIs DEF LengthCodes
    <2> QED BY <1>2, <2>1 DEF Options
  <1>4. o.cells = l.cells /\ o.bits = l.bits /\ o.next = "idle"
    BY OptionIs
  <1> HIDE DEF o
  <1>5. CASE ~update
    <2>1. Now' = Now
      BY <1>0, <1>2, <1>5, NowSame
    <2> QED BY <1>0, <1>1, <1>3, <1>4, <1>5, <2>1, SucceedsEnds DEF Takes
  <1>6. CASE update
    BY <1>0, <1>1, <1>3, <1>4, <1>6, CopiesEnds DEF Takes
  <1> QED BY <1>5, <1>6

LEMMA NewLenTakes ==
    ASSUME TypeOK, NewLen PROVE \E o \in Options(pc, length, Now) : Takes(o)
  <1>0. PICK n \in 0..MaxLength :
            (\E l \in LengthCodes("len", n) : Reads(l.cells, l.bits)) /\ length' = n
    BY DEF NewLen
  <1>1. PICK l \in LengthCodes("len", n) : Reads(l.cells, l.bits)
    BY <1>0
  <1> DEFINE o == Option(l.cells, l.bits, "distance", l.value)
  <1>2. pc = "len" /\ UNCHANGED <<text, rep, len>> /\ Goes("distance") /\ (~update => state' = state)
    BY DEF NewLen
  <1>3. l \in LengthsAt("len", Now.ps) /\ l.value = n
    BY LengthsNow, NowIs DEF LengthCodes
  <1>4. o \in Options(pc, length, Now)
    BY <1>2, <1>3 DEF Options
  <1>5. o.cells = l.cells /\ o.bits = l.bits /\ o.next = "distance" /\ o.length = n
    BY <1>3, OptionIs
  <1> HIDE DEF o
  <1>6. Now'.ps = Now.ps
    BY <1>2 DEF Now, pos_state
  <1>7. \A m : Rests(pc', m, Now') = Rests(pc', m, Now)
    BY <1>2, <1>6, RestsElsewhere DEF Goes
  <1>8. ~update => Now' = Now
    BY <1>2, NowSame
  <1>9. Takes(o)
    BY <1>0, <1>1, <1>2, <1>5, <1>7, <1>8 DEF Takes, Goes
  <1> QED BY <1>4, <1>9

LEMMA DistanceCodesAre ==
    ASSUME NEW n \in Nat, NEW dist \in 0..Marker, NEW d \in DistanceCodes(n, dist)
    PROVE  d \in Distances(IF n > 3 THEN 3 ELSE n)
  <1> DEFINE k == IF n > 3 THEN 3 ELSE n
             all == [tree \in 0..3 |-> UNION {FromSlot(tree, s) : s \in Bits(SlotBits)}]
  <1>1. k \in 0..3
    OBVIOUS
  <1> HIDE DEF k
  <1>2. d \in Codes[k][dist]
    BY DEF DistanceCodes, k
  <1>3. Codes[k][dist] = {x \in all[k] : x.value = dist}
    <2> HIDE DEF all
    <2>1. Codes = [tree \in 0..3 |-> [ds \in 0..Marker |-> {x \in all[tree] : x.value = ds}]]
      BY Zenon DEF Codes, all
    <2> QED BY <1>1, <2>1
  <1>4. all[k] = Distances(k)
    BY <1>1 DEF Distances
  <1> QED BY <1>2, <1>3, <1>4 DEF k

LEMMA DistanceTakes ==
    ASSUME TypeOK, Distance \/ EndMarker PROVE \E o \in Options(pc, length, Now) : Takes(o)
  <1>0. PICK dist \in 0..Marker :
            /\ \E d \in DistanceCodes(length, dist) : Reads(d.cells, d.bits)
            /\ \/ update /\ Copies(length + 2, dist + 1, "match")
               \/ ~update /\ Succeeds
               \/ update /\ Fails("marker")
               \/ update /\ pc' = "idle" /\ UNCHANGED <<mode, foreseen, told, status>>
    <2>1. Marker \in 0..Marker /\ 0..(Marker - 1) \subseteq 0..Marker
      BY MarkerAssumption
    <2>2. CASE Distance
      BY <2>1, <2>2 DEF Distance
    <2>3. CASE EndMarker
      BY <2>1, <2>3 DEF EndMarker
    <2> QED BY <2>2, <2>3
  <1>1. PICK d \in DistanceCodes(length, dist) : Reads(d.cells, d.bits)
    BY <1>0
  <1> DEFINE o == Option(d.cells, d.bits, "idle", 0)
  <1>2. pc = "distance" /\ UNCHANGED <<text, state>> /\ length \in Nat
        /\ (~update => UNCHANGED <<rep, len>>)
    BY DEF Distance, EndMarker, TypeOK
  <1>3. o \in Options(pc, length, Now)
    <2>1. d \in Distances(IF length > 3 THEN 3 ELSE length)
      BY <1>2, DistanceCodesAre
    <2> QED BY <1>2, <2>1 DEF Options
  <1>4. o.cells = d.cells /\ o.bits = d.bits /\ o.next = "idle"
    BY OptionIs
  <1> HIDE DEF o
  <1>5. CASE ~update
    <2>1. Now' = Now
      BY <1>2, <1>5, NowSame
    <2> QED BY <1>0, <1>1, <1>3, <1>4, <1>5, <2>1, SucceedsEnds DEF Takes
  <1>6. CASE update
    <2>1. /\ pc' = "idle" /\ mode' = mode /\ UNCHANGED <<foreseen, told>>
          /\ status' = status \/ status' \in {"distance", "window", "marker"}
      BY <1>0, <1>6, CopiesEnds DEF Fails
    <2> QED BY <1>0, <1>1, <1>3, <1>4, <1>6, <2>1 DEF Takes
  <1> QED BY <1>5, <1>6

\* Entries of one stage after those of the stages before it.
LEMMA JoinedZip ==
    ASSUME NEW p \in Seq(Entries), NEW c, NEW s, WellFormed(c, s)
    PROVE  /\ Zip(c, s) \in Seq(Entries) /\ Zip(c, s) \o <<>> = Zip(c, s)
           /\ Len(Zip(c, s)) = Len(s)
           /\ p \o Zip(c, s) \in Seq(Entries) /\ Len(p \o Zip(c, s)) = Len(p) + Len(s)
           /\ \A i \in 1..Len(p) : (p \o Zip(c, s))[i] = p[i]
           /\ \A i \in 1..Len(s) : (p \o Zip(c, s))[Len(p) + i].cell = c[i]
  <1> DEFINE z == Zip(c, s)
  <1>1. /\ z \in Seq(Entries) /\ Len(z) = Len(s) /\ Len(s) \in Nat
        /\ \A i \in 1..Len(s) : z[i] = [cell |-> c[i], bit |-> s[i]]
    BY ZipIs
  <1> HIDE DEF z
  <1>2. ASSUME NEW i \in 1..Len(s) PROVE z[i].cell = c[i]
    <2>1. z[i] = [cell |-> c[i], bit |-> s[i]]
      BY <1>1
    <2> QED BY <2>1, FieldsAre
  <1>3. z \o <<>> = z
    BY <1>1
  <1>4. /\ p \o z \in Seq(Entries) /\ Len(p \o z) = Len(p) + Len(z)
        /\ \A i \in 1..Len(p) : (p \o z)[i] = p[i]
        /\ \A i \in 1..Len(z) : (p \o z)[Len(p) + i] = z[i]
    <2>1. z \in Seq(Entries)
      BY <1>1
    <2> QED BY <2>1, JoinedIs
  <1> QED BY <1>1, <1>2, <1>3, <1>4 DEF z

LEMMA JoinedAgain ==
    ASSUME NEW p \in Seq(Entries), NEW z \in Seq(Entries), NEW r \in Seq(Entries)
    PROVE  (p \o z) \o r = p \o (z \o r)
  OBVIOUS

LEMMA PrefixOf ==
    ASSUME NEW p \in Seq(Entries), NEW r \in Seq(Entries)
    PROVE  SubSeq(p \o r, 1, Len(p)) = p /\ Len(p) <= Len(p \o r)
  OBVIOUS

\* A dry run under way: whatever completes the symbol now completes it from
\* the start.
Trying ==
    mode = "try" /\ pc # "idle" =>
        /\ ~told
        /\ \A r \in Rests(pc, length, Now) \cap Seq(Entries) :
              trace \o r \in Rests("is_match", 0, Now)

Tried == mode = "try" /\ told => pc = "idle" /\ foreseen \in Rests("is_match", 0, Now)

\* A real run after it: what it has not read yet completes the symbol.
Retracing ==
    mode = "real" /\ told =>
        /\ status # "short"
        /\ \E r \in Seq(Entries) :
              /\ foreseen = trace \o r
              /\ pc # "idle" => r \in Rests(pc, length, Now)
              /\ pc = "idle" /\ status = "open" => r = <<>>

\* No cell has been read that can still be.
ReadBefore ==
    /\ trace \in Seq(Entries) /\ foreseen \in Seq(Entries)
    /\ pc # "idle" =>
          /\ pc \in Stages
          /\ \A i \in 1..Len(trace) : Kind(trace[i].cell) \in Seen(pc)

DryInv == ReadBefore /\ Trying /\ Tried /\ Retracing

LEMMA InitDryInv == Init => DryInv
  <1> SUFFICES ASSUME Init PROVE DryInv
    OBVIOUS
  <1>1. trace = <<>> /\ foreseen = <<>> /\ mode = "real" /\ pc = "idle" /\ ~told
    BY DEF Init
  <1>2. <<>> \in Seq(Entries)
    OBVIOUS
  <1> QED BY <1>1, <1>2 DEF DryInv, ReadBefore, Trying, Tried, Retracing

LEMMA BeginsDryInv ==
    ASSUME TypeOK, DryInv,
           \/ Begins("try", FALSE)
           \/ Begins("real", mode = "try" /\ told)
    PROVE  DryInv'
  <1>1. /\ pc' = "is_match" /\ trace' = <<>> /\ length' = 0
        /\ UNCHANGED <<text, state, rep, len, status>> /\ status = "open"
    BY DEF Begins
  <1>2. Now' = Now
    BY <1>1, NowSame
  <1>3. <<>> \in Seq(Entries) /\ \A r \in Seq(Entries) : <<>> \o r = r
    OBVIOUS
  <1>4. foreseen' \in Seq(Entries)
    BY <1>3 DEF Begins, DryInv, ReadBefore
  <1>5. ReadBefore'
    BY <1>1, <1>3, <1>4 DEF ReadBefore, Stages
  <1>6. Trying'
    <2>1. mode' = "try" => ~told'
      BY DEF Begins
    <2> QED BY <1>1, <1>2, <1>3, <2>1 DEF Trying
  <1>7. Tried'
    BY DEF Begins, Tried
  <1>8. Retracing'
    <2> SUFFICES ASSUME mode' = "real", told' PROVE Retracing'
      BY DEF Retracing
    <2>1. mode = "try" /\ told /\ foreseen' = foreseen
      BY DEF Begins
    <2>2. foreseen \in Rests("is_match", 0, Now) /\ foreseen \in Seq(Entries)
      BY <2>1 DEF DryInv, Tried, ReadBefore
    <2>3. Rests("is_match", 0, Now) = Rests(pc', length', Now')
      BY <1>1, <1>2
    <2>4. foreseen' = trace' \o foreseen
      BY <1>1, <1>3, <2>1, <2>2
    <2> QED BY <1>1, <2>2, <2>3, <2>4 DEF Retracing
  <1> QED BY <1>5, <1>6, <1>7, <1>8 DEF DryInv

LEMMA BetweenDryInv == ASSUME Between, DryInv PROVE DryInv'
  <1>1. trace' = <<>> /\ foreseen' = <<>> /\ ~told' /\ pc' = "idle"
    BY DEF Between
  <1>2. <<>> \in Seq(Entries)
    OBVIOUS
  <1> QED BY <1>1, <1>2 DEF DryInv, ReadBefore, Trying, Tried, Retracing

\* x is an option of a stage, and then a rest of the next one.
Splits(stage, n, e, x) ==
    \E o \in Options(stage, n, e) : \E r \in Rests(o.next, o.length, e) \cap Seq(Entries) :
       x = Zip(o.cells, o.bits) \o r

LEMMA RestSplits ==
    ASSUME NEW stage \in Stages, NEW n, NEW e, \A l \in e.lit : l.next = "idle",
           NEW x \in Rests(stage, n, e)
    PROVE  Splits(stage, n, e, x)
  BY RestsAre DEF Splits

\* What remains to be read is not nothing.
LEMMA RestIsSome ==
    ASSUME TypeOK, NEW stage \in Stages, NEW n \in Nat, NEW x \in Rests(stage, n, Now)
    PROVE  \E o \in Options(stage, n, Now) : \E r \in Rests(o.next, o.length, Now) \cap Seq(Entries) :
              /\ x = Zip(o.cells, o.bits) \o r
              /\ WellFormed(o.cells, o.bits) /\ Len(o.bits) >= 1 /\ x # <<>>
  <1>1. PICK o \in Options(stage, n, Now) : \E r \in Rests(o.next, o.length, Now) \cap Seq(Entries) :
           x = Zip(o.cells, o.bits) \o r
    <2>1. \A l \in Now.lit : l.next = "idle"
      BY NowIs
    <2>2. Splits(stage, n, Now, x)
      BY <2>1, RestSplits
    <2> QED BY <2>2 DEF Splits
  <1>2. PICK r \in Rests(o.next, o.length, Now) \cap Seq(Entries) :
           x = Zip(o.cells, o.bits) \o r
    BY <1>1
  <1>3. WellFormed(o.cells, o.bits) /\ Len(o.bits) >= 1
    BY OptionsProper DEF Proper, Book
  <1>4. x # <<>>
    <2> DEFINE z == Zip(o.cells, o.bits)
    <2>1. z \in Seq(Entries) /\ Len(z) = Len(o.bits)
      BY <1>3, ZipIs
    <2> HIDE DEF z
    <2>2. Len(z \o r) = Len(z) + Len(r) /\ Len(r) \in Nat
      <3>1. r \in Seq(Entries) /\ z \in Seq(Entries)
        BY <2>1
      <3> QED BY <3>1, JoinedIs
    <2>3. Len(z \o r) >= 1
      BY <1>3, <2>1, <2>2
    <2> QED BY <1>2, <2>3 DEF z
  <1> QED BY <1>1, <1>2, <1>3, <1>4

LEMMA ShortDryInv == ASSUME TypeOK, DryInv, Short PROVE DryInv'
  <1>1. /\ pc # "idle" /\ pc' = "idle" /\ mode' = mode
        /\ UNCHANGED <<text, state, rep, len, length, trace, foreseen, told>>
    BY DEF Short, Fails
  <1>2. ReadBefore'
    BY <1>1 DEF DryInv, ReadBefore
  <1>3. Trying'
    BY <1>1 DEF Trying
  <1>4. Tried'
    BY <1>1 DEF DryInv, Tried
  <1>5. Retracing'
    <2> SUFFICES ASSUME mode = "real", told PROVE FALSE
      BY <1>1 DEF Retracing
    <2>1. PICK r \in Seq(Entries) : foreseen = trace \o r /\ r \in Rests(pc, length, Now)
      BY <1>1 DEF DryInv, Retracing
    <2>2. pc \in Stages /\ length \in Nat /\ trace \in Seq(Entries)
      BY <1>1 DEF DryInv, ReadBefore, TypeOK
    <2>3. r # <<>>
      BY <2>1, <2>2, RestIsSome
    <2>4. trace = SubSeq(foreseen, 1, Len(trace))
      BY <2>1, <2>2, PrefixOf
    <2>5. trace # foreseen
      <3>1. Len(trace \o r) = Len(trace) + Len(r) /\ Len(r) \in Nat /\ Len(trace) \in Nat
        BY <2>2
      <3>2. Len(r) # 0
        BY <2>3
      <3> QED BY <2>1, <3>1, <3>2
    <2> QED BY <2>4, <2>5 DEF Short
  <1> QED BY <1>2, <1>3, <1>4, <1>5 DEF DryInv

LEMMA StopsDryInv == ASSUME DryInv, pc # "idle", Stops PROVE DryInv'
  <1>1. ReadBefore'
    BY DEF DryInv, ReadBefore, Stops
  <1>2. Trying'
    BY DEF Stops, Trying
  <1>3. Tried'
    BY DEF Stops, DryInv, Tried
  <1>4. Retracing'
    BY DEF Stops, DryInv, Retracing, update
  <1> QED BY <1>1, <1>2, <1>3, <1>4 DEF DryInv

\* A step that reads an option keeps to the dry run, if there was one.
LEMMA TakesDryInv ==
    ASSUME TypeOK, DryInv, pc # "idle", NEW o \in Options(pc, length, Now), Takes(o),
           pc' \in Stages \cup {"idle"}
    PROVE  DryInv'
  <1> DEFINE z == Zip(o.cells, o.bits)
  <1>1. /\ pc \in Stages /\ length \in Nat /\ trace \in Seq(Entries) /\ foreseen \in Seq(Entries)
        /\ \A i \in 1..Len(trace) : Kind(trace[i].cell) \in Seen(pc)
        /\ \A l \in Now.lit : l.next = "idle"
    BY NowIs DEF DryInv, ReadBefore, TypeOK
  <1>2. /\ WellFormed(o.cells, o.bits) /\ Len(o.bits) >= 1
        /\ \A i \in 1..Len(o.bits) : Kind(o.cells[i]) \in Fresh(pc)
    BY <1>1, OptionsProper DEF Proper, Book
  <1>3. /\ z \in Seq(Entries) /\ z \o <<>> = z /\ Len(z) = Len(o.bits)
        /\ trace \o z \in Seq(Entries) /\ Len(trace \o z) = Len(trace) + Len(o.bits)
        /\ \A i \in 1..Len(trace) : (trace \o z)[i] = trace[i]
        /\ \A i \in 1..Len(o.bits) : (trace \o z)[Len(trace) + i].cell = o.cells[i]
    <2> DEFINE c == o.cells
               s == o.bits
    <2>1. WellFormed(c, s) /\ trace \in Seq(Entries)
      BY <1>1, <1>2
    <2> HIDE DEF c, s
    <2>2. /\ Zip(c, s) \in Seq(Entries) /\ Zip(c, s) \o <<>> = Zip(c, s)
          /\ Len(Zip(c, s)) = Len(s)
          /\ trace \o Zip(c, s) \in Seq(Entries) /\ Len(trace \o Zip(c, s)) = Len(trace) + Len(s)
          /\ \A i \in 1..Len(trace) : (trace \o Zip(c, s))[i] = trace[i]
          /\ \A i \in 1..Len(s) : (trace \o Zip(c, s))[Len(trace) + i].cell = c[i]
      BY <2>1, JoinedZip
    <2> QED BY <2>2, Zenon DEF c, s
  <1>4. trace' = trace \o z /\ (told => Determined(trace \o z))
    BY DEF Takes, Reads, Zip
  <1> HIDE DEF z
  <1>5. ReadBefore'
    <2>1. foreseen' \in Seq(Entries)
      BY <1>1, <1>3, <1>4 DEF Takes
    <2>2. ASSUME pc' # "idle", NEW i \in 1..Len(trace') PROVE Kind(trace'[i].cell) \in Seen(pc')
      <3>1. Seen(pc) \cup Fresh(pc) \subseteq Seen(o.next) /\ pc' = o.next
        BY <1>1, <2>2, SeenNext DEF Takes
      <3>2. CASE i \in 1..Len(trace)
        BY <1>1, <1>3, <1>4, <3>1, <3>2
      <3>3. CASE i \notin 1..Len(trace)
        <4> DEFINE k == i - Len(trace)
        <4>1. k \in 1..Len(o.bits) /\ Len(trace) + k = i
          BY <1>1, <1>2, <1>3, <1>4, <2>2, <3>3 DEF WellFormed
        <4> HIDE DEF k
        <4>2. trace'[i].cell = o.cells[k]
          BY <1>3, <1>4, <4>1
        <4> QED BY <1>2, <3>1, <4>1, <4>2
      <3> QED BY <3>2, <3>3
    <2> QED BY <1>3, <1>4, <2>1, <2>2 DEF ReadBefore
  <1>6. Trying'
    <2> SUFFICES ASSUME mode' = "try", pc' # "idle"
                 PROVE  /\ ~told'
                        /\ \A r \in Rests(pc', length', Now') \cap Seq(Entries) :
                              trace' \o r \in Rests("is_match", 0, Now')
      BY DEF Trying
    <2>0. ~told'
      BY DEF Takes, update, DryInv, Trying
    <2> SUFFICES ASSUME NEW r \in Rests(pc', length', Now') \cap Seq(Entries)
                 PROVE  trace' \o r \in Rests("is_match", 0, Now')
      BY <2>0
    <2>1. mode = "try" /\ ~update /\ Now' = Now /\ pc' = o.next /\ (pc' = "distance" => length' = o.length)
      BY DEF Takes, update
    <2>2. r \in Rests(o.next, o.length, Now)
      BY <2>1 DEF Rests
    <2>3. z \o r \in Rests(pc, length, Now) /\ z \o r \in Seq(Entries)
      <3>1. z \o r \in Seq(Entries)
        BY <1>3
      <3> QED BY <1>1, <2>2, <3>1, RestsAre DEF z
    <2>4. ~told /\ trace \o (z \o r) \in Rests("is_match", 0, Now)
      BY <2>1, <2>3 DEF DryInv, Trying
    <2>5. trace' \o r = trace \o (z \o r)
      BY <1>1, <1>3, <1>4, JoinedAgain
    <2> QED BY <2>1, <2>4, <2>5 DEF Takes
  <1>7. Tried'
    <2> SUFFICES ASSUME mode' = "try", told'
                 PROVE  pc' = "idle" /\ foreseen' \in Rests("is_match", 0, Now')
      BY DEF Tried
    <2>1. mode = "try" /\ ~update /\ Now' = Now /\ ~told
      BY DEF Takes, update, DryInv, Trying
    <2>2. pc' = "idle" /\ o.next = "idle" /\ foreseen' = trace'
      BY <2>1 DEF Takes
    <2>3. <<>> \in Rests(o.next, o.length, Now) /\ <<>> \in Seq(Entries)
      BY <2>2 DEF Rests, End
    <2>4. z \o <<>> \in Rests(pc, length, Now)
      BY <1>1, <2>3, RestsAre DEF z
    <2>5. trace \o z \in Rests("is_match", 0, Now)
      BY <1>3, <2>1, <2>4 DEF DryInv, Trying
    <2> QED BY <1>4, <2>1, <2>2, <2>5
  <1>8. Retracing'
    <2> SUFFICES ASSUME mode' = "real", told' PROVE Retracing'
      BY DEF Retracing
    <2>1. mode = "real" /\ update /\ told /\ foreseen' = foreseen
      BY DEF Takes, update
    <2>2. PICK x \in Seq(Entries) :
              foreseen = trace \o x /\ x \in Rests(pc, length, Now) /\ status # "short"
      BY <2>1 DEF DryInv, Retracing
    <2>3. PICK q \in Options(pc, length, Now) :
            \E r \in Rests(q.next, q.length, Now) \cap Seq(Entries) :
                /\ x = Zip(q.cells, q.bits) \o r
                /\ WellFormed(q.cells, q.bits)
      <3>1. pc \in Stages /\ length \in Nat /\ x \in Rests(pc, length, Now)
        BY <1>1, <2>2
      <3>2. \E q \in Options(pc, length, Now) : \E r \in Rests(q.next, q.length, Now) \cap Seq(Entries) :
                /\ x = Zip(q.cells, q.bits) \o r
                /\ WellFormed(q.cells, q.bits) /\ Len(q.bits) >= 1 /\ x # <<>>
        BY <3>1, RestIsSome
      <3> QED BY <3>2
    <2>4. PICK r \in Rests(q.next, q.length, Now) \cap Seq(Entries) :
                x = Zip(q.cells, q.bits) \o r
      BY <2>3
    <2>5. q.bits = o.bits /\ q.cells = o.cells
      <3>1. Branch(q.cells, q.bits, o.cells, o.bits) /\ Branch(o.cells, o.bits, q.cells, q.bits)
        BY <1>1, OptionsProper DEF Proper, Book
      <3>2. foreseen = trace \o (Zip(q.cells, q.bits) \o r)
        BY <2>2, <2>4
      <3>3. Determined(trace \o (Zip(o.cells, o.bits) \o <<>>))
        BY <1>3, <1>4, <2>1 DEF z
      <3>4. \A i \in 1..Len(trace), k \in 1..Len(o.bits) : trace[i].cell # o.cells[k]
        <4> TAKE i \in 1..Len(trace), k \in 1..Len(o.bits)
        <4>1. Kind(trace[i].cell) \in Seen(pc) /\ Kind(o.cells[k]) \in Fresh(pc)
          BY <1>1, <1>2
        <4>2. Kind(o.cells[k]) \notin Seen(pc)
          BY <1>1, <4>1, FreshIsNotSeen
        <4> QED BY <4>1, <4>2
      <3>5. /\ WellFormed(q.cells, q.bits) /\ WellFormed(o.cells, o.bits)
            /\ trace \in Seq(Entries) /\ r \in Seq(Entries)
        BY <1>1, <1>2, <2>3, <2>4
      <3>6. Foretold(q.cells, q.bits, o.cells, o.bits, trace, r)
        BY <3>1, <3>2, <3>3, <3>4, <3>5 DEF Foretold
      <3> QED BY <3>6, FollowsForeseen
    <2>6. q.next = o.next /\ q.length = o.length
      BY <1>1, <2>5, OptionsProper DEF Proper
    <2>7. foreseen' = trace' \o r
      <3>1. foreseen = trace \o (z \o r)
        BY <2>2, <2>4, <2>5 DEF z
      <3> QED BY <1>1, <1>3, <1>4, <2>1, <2>4, <3>1, JoinedAgain
    <2>8. r \in Rests(o.next, o.length, Now) /\ r \in Seq(Entries)
      BY <2>4, <2>6
    <2>9. status' # "short"
      BY <2>2 DEF Takes
    <2>10. CASE o.next = "idle"
      <3>1. pc' = "idle" /\ r = <<>>
        BY <2>8, <2>10 DEF Takes, Rests, End
      <3> QED BY <2>7, <2>8, <2>9, <3>1 DEF Retracing
    <2>11. CASE o.next # "idle"
      <3>1. pc' = o.next /\ (pc' = "distance" => length' = o.length)
        BY <2>11 DEF Takes
      <3>2. Rests(pc', length', Now') = Rests(pc', length', Now)
        BY <2>11 DEF Takes
      <3>3. Rests(pc', length', Now) = Rests(o.next, o.length, Now)
        BY <3>1 DEF Rests
      <3> QED BY <2>7, <2>8, <2>9, <2>11, <3>1, <3>2, <3>3 DEF Retracing
    <2> QED BY <2>10, <2>11
  <1> QED BY <1>5, <1>6, <1>7, <1>8 DEF DryInv

LEMMA StepDryInv == ASSUME TypeOK, TypeOK', DryInv, [Next]_vars PROVE DryInv'
  <1>0. pc' \in Stages \cup {"idle"}
    BY DEF TypeOK, Stages
  <1>1. CASE Try \/ Process
    BY <1>1, BeginsDryInv DEF Try, Process
  <1>2. CASE Short
    BY <1>2, ShortDryInv
  <1>3. CASE \/ Decompress
            \/ \E reset_dict \in BOOLEAN :
                  ResetState(reset_dict) \/ \E n \in 1..Len(text) : Uncompressed(n, reset_dict)
    BY <1>3, BetweenDryInv DEF Decompress, ResetState, Uncompressed
  <1>4. ASSUME pc # "idle", \E o \in Options(pc, length, Now) : Takes(o) PROVE DryInv'
    BY <1>0, <1>4, TakesDryInv
  <1>5. CASE IsMatch
    BY <1>4, <1>5, IsMatchTakes DEF IsMatch
  <1>6. CASE Literal
    BY <1>4, <1>6, LiteralTakes, StopsDryInv DEF Literal
  <1>7. CASE IsRep
    BY <1>4, <1>7, IsRepTakes DEF IsRep
  <1>8. CASE IsRepG0
    BY <1>4, <1>8, IsRepG0Takes DEF IsRepG0
  <1>9. CASE IsRep0Long
    BY <1>4, <1>9, IsRep0LongTakes DEF IsRep0Long
  <1>10. CASE IsRepG1
    BY <1>4, <1>10, IsRepG1Takes DEF IsRepG1
  <1>11. CASE IsRepG2
    BY <1>4, <1>11, IsRepG2Takes DEF IsRepG2
  <1>12. CASE RepLen
    BY <1>4, <1>12, RepLenTakes DEF RepLen
  <1>13. CASE NewLen
    BY <1>4, <1>13, NewLenTakes DEF NewLen
  <1>14. CASE Distance \/ EndMarker
    BY <1>4, <1>14, DistanceTakes DEF Distance, EndMarker
  <1>15. CASE UNCHANGED vars
    <2>1. /\ UNCHANGED <<text, state, rep, len, status>>
          /\ UNCHANGED <<mode, pc, length, trace, foreseen, told>>
      BY <1>15 DEF vars, run
    <2>2. Now' = Now
      BY <2>1, NowSame
    <2> QED BY <2>1, <2>2 DEF DryInv, ReadBefore, Trying, Tried, Retracing
  <1> QED BY <1>1, <1>2, <1>3, <1>5, <1>6, <1>7, <1>8, <1>9, <1>10, <1>11, <1>12, <1>13,
             <1>14, <1>15 DEF Next

LEMMA DryInvTells == ASSUME DryInv PROVE DryRunTells
  <1> SUFFICES ASSUME mode = "real", told
               PROVE  /\ Len(trace) <= Len(foreseen)
                      /\ trace = SubSeq(foreseen, 1, Len(trace))
                      /\ status # "short"
                      /\ pc = "idle" /\ status = "open" => trace = foreseen
    BY DEF DryRunTells, update
  <1>1. trace \in Seq(Entries) /\ status # "short"
    BY DEF DryInv, ReadBefore, Retracing
  <1>2. PICK r \in Seq(Entries) :
            foreseen = trace \o r /\ (pc = "idle" /\ status = "open" => r = <<>>)
    BY DEF DryInv, Retracing
  <1>3. SubSeq(foreseen, 1, Len(trace)) = trace /\ Len(trace) <= Len(foreseen)
    BY <1>1, <1>2, PrefixOf
  <1>4. trace \o <<>> = trace
    BY <1>1
  <1> QED BY <1>1, <1>2, <1>3, <1>4

\* With what the dry run foresees, the variables of the decoder keep DryInv.
LEMMA DryInvHolds == Spec => []DryInv
  <1>1. TypeOK /\ TypeOK' /\ DryInv /\ [Next]_vars => DryInv'
    BY StepDryInv
  <1> QED BY InitDryInv, TypeCorrect, <1>1, PTL DEF Spec

\* A real run that follows a dry run which succeeded reads what that run has
\* read, bit by bit in the same cells, to the last one: process_next never
\* fails for want of input after try_process_next, whatever the symbol is.
THEOREM DryRunAlwaysTells == Spec => []DryRunTells
  BY DryInvHolds, DryInvTells, PTL

-----------------------------------------------------------------------------
(* The bits of a symbol *)

LEMMA SmallPowers ==
    /\ Pow2(0) = 1 /\ Pow2(1) = 2 /\ Pow2(2) = 4 /\ Pow2(3) = 8 /\ Pow2(4) = 16
    /\ Pow2(5) = 32 /\ Pow2(6) = 64 /\ Pow2(7) = 128 /\ Pow2(8) = 256
  <1>1. Pow2(0) = 1 /\ \A n \in Nat : Pow2(n + 1) = 2 * Pow2(n)
    BY PowerOfMore
  <1>2. /\ Pow2(0 + 1) = 2 /\ 0 + 1 = 1
    BY <1>1
  <1>3. Pow2(1 + 1) = 4 /\ 1 + 1 = 2
    BY <1>1, <1>2
  <1>4. Pow2(2 + 1) = 8 /\ 2 + 1 = 3
    BY <1>1, <1>3
  <1>5. Pow2(3 + 1) = 16 /\ 3 + 1 = 4
    BY <1>1, <1>4
  <1>6. Pow2(4 + 1) = 32 /\ 4 + 1 = 5
    BY <1>1, <1>5
  <1>7. Pow2(5 + 1) = 64 /\ 5 + 1 = 6
    BY <1>1, <1>6
  <1>8. Pow2(6 + 1) = 128 /\ 6 + 1 = 7
    BY <1>1, <1>7
  <1>9. Pow2(7 + 1) = 256 /\ 7 + 1 = 8
    BY <1>1, <1>8
  <1> QED BY <1>1, <1>2, <1>3, <1>4, <1>5, <1>6, <1>7, <1>8, <1>9

LEMMA MaxHighIs == MaxHigh \in Nat /\ MaxHigh >= 16777215 /\ MaxHigh <= 16777215
  BY DEF MaxHigh

\* Products of what is between bounds.
LEMMA ProductBetween ==
    ASSUME NEW a \in Nat, NEW o \in 31..2017
    PROVE  a * o \in Nat /\ 31 * a <= a * o /\ a * o <= 2017 * a
  <1>1. a * o \in Nat
    OBVIOUS
  <1>2. a * (o - 31) \in Nat /\ a * (2017 - o) \in Nat
    <2>1. o - 31 \in Nat /\ 2017 - o \in Nat
      OBVIOUS
    <2> QED BY <2>1
  <1>3. a * (o - 31) = a * o - 31 * a /\ a * (2017 - o) = 2017 * a - a * o
    OBVIOUS
  <1> QED BY <1>1, <1>2, <1>3

\* A bit of probability o leaves s * o + e of range, s being range >> 11.
Scaled(s, o, e) ==
    LET low == (s % 256) * o + e
    IN  [hi |-> (s \div 256) * o + (low \div 256), lo |-> low % 256]

IsShifted(s) == s \in Nat /\ 8192 <= s /\ s <= 2097151
IsDropped(e) == e \in 0..2047

\* What is left is neither too small nor too large: one byte makes it large enough.
LEMMA ScaledIs ==
    ASSUME NEW s, IsShifted(s), NEW e, IsDropped(e), NEW o \in Adapted
    PROVE  /\ Scaled(s, o, e).hi \in 992..MaxHigh /\ Scaled(s, o, e).lo \in 0..255
           /\ 31 * s < 256 * (Scaled(s, o, e).hi + 1)
  <1> DEFINE a == s \div 256
             m == s % 256
             x == a * o
             y == m * o
             low == y + e
             q == low \div 256
  <1>0. e \in 0..2047 /\ o \in 31..2017
    BY DEF IsDropped, Adapted
  <1>1. a \in 32..8191 /\ m \in 0..255 /\ s = 256 * a + m
    BY DEF IsShifted
  <1>2. a \in Nat /\ m \in Nat
    BY DEF IsShifted
  <1> HIDE DEF a, m
  <1>3. /\ x \in Nat /\ 31 * a <= x /\ x <= 2017 * a
        /\ y \in Nat /\ 31 * m <= y /\ y <= 2017 * m
    BY <1>0, <1>2, ProductBetween
  <1> HIDE DEF x, y
  <1>4. low \in Nat /\ low <= 516382 /\ 31 * m <= low
    BY <1>0, <1>1, <1>3
  <1> HIDE DEF low
  <1>5. q \in 0..2017 /\ low % 256 \in 0..255 /\ low < 256 * (q + 1)
    BY <1>4
  <1> HIDE DEF q
  <1>6. x + q \in Nat /\ 992 <= x + q /\ x + q <= 16777215 /\ 31 * s < 256 * (x + q + 1)
    BY <1>1, <1>3, <1>4, <1>5
  <1>7. x + q \in 992..MaxHigh
    BY <1>6, MaxHighIs
  <1>8. Scaled(s, o, e).hi = x + q /\ Scaled(s, o, e).lo = low % 256
    BY DEF Scaled, a, m, x, y, low, q
  <1> QED BY <1>5, <1>6, <1>7, <1>8

\* A range that a bit leaves, and the bytes normalize takes then.
IsLeft(r) == r.hi \in 992..MaxHigh /\ r.lo \in 0..255

Taken(r) ==
    /\ range'.hi \in 65536..MaxHigh /\ range'.lo \in 0..255 /\ bytes' \in Nat
    /\ \/ r.hi < 65536 /\ bytes' = bytes + 1 /\ range'.hi >= 256 * r.hi
       \/ r.hi >= 65536 /\ bytes' = bytes /\ range'.hi = r.hi

\* What is left of range, if its lowest byte is lo.
SubrangeOf(hi, lo, o, bit) ==
    Scaled(hi \div 8, o, IF bit = 1 THEN (hi % 8) * 256 + lo ELSE 0)

\* What a bit of probability o leaves of a range, by its two words.
LEMMA SubrangeIs ==
    ASSUME NEW hi \in 65536..MaxHigh, NEW lo \in 0..255, NEW o \in Adapted, NEW bit
    PROVE  /\ IsLeft(SubrangeOf(hi, lo, o, bit))
           /\ 31 * (hi \div 8) < 256 * (SubrangeOf(hi, lo, o, bit).hi + 1)
  <1> DEFINE s == hi \div 8
             e == IF bit = 1 THEN (hi % 8) * 256 + lo ELSE 0
  <1>1. IsShifted(s)
    BY MaxHighIs DEF IsShifted
  <1>2. (hi % 8) * 256 + lo \in 0..2047
    BY MaxHighIs
  <1>3. IsDropped(e)
    BY <1>2 DEF IsDropped
  <1>4. SubrangeOf(hi, lo, o, bit) = Scaled(s, o, e)
    BY DEF SubrangeOf
  <1> HIDE DEF s, e
  <1>5. /\ Scaled(s, o, e).hi \in 992..MaxHigh /\ Scaled(s, o, e).lo \in 0..255
        /\ 31 * s < 256 * (Scaled(s, o, e).hi + 1)
    BY <1>1, <1>3, ScaledIs
  <1> QED BY <1>4, <1>5 DEF s, IsLeft

\* What normalize does to a range that has lost a byte at most.
LEMMA NormalizeIs ==
    ASSUME BitsTypeOK, NEW r, IsLeft(r), Normalize(r) PROVE Taken(r)
  <1> USE DEF IsLeft, Taken
  <1>1. bytes \in Nat /\ range' = (IF r.hi < 65536 THEN [hi |-> r.hi * 256 + r.lo, lo |-> 0] ELSE r)
    BY DEF Normalize, BitsTypeOK
  <1> DEFINE h == r.hi
             l == r.lo
  <1>2. CASE h < 65536
    <2>1. range'.hi = h * 256 + l /\ range'.lo = 0 /\ bytes' = bytes + 1
      BY <1>1, <1>2 DEF Normalize
    <2>2. h \in Nat /\ 992 <= h /\ h < 65536 /\ l \in 0..255
      BY <1>2, MaxHighIs
    <2> HIDE DEF h, l
    <2> QED BY <1>1, <2>1, <2>2, MaxHighIs DEF h
  <1>3. CASE ~(h < 65536)
    <2>1. range'.hi = h /\ range'.lo = l /\ bytes' = bytes
      BY <1>1, <1>3 DEF Normalize
    <2>2. h \in 65536..MaxHigh /\ l \in 0..255
      BY <1>3, MaxHighIs
    <2> HIDE DEF h, l
    <2> QED BY <1>1, <2>1, <2>2 DEF h
  <1> QED BY <1>2, <1>3

\* range and the bytes taken.
Ranged == range.hi \in 65536..MaxHigh /\ range.lo \in 0..255 /\ bytes \in Nat

\* The node that l more bits of a tree of n bits lead on from.
NodeOf(n, l, t) == l \in 1..n /\ t \in Pow2(n - l)..(2 * Pow2(n - l) - 1)

AtNode(n) == NodeOf(n, left, tmp)

\* Where the walk is in a tree, and which length decoder it is in.
Placed ==
    /\ reading = "literal" => AtNode(8)
    /\ reading \in {"low", "mid"} => AtNode(3)
    /\ reading = "high" => AtNode(8)
    /\ reading = "slot" => AtNode(6)
    /\ reading = "reverse" => slot \in 4..13 /\ AtNode(num_direct_bits(slot))
    /\ reading = "direct" => slot \in 14..63 /\ left \in 1..DirectsOf(slot)
    /\ reading = "align" => AtNode(4)
    /\ reading = "choice2" => tmp = 1
    /\ reading \in {"is_rep_g0", "is_rep_0long", "is_rep_g1", "is_rep_g2"} => coder = "rep_len"

\* The bits with a context that may still come, and one more in the distances
\* that have direct bits.
Owed ==
    CASE reading = "is_match"                     -> 23
      [] reading = "is_rep"                       -> 22
      [] reading = "is_rep_g0"                    -> 21
      [] reading \in {"is_rep_0long", "is_rep_g1"} -> 20
      [] reading = "is_rep_g2"                    -> 19
      [] reading = "choice"                       -> IF coder = "len" THEN 21 ELSE 10
      [] reading = "choice2"                      -> IF coder = "len" THEN 20 ELSE 9
      [] reading \in {"low", "mid", "high"}       -> IF coder = "len" THEN left + 11 ELSE left
      [] reading = "slot"                         -> left + 5
      [] reading \in {"literal", "reverse"}       -> left
      [] reading = "direct"                       -> 5
      [] reading = "align"                        -> left + 1
      [] OTHER                                    -> 0

WalkInv == BitsTypeOK /\ Placed /\ Len(odds) >= Owed

\* A bit leads from a node to one below it, and from the last to a leaf.
LEMMA NodeIs ==
    ASSUME NEW n \in 1..8, NEW l, NEW t, NodeOf(n, l, t), NEW bit \in {0, 1}
    PROVE  /\ l \in 1..8 /\ t \in 1..255 /\ 2 * t + bit \in 1..511
           /\ l > 1 => NodeOf(n, l - 1, 2 * t + bit)
           /\ l = 1 => 2 * t + bit \in Pow2(n)..(2 * Pow2(n) - 1)
  <1> DEFINE k == n - l
             p == Pow2(k)
  <1>1. l \in 1..n /\ k \in 0..7 /\ t \in p..(2 * p - 1)
    BY DEF NodeOf
  <1>2. p \in 1..128
    BY <1>1, SmallPowers
  <1>3. Pow2(k + 1) = 2 * p
    BY <1>1, PowerOfMore
  <1>4. n - (l - 1) = k + 1 /\ (l = 1 => k + 1 = n)
    BY <1>1
  <1> HIDE DEF k, p
  <1>5. t \in 1..255 /\ 2 * t + bit \in 1..511 /\ 2 * t + bit \in (2 * p)..(2 * (2 * p) - 1)
    BY <1>1, <1>2
  <1>6. l > 1 => l - 1 \in 1..n
    BY <1>1
  <1> QED BY <1>1, <1>3, <1>4, <1>5, <1>6 DEF NodeOf

\* A tree begins at node 1.
LEMMA RootIs == ASSUME NEW n \in 1..8 PROVE NodeOf(n, n, 1)
  <1>1. n - n = 0 /\ Pow2(0) = 1
    BY SmallPowers
  <1> QED BY <1>1 DEF NodeOf

\* A bit that is read is the first that comes.
LEMMA DecodeIs ==
    ASSUME BitsTypeOK, odds # <<>>, NEW bit, DecodeBit(bit)
    PROVE  /\ Ranged'
           /\ \E h \in Nat : /\ 31 * (range.hi \div 8) < 256 * (h + 1)
                             /\ \/ h < 65536 /\ bytes' = bytes + 1 /\ range'.hi >= 256 * h
                                \/ h >= 65536 /\ bytes' = bytes /\ range'.hi = h
  <1> DEFINE o == Head(odds)
             r == SubrangeOf(range.hi, range.lo, o, bit)
  <1>1. o \in Adapted
    BY DEF BitsTypeOK
  <1>2. Subrange(bit) = r
    BY DEF Subrange, SubrangeOf, Scaled
  <1>3. range.hi \in 65536..MaxHigh /\ range.lo \in 0..255
    BY DEF BitsTypeOK
  <1> HIDE DEF o
  <1>4. IsLeft(r) /\ 31 * (range.hi \div 8) < 256 * (r.hi + 1)
    <2> DEFINE h == range.hi
               l == range.lo
    <2>1. h \in 65536..MaxHigh /\ l \in 0..255
      BY <1>3
    <2> HIDE DEF h, l
    <2>2. /\ IsLeft(SubrangeOf(h, l, o, bit))
          /\ 31 * (h \div 8) < 256 * (SubrangeOf(h, l, o, bit).hi + 1)
      BY <1>1, <2>1, SubrangeIs
    <2> QED BY <2>2 DEF h, l
  <1>5. Normalize(r)
    BY <1>2 DEF DecodeBit
  <1> HIDE DEF r
  <1>6. Taken(r)
    BY <1>4, <1>5, NormalizeIs
  <1>7. r.hi \in Nat
    BY <1>4, MaxHighIs DEF IsLeft
  <1> QED BY <1>4, <1>6, <1>7 DEF Ranged, Taken

\* A bit with a context takes one probability and at most one byte.
LEMMA ReadIs ==
    ASSUME BitsTypeOK, Len(odds) >= 1, NEW array, NEW at, NEW bit, ReadBit(array, at, bit)
    PROVE  /\ odds' \in Seq(Adapted) /\ Len(odds') = Len(odds) - 1 /\ Len(odds) \in Nat
           /\ Ranged' /\ last' = Read(array, at, bit)
  <1>1. odds \in Seq(Adapted) /\ odds # <<>>
    BY DEF BitsTypeOK
  <1>2. odds' = Tail(odds) /\ DecodeBit(bit) /\ last' = Read(array, at, bit)
    BY DEF ReadBit
  <1>3. odds' \in Seq(Adapted) /\ Len(odds') = Len(odds) - 1 /\ Len(odds) \in Nat
    BY <1>1, <1>2
  <1> QED BY <1>1, <1>2, <1>3, DecodeIs

\* What a direct bit does to range and bytes.
LEMMA DirectsAre ==
    ASSUME BitsTypeOK, Normalize(Halved)
    PROVE  /\ Ranged'
           /\ \/ range.hi \div 2 < 65536 /\ bytes' = bytes + 1 /\ range'.hi >= 256 * (range.hi \div 2)
              \/ range.hi \div 2 >= 65536 /\ bytes' = bytes /\ range'.hi = range.hi \div 2
  <1> DEFINE r == Halved
  <1>1. r.hi = range.hi \div 2 /\ r.lo = ((range.hi % 2) * 256 + range.lo) \div 2
    BY DEF Halved
  <1>2. IsLeft(r)
    <2>1. range.hi \in 65536..MaxHigh /\ range.lo \in 0..255
      BY DEF BitsTypeOK
    <2> DEFINE h == range.hi
               l == range.lo
    <2>2. h \in 65536..MaxHigh /\ l \in 0..255 /\ r.hi = h \div 2 /\ r.lo = ((h % 2) * 256 + l) \div 2
      BY <1>1, <2>1
    <2> HIDE DEF h, l, r
    <2>3. h \div 2 \in 992..MaxHigh /\ ((h % 2) * 256 + l) \div 2 \in 0..255
      BY <2>2, MaxHighIs
    <2> QED BY <2>2, <2>3 DEF IsLeft
  <1> HIDE DEF r
  <1>3. Normalize(r)
    BY DEF r
  <1>4. Taken(r)
    BY <1>2, <1>3, NormalizeIs
  <1> QED BY <1>1, <1>4 DEF Ranged, Taken

LEMMA TupleIs ==
    ASSUME NEW S, NEW n \in Nat, NEW f \in [1..n -> S] PROVE f \in Seq(S) /\ Len(f) = n
  OBVIOUS

LEMMA InitWalk == BitInit => WalkInv
  <1> SUFFICES ASSUME BitInit PROVE WalkInv
    OBVIOUS
  <1>1. odds \in Seq(Adapted) /\ Len(odds) = 23
    <2>1. odds \in [1..MaxBits -> Adapted]
      BY OddsAssumption DEF BitInit
    <2>2. MaxBits \in Nat /\ MaxBits = 23
      BY DEF MaxBits
    <2> QED BY <2>1, <2>2, TupleIs
  <1>2. range.hi \in 65536..MaxHigh /\ range.lo \in 0..255
    BY RangesAssumption DEF BitInit
  <1>3. BitsTypeOK
    BY <1>1, <1>2 DEF BitInit, BitsTypeOK
  <1>4. Placed
    BY DEF BitInit, Placed
  <1>5. Owed = 23
    BY DEF BitInit, Owed
  <1> QED BY <1>1, <1>3, <1>4, <1>5 DEF WalkInv

\* The parts of the type invariant that a bit leaves to the walk.
LEMMA TypeAfter ==
    ASSUME BitsTypeOK, Ranged', odds' \in Seq(Adapted), ctx' = ctx,
           coder' \in {"len", "rep_len"}, tmp' \in 1..511, left' \in 0..26,
           match_len' \in 0..271, slot' \in 0..63,
           reading' \in {"is_match", "literal", "is_rep", "is_rep_g0", "is_rep_0long",
                         "is_rep_g1", "is_rep_g2", "choice", "choice2", "low", "mid",
                         "high", "slot", "reverse", "direct", "align", "done"}
    PROVE  BitsTypeOK'
  BY DEF BitsTypeOK, Ranged

\* A bit outside the trees keeps the invariant where fewer bits are owed after it.
LEMMA FlagWalk ==
    ASSUME WalkInv, NEW array, NEW at, NEW bit, NEW next, FlagBit(array, at, bit, next),
           next \in {"is_rep", "is_rep_g0", "is_rep_0long", "is_rep_g1", "is_rep_g2",
                     "choice", "done"},
           coder' \in {"len", "rep_len"},
           next \in {"is_rep_g0", "is_rep_0long", "is_rep_g1", "is_rep_g2"} => coder' = "rep_len",
           Owed \in Nat, Owed' \in Nat, Owed' < Owed
    PROVE  WalkInv'
  <1>1. BitsTypeOK /\ Len(odds) >= Owed /\ Len(odds) \in Nat /\ Len(odds) >= 1
    BY DEF WalkInv, BitsTypeOK
  <1>2. ReadBit(array, at, bit) /\ reading' = next /\ UNCHANGED <<ctx, tmp, left, match_len, slot>>
    BY DEF FlagBit
  <1>3. odds' \in Seq(Adapted) /\ Len(odds') = Len(odds) - 1 /\ Ranged'
    BY <1>1, <1>2, ReadIs
  <1>4. BitsTypeOK'
    <2>1. tmp' \in 1..511 /\ left' \in 0..26 /\ match_len' \in 0..271 /\ slot' \in 0..63
      BY <1>1, <1>2 DEF BitsTypeOK
    <2> QED BY <1>1, <1>2, <1>3, <2>1, TypeAfter
  <1>5. Placed'
    BY <1>2 DEF Placed
  <1>6. Len(odds') >= Owed'
    BY <1>1, <1>3
  <1> QED BY <1>4, <1>5, <1>6 DEF WalkInv

\* The bits outside the trees.
LEMMA FlagsWalk ==
    ASSUME WalkInv,
           \/ IsMatchBit /\ reading' # "literal"
           \/ IsRepBit \/ IsRepG0Bit \/ IsRep0LongBit \/ IsRepG1Bit \/ IsRepG2Bit
    PROVE  WalkInv'
  <1>1. /\ coder \in {"len", "rep_len"}
        /\ reading \in {"is_rep_g0", "is_rep_0long", "is_rep_g1", "is_rep_g2"} => coder = "rep_len"
    BY DEF WalkInv, BitsTypeOK, Placed
  <1>2. CASE IsMatchBit /\ reading' # "literal"
    <2>1. FlagBit("is_match", PosCell, 1, "is_rep") /\ coder' = coder /\ reading = "is_match"
      BY <1>2 DEF IsMatchBit
    <2>2. reading' = "is_rep"
      BY <2>1 DEF FlagBit
    <2>3. Owed = 23 /\ Owed' = 22
      BY <2>1, <2>2 DEF Owed
    <2> QED BY <1>1, <2>1, <2>3, FlagWalk
  <1>3. CASE IsRepBit
    <2>1. CASE FlagBit("is_rep", ctx.state, 0, "choice") /\ coder' = "len"
      <3>1. reading = "is_rep" /\ reading' = "choice"
        BY <1>3, <2>1 DEF IsRepBit, FlagBit
      <3>2. Owed = 22 /\ Owed' = 21
        BY <2>1, <3>1 DEF Owed
      <3> QED BY <2>1, <3>2, FlagWalk
    <2>2. CASE FlagBit("is_rep", ctx.state, 1, "is_rep_g0") /\ coder' = "rep_len"
      <3>1. reading = "is_rep" /\ reading' = "is_rep_g0"
        BY <1>3, <2>2 DEF IsRepBit, FlagBit
      <3>2. Owed = 22 /\ Owed' = 21
        BY <2>2, <3>1 DEF Owed
      <3> QED BY <2>2, <3>2, FlagWalk
    <2> QED BY <1>3, <2>1, <2>2 DEF IsRepBit
  <1>4. ASSUME NEW array, NEW at, NEW bit, NEW next, FlagBit(array, at, bit, next), coder' = coder,
               reading \in {"is_rep_g0", "is_rep_0long", "is_rep_g1", "is_rep_g2"},
               \/ reading = "is_rep_g0" /\ next \in {"is_rep_0long", "is_rep_g1"}
               \/ reading = "is_rep_g1" /\ next = "is_rep_g2"
               \/ reading # "is_rep_g0" /\ next \in {"choice", "done"}
        PROVE  WalkInv'
    <2>1. coder = "rep_len" /\ reading' = next
      BY <1>1, <1>4 DEF FlagBit
    <2>2. Owed \in Nat /\ Owed' \in Nat /\ Owed' < Owed
      BY <1>4, <2>1 DEF Owed
    <2> QED BY <1>1, <1>4, <2>1, <2>2, FlagWalk
  <1>5. CASE IsRepG0Bit
    BY <1>4, <1>5 DEF IsRepG0Bit
  <1>6. CASE IsRep0LongBit
    BY <1>4, <1>6 DEF IsRep0LongBit
  <1>7. CASE IsRepG1Bit
    BY <1>4, <1>7 DEF IsRepG1Bit
  <1>8. CASE IsRepG2Bit
    BY <1>4, <1>8 DEF IsRepG2Bit
  <1> QED BY <1>2, <1>3, <1>5, <1>6, <1>7, <1>8

\* The walk is in a tree of n bits.
InTreeOf(n) ==
    /\ n \in 1..8 /\ AtNode(n)
    /\ \/ reading \in {"literal", "high"} /\ n = 8
       \/ reading \in {"low", "mid"} /\ n = 3
       \/ reading = "slot" /\ n = 6
       \/ reading = "reverse" /\ n = num_direct_bits(slot)
       \/ reading = "align" /\ n = 4

\* It stays in it.
StaysWith(bit) ==
    /\ left > 1 /\ tmp' = Node(bit) /\ left' = left - 1
    /\ UNCHANGED <<reading, match_len, slot>>

\* The leaf that the last bit of a tree leads to.
LEMMA NodeEnds ==
    ASSUME NEW n, InTreeOf(n), left = 1, NEW bit \in {0, 1}
    PROVE  Node(bit) \in Pow2(n)..(2 * Pow2(n) - 1) /\ Node(bit) \in 1..511
  <1> DEFINE t == tmp
             p == Pow2(n - 1)
  <1>1. n \in 1..8 /\ t \in p..(2 * p - 1)
    BY DEF InTreeOf, AtNode, NodeOf
  <1>2. Pow2(n) = 2 * p /\ p \in 1..128
    <2>1. n - 1 \in 0..7 /\ (n - 1) + 1 = n
      BY <1>1
    <2>2. Pow2((n - 1) + 1) = 2 * p
      BY <2>1, PowerOfMore
    <2> QED BY <2>1, <2>2, SmallPowers
  <1> HIDE DEF t, p
  <1>3. 2 * t + bit \in (2 * p)..(2 * (2 * p) - 1) /\ 2 * t + bit \in 1..511
    BY <1>1, <1>2
  <1> QED BY <1>2, <1>3 DEF Node, t

\* A bit of a tree that is not its last.
LEMMA InTreeWalk ==
    ASSUME WalkInv, NEW n, InTreeOf(n), NEW bit \in {0, 1}, StaysWith(bit),
           NEW array, NEW at, ReadBit(array, at, bit), UNCHANGED <<ctx, coder>>
    PROVE  WalkInv'
  <1> USE DEF InTreeOf, StaysWith
  <1>1. BitsTypeOK /\ Len(odds) >= Owed /\ Len(odds) \in Nat
    BY DEF WalkInv, BitsTypeOK
  <1>2. left \in 1..8 /\ tmp' \in 1..511 /\ AtNode(n)'
    BY NodeIs DEF AtNode, Node
  <1>3. Owed \in Nat /\ Owed >= 1 /\ Owed' = Owed - 1
    <2>1. reading' = reading /\ coder' = coder /\ left' = left - 1 /\ left \in 2..8
      BY <1>2
    <2>2. CASE reading \in {"literal", "reverse"}
      BY <2>1, <2>2 DEF Owed
    <2>3. CASE reading \in {"low", "mid", "high"}
      BY <2>1, <2>3 DEF Owed
    <2>4. CASE reading = "slot"
      BY <2>1, <2>4 DEF Owed
    <2>5. CASE reading = "align"
      BY <2>1, <2>5 DEF Owed
    <2> QED BY <2>2, <2>3, <2>4, <2>5
  <1>4. odds' \in Seq(Adapted) /\ Len(odds') = Len(odds) - 1 /\ Ranged'
    BY <1>1, <1>3, ReadIs
  <1>5. BitsTypeOK'
    <2>1. /\ tmp' \in 1..511 /\ left' \in 0..26 /\ match_len' \in 0..271 /\ slot' \in 0..63
          /\ coder' \in {"len", "rep_len"}
      BY <1>1, <1>2 DEF BitsTypeOK
    <2>2. reading' \in {"literal", "low", "mid", "high", "slot", "reverse", "align"}
      OBVIOUS
    <2> QED BY <1>1, <1>4, <2>1, <2>2, TypeAfter
  <1>6. Placed'
    <2>1. reading = "reverse" => slot \in 4..13 /\ num_direct_bits(slot)' = num_direct_bits(slot)
      BY DEF WalkInv, Placed, num_direct_bits
    <2> QED BY <1>2, <2>1 DEF Placed
  <1> QED BY <1>1, <1>3, <1>4, <1>5, <1>6 DEF WalkInv

\* The invariant where a bit of a tree leads to something else.
LEMMA TreeEndsWalk ==
    ASSUME WalkInv, NEW bit, NEW array, NEW at, ReadBit(array, at, bit), ctx' = ctx, coder' = coder,
           Owed >= 1, Owed \in Nat, Owed' \in Nat, Owed' < Owed, Placed',
           tmp' \in 1..511, left' \in 0..26, match_len' \in 0..271, slot' \in 0..63,
           reading' \in {"low", "choice2", "mid", "high", "literal", "slot", "reverse", "direct",
                         "align", "done"}
    PROVE  WalkInv'
  <1>1. BitsTypeOK /\ Len(odds) >= Owed /\ Len(odds) \in Nat /\ Len(odds) >= 1
    BY DEF WalkInv, BitsTypeOK
  <1>2. odds' \in Seq(Adapted) /\ Len(odds') = Len(odds) - 1 /\ Ranged'
    BY <1>1, ReadIs
  <1>3. coder' \in {"len", "rep_len"}
    BY <1>1 DEF BitsTypeOK
  <1>4. BitsTypeOK'
    BY <1>1, <1>2, <1>3, TypeAfter
  <1> QED BY <1>1, <1>2, <1>4 DEF WalkInv

LEMMA LiteralWalk ==
    ASSUME WalkInv, LiteralBit \/ (IsMatchBit /\ reading' = "literal") PROVE WalkInv'
  <1>1. CASE IsMatchBit /\ reading' = "literal"
    <2>1. /\ ReadBit("is_match", PosCell, 0) /\ reading = "is_match" /\ reading' = "literal"
          /\ tmp' = 1 /\ left' = 8 /\ UNCHANGED <<ctx, coder, match_len, slot>>
      BY <1>1 DEF IsMatchBit, Enters, FlagBit
    <2>2. Owed = 23 /\ Owed' = 8
      BY <2>1 DEF Owed
    <2>3. Placed'
      BY <2>1, RootIs DEF Placed, AtNode
    <2>4. match_len' \in 0..271 /\ slot' \in 0..63
      BY <2>1 DEF WalkInv, BitsTypeOK
    <2> QED BY <2>1, <2>2, <2>3, <2>4, TreeEndsWalk
  <1>2. CASE LiteralBit
    <2>1. reading = "literal" /\ AtNode(8) /\ UNCHANGED <<ctx, coder, match_len, slot>>
      BY <1>2 DEF LiteralBit, WalkInv, Placed
    <2>2. PICK bit \in {0, 1} : /\ ReadBit("literal_probs", At(lit_row, MatchColumn + tmp, 768), bit)
                                /\ tmp' = Node(bit) /\ left' = left - 1
      BY <1>2 DEF LiteralBit, Node
    <2>3. left \in 1..8 /\ tmp' \in 1..511
      BY <2>1, <2>2, NodeIs DEF AtNode, Node
    <2>4. CASE left > 1
      <3>1. reading' = reading
        BY <1>2, <2>4 DEF LiteralBit
      <3>2. InTreeOf(8) /\ StaysWith(bit)
        BY <2>1, <2>2, <2>4, <3>1 DEF InTreeOf, StaysWith
      <3> QED BY <2>1, <2>2, <3>2, InTreeWalk
    <2>5. CASE left = 1
      <3>1. reading' = "done"
        BY <1>2, <2>5 DEF LiteralBit
      <3>2. Owed = 1 /\ Owed' = 0 /\ Placed' /\ left' = 0
        BY <2>1, <2>2, <2>5, <3>1 DEF Owed, Placed
      <3>3. match_len' \in 0..271 /\ slot' \in 0..63
        BY <2>1 DEF WalkInv, BitsTypeOK
      <3> QED BY <2>1, <2>2, <2>3, <3>1, <3>2, <3>3, TreeEndsWalk
    <2> QED BY <2>3, <2>4, <2>5
  <1> QED BY <1>1, <1>2

LEMMA ChoiceWalk == ASSUME WalkInv, LenChoice \/ LenChoice2 PROVE WalkInv'
  <1>1. match_len \in 0..271 /\ slot \in 0..63 /\ coder \in {"len", "rep_len"}
    BY DEF WalkInv, BitsTypeOK
  <1>2. CASE LenChoice
    <2>1. PICK bit \in {0, 1} : /\ ReadBit(Choice, 0, bit)
                                /\ reading' = IF bit = 0 THEN "low" ELSE "choice2"
      BY <1>2 DEF LenChoice
    <2>2. reading = "choice" /\ tmp' = 1 /\ left' = 3 /\ UNCHANGED <<ctx, coder, match_len, slot>>
      BY <1>2 DEF LenChoice
    <2>3. Owed \in Nat /\ Owed' \in Nat /\ Owed' < Owed
      BY <1>1, <2>1, <2>2 DEF Owed
    <2>4. Placed'
      BY <2>1, <2>2, RootIs DEF Placed, AtNode
    <2> QED BY <1>1, <2>1, <2>2, <2>3, <2>4, TreeEndsWalk
  <1>3. CASE LenChoice2
    <2>1. PICK bit \in {0, 1} : /\ ReadBit(Choice2, 0, bit)
                                /\ \/ reading' = "mid" /\ left' = 3
                                   \/ reading' = "high" /\ left' = 8
      BY <1>3 DEF LenChoice2
    <2>2. reading = "choice2" /\ tmp' = 1 /\ UNCHANGED <<ctx, coder, match_len, slot>>
      BY <1>3 DEF LenChoice2, WalkInv, Placed
    <2>3. Owed \in Nat /\ Owed' \in Nat /\ Owed' < Owed
      BY <1>1, <2>1, <2>2 DEF Owed
    <2>4. Placed'
      BY <2>1, <2>2, RootIs DEF Placed, AtNode
    <2> QED BY <1>1, <2>1, <2>2, <2>3, <2>4, TreeEndsWalk
  <1> QED BY <1>2, <1>3

\* The trees of a length: where they start, and how deep they are.
LEMMA LengthWalk ==
    ASSUME WalkInv, LenLow \/ LenMid \/ LenHigh PROVE WalkInv'
  <1>1. match_len \in 0..271 /\ slot \in 0..63 /\ coder \in {"len", "rep_len"}
    BY DEF WalkInv, BitsTypeOK
  <1>2. PICK first \in {0, 8, 16}, n \in {3, 8} :
          /\ \/ reading \in {"low", "mid"} /\ n = 3 /\ first \in {0, 8}
             \/ reading = "high" /\ n = 8 /\ first = 16
          /\ \E array, at : \E bit \in {0, 1} :
                /\ ReadBit(array, at, bit) /\ UNCHANGED <<ctx, coder>>
                /\ Inside(bit) \/ Length(first, n, bit)
    <2>1. CASE LenLow
      BY <2>1 DEF LenLow, TreeBit
    <2>2. CASE LenMid
      BY <2>2 DEF LenMid, TreeBit
    <2>3. CASE LenHigh
      BY <2>3 DEF LenHigh, TreeBit
    <2> QED BY <2>1, <2>2, <2>3
  <1>3. PICK array, at : \E bit \in {0, 1} :
           /\ ReadBit(array, at, bit) /\ UNCHANGED <<ctx, coder>>
           /\ Inside(bit) \/ Length(first, n, bit)
    BY <1>2
  <1>4. PICK bit \in {0, 1} :
           /\ ReadBit(array, at, bit) /\ UNCHANGED <<ctx, coder>>
           /\ Inside(bit) \/ Length(first, n, bit)
    BY <1>3
  <1>5. InTreeOf(n)
    BY <1>2 DEF WalkInv, Placed, InTreeOf
  <1>6. CASE Inside(bit)
    <2>1. StaysWith(bit)
      BY <1>6 DEF Inside, StaysWith
    <2> QED BY <1>4, <1>5, <2>1, InTreeWalk
  <1>7. CASE Length(first, n, bit)
    <2>1. /\ left = 1 /\ match_len' = first + (Node(bit) - Pow2(n)) /\ slot' = slot
          /\ reading' = (IF coder = "len" THEN "slot" ELSE "done") /\ tmp' = 1 /\ left' = 6
      BY <1>7 DEF Length, Enters
    <2>2. Node(bit) \in Pow2(n)..(2 * Pow2(n) - 1)
      BY <1>5, <2>1, NodeEnds
    <2>3. match_len' \in 0..271
      BY <1>2, <2>1, <2>2, SmallPowers
    <2>4. Owed \in Nat /\ Owed' \in Nat /\ Owed' < Owed
      BY <1>1, <1>2, <1>4, <2>1 DEF Owed
    <2>5. Placed'
      BY <2>1, RootIs DEF Placed, AtNode
    <2> QED BY <1>1, <1>4, <2>1, <2>3, <2>4, <2>5, TreeEndsWalk
  <1> QED BY <1>4, <1>6, <1>7

\* How many bits the slots leave to other trees.
LEMMA SlotLeaves ==
    /\ \A s \in 4..13 : num_direct_bits(s) \in 1..5
    /\ \A s \in 14..63 : DirectsOf(s) \in 2..26 /\ num_direct_bits(s) = DirectsOf(s) + 4
  BY DEF num_direct_bits, DirectsOf

LEMMA SlotWalk == ASSUME WalkInv, Slot PROVE WalkInv'
  <1>1. reading = "slot" /\ AtNode(6) /\ match_len \in 0..271
    BY DEF Slot, WalkInv, Placed, BitsTypeOK
  <1>2. PICK bit \in {0, 1} : /\ ReadBit("pos_slot_decoder", 64 * len_state + tmp, bit)
                              /\ UNCHANGED <<ctx, coder>>
                              /\ Inside(bit) \/ SlotEnds(Node(bit) - 64)
    BY DEF Slot, TreeBit
  <1>a. InTreeOf(6)
    BY <1>1 DEF InTreeOf
  <1>3. CASE Inside(bit)
    <2>1. StaysWith(bit)
      BY <1>3 DEF Inside, StaysWith
    <2> QED BY <1>2, <1>a, <2>1, InTreeWalk
  <1>4. CASE SlotEnds(Node(bit) - 64)
    <2> DEFINE s == Node(bit) - 64
    <2>1. left = 1 /\ slot' = s /\ match_len' = match_len
      BY <1>4 DEF SlotEnds
    <2>2. s \in 0..63
      <3>1. Node(bit) \in Pow2(6)..(2 * Pow2(6) - 1)
        BY <1>a, <2>1, NodeEnds
      <3> QED BY <3>1, SmallPowers
    <2> HIDE DEF s
    <2>3. \/ s < 4 /\ reading' = "done" /\ tmp' = 1 /\ left' = 0
          \/ s \in 4..13 /\ reading' = "reverse" /\ tmp' = 1 /\ left' = num_direct_bits(s)
          \/ s >= 14 /\ reading' = "direct" /\ tmp' = 1 /\ left' = DirectsOf(s)
      BY <1>4 DEF SlotEnds, Enters, s
    <2>4. Owed = 6 /\ Owed' \in 0..5 /\ left' \in 0..26
      BY <1>1, <2>1, <2>2, <2>3, SlotLeaves DEF Owed
    <2>5. Placed'
      <3>1. CASE s < 4 /\ reading' = "done"
        BY <3>1 DEF Placed
      <3>2. CASE s \in 4..13 /\ reading' = "reverse" /\ tmp' = 1 /\ left' = num_direct_bits(s)
        <4>1. num_direct_bits(s) \in 1..8 /\ num_direct_bits(slot)' = num_direct_bits(s)
          BY <2>1, <3>2, SlotLeaves DEF num_direct_bits
        <4> QED BY <2>1, <3>2, <4>1, RootIs DEF Placed, AtNode
      <3>3. CASE s >= 14 /\ reading' = "direct" /\ left' = DirectsOf(s)
        <4>1. s \in 14..63 /\ DirectsOf(slot)' = DirectsOf(s) /\ DirectsOf(s) \in 2..26
          BY <2>1, <2>2, <3>3, SlotLeaves DEF DirectsOf, num_direct_bits
        <4> QED BY <2>1, <3>3, <4>1 DEF Placed
      <3> QED BY <2>3, <3>1, <3>2, <3>3
    <2> QED BY <1>1, <1>2, <2>1, <2>2, <2>3, <2>4, <2>5, TreeEndsWalk
  <1> QED BY <1>2, <1>3, <1>4

LEMMA LastTreeWalk == ASSUME WalkInv, Reverse \/ Align PROVE WalkInv'
  <1>1. match_len \in 0..271 /\ slot \in 0..63 /\ left \in 0..26
    BY DEF WalkInv, BitsTypeOK
  <1>2. PICK array, at : \E bit \in {0, 1} :
           ReadBit(array, at, bit) /\ UNCHANGED <<ctx, coder>> /\ (Inside(bit) \/ LastTree)
    BY DEF Reverse, Align, TreeBit
  <1>3. PICK bit \in {0, 1} :
           ReadBit(array, at, bit) /\ UNCHANGED <<ctx, coder>> /\ (Inside(bit) \/ LastTree)
    BY <1>2
  <1>4. reading \in {"reverse", "align"}
    BY DEF Reverse, Align
  <1>5. PICK n : InTreeOf(n)
    <2>1. CASE reading = "reverse"
      <3>1. InTreeOf(num_direct_bits(slot))
        <4>1. slot \in 4..13 /\ AtNode(num_direct_bits(slot))
          BY <2>1 DEF WalkInv, Placed
        <4>2. num_direct_bits(slot) \in 1..8
          BY <4>1, SlotLeaves
        <4> QED BY <2>1, <4>1, <4>2 DEF InTreeOf
      <3> QED BY <3>1
    <2>2. CASE reading = "align"
      <3>1. InTreeOf(4)
        BY <2>2 DEF WalkInv, Placed, InTreeOf
      <3> QED BY <3>1
    <2> QED BY <1>4, <2>1, <2>2
  <1>6. CASE Inside(bit)
    <2>1. StaysWith(bit)
      BY <1>6 DEF Inside, StaysWith
    <2> QED BY <1>3, <1>5, <2>1, InTreeWalk
  <1>7. CASE LastTree
    <2>1. /\ left = 1 /\ reading' = "done" /\ tmp' = 1 /\ left' = 0
          /\ UNCHANGED <<match_len, slot>>
      BY <1>7 DEF LastTree, Enters
    <2>2. Owed \in Nat /\ Owed >= 1 /\ Owed' = 0 /\ Placed'
      BY <1>4, <2>1 DEF Owed, Placed
    <2> QED BY <1>1, <1>3, <2>1, <2>2, TreeEndsWalk
  <1> QED BY <1>3, <1>6, <1>7

LEMMA DirectWalk == ASSUME WalkInv, Direct PROVE WalkInv'
  <1>1. /\ reading = "direct" /\ slot \in 14..63 /\ left \in 1..DirectsOf(slot) /\ match_len \in 0..271
        /\ coder \in {"len", "rep_len"} /\ tmp \in 1..511
        /\ Len(odds) >= 5 /\ odds \in Seq(Adapted) /\ BitsTypeOK
    BY DEF Direct, WalkInv, Placed, BitsTypeOK, Owed
  <1>2. Ranged' /\ UNCHANGED <<ctx, odds, coder, match_len, slot>>
    BY <1>1, DirectsAre DEF Direct
  <1>3. DirectsOf(slot) \in 2..26 /\ DirectsOf(slot)' = DirectsOf(slot)
    BY <1>1, <1>2, SlotLeaves DEF DirectsOf, num_direct_bits
  <1>4. CASE left = 1
    <2>1. reading' = "align" /\ tmp' = 1 /\ left' = 4
      BY <1>4 DEF Direct, Enters
    <2>2. Placed' /\ Owed' = 5
      BY <2>1, RootIs DEF Placed, AtNode, Owed
    <2>3. BitsTypeOK'
      BY <1>1, <1>2, <2>1, TypeAfter
    <2> QED BY <1>1, <1>2, <2>2, <2>3 DEF WalkInv
  <1>5. CASE left # 1
    <2>1. left' = left - 1 /\ UNCHANGED <<reading, tmp>>
      BY <1>5 DEF Direct
    <2>2. left' \in 1..DirectsOf(slot)' /\ left' \in 0..26
      <3> DEFINE n == DirectsOf(slot)
      <3>1. n \in 2..26 /\ left \in 1..n /\ left # 1 /\ DirectsOf(slot)' = n
        BY <1>1, <1>3, <1>5
      <3> HIDE DEF n
      <3>2. left - 1 \in 1..n /\ left - 1 \in 0..26
        BY <3>1
      <3> QED BY <2>1, <3>1, <3>2
    <2>3. Placed' /\ Owed' = 5
      BY <1>1, <1>2, <2>1, <2>2 DEF Placed, Owed
    <2>4. BitsTypeOK'
      BY <1>1, <1>2, <2>1, <2>2, TypeAfter
    <2> QED BY <1>1, <1>2, <2>3, <2>4 DEF WalkInv
  <1> QED BY <1>4, <1>5

\* Every bit keeps WalkInv.
LEMMA StepWalk == ASSUME WalkInv, [BitNext]_bitVars PROVE WalkInv'
  <1>1. CASE BitNext
    BY <1>1, FlagsWalk, LiteralWalk, ChoiceWalk, LengthWalk, SlotWalk, LastTreeWalk, DirectWalk
       DEF BitNext
  <1>2. CASE UNCHANGED bitVars
    <2>1. BitsTypeOK'
      BY <1>2 DEF bitVars, WalkInv, BitsTypeOK
    <2>2. Placed' /\ Owed' = Owed
      BY <1>2 DEF bitVars, WalkInv, Placed, Owed, AtNode, num_direct_bits, DirectsOf
    <2> QED BY <1>2, <2>1, <2>2 DEF bitVars, WalkInv
  <1> QED BY <1>1, <1>2

\* WalkInv is an invariant.
LEMMA WalkHolds == BitSpec => []WalkInv
  BY InitWalk, StepWalk, PTL DEF BitSpec

\* What a context may be.
LEMMA ContextIs ==
    ASSUME WalkInv
    PROVE  /\ ctx.state \in 0..11 /\ ctx.pos_state \in 0..15
           /\ ctx.lc \in 0..8 /\ ctx.lp \in 0..4 /\ ctx.len \in Nat
           /\ ctx.prev_byte \in 0..255 /\ ctx.match_byte \in 0..255
  <1>1. ctx \in [state : 0..11, pos_state : 0..15, lc : 0..8, lp : 0..4,
                 len : Nat, prev_byte : 0..255, match_byte : 0..255]
    BY ContextsAssumption DEF WalkInv, BitsTypeOK
  <1> QED BY <1>1

\* The row of a literal is one of the 1 << (lc + lp) there are.
LEMMA RowIs ==
    ASSUME WalkInv
    PROVE  lit_row \in Nat /\ Pow2(ctx.lc + ctx.lp) \in Nat /\ lit_row < Pow2(ctx.lc + ctx.lp)
  <1> DEFINE lc == ctx.lc
             lp == ctx.lp
             n == ctx.len
             b == ctx.prev_byte
             p == Pow2(lp)
             q == Pow2(lc)
             m == n % p
             d == b \div Pow2(8 - lc)
  <1>1. lc \in 0..8 /\ lp \in 0..4 /\ n \in Nat /\ b \in 0..255
    BY ContextIs
  <1>2. lit_row = m * q + d
    BY DEF lit_row
  <1> HIDE DEF lc, lp, n, b
  <1>3. p \in 1..16 /\ q \in 1..256
    BY <1>1, SmallPowers
  <1>4. d \in Nat /\ d < q
    <2>1. 8 - lc \in 0..8
      BY <1>1
    <2>2. \/ lc = 0 /\ Pow2(8 - lc) = 256 /\ q = 1
          \/ lc = 1 /\ Pow2(8 - lc) = 128 /\ q = 2
          \/ lc = 2 /\ Pow2(8 - lc) = 64 /\ q = 4
          \/ lc = 3 /\ Pow2(8 - lc) = 32 /\ q = 8
          \/ lc = 4 /\ Pow2(8 - lc) = 16 /\ q = 16
          \/ lc = 5 /\ Pow2(8 - lc) = 8 /\ q = 32
          \/ lc = 6 /\ Pow2(8 - lc) = 4 /\ q = 64
          \/ lc = 7 /\ Pow2(8 - lc) = 2 /\ q = 128
          \/ lc = 8 /\ Pow2(8 - lc) = 1 /\ q = 256
      BY <1>1, <2>1, SmallPowers
    <2> QED BY <1>1, <2>2
  <1>5. Pow2(lc + lp) = q * p
    <2>1. lc \in Nat /\ lp \in Nat
      BY <1>1
    <2> QED BY <2>1, PowerOfSum
  <1> HIDE DEF p, q, d
  <1>6. m \in 0..(p - 1)
    BY <1>1, <1>3
  <1> HIDE DEF m
  <1>7. m * q + d \in Nat /\ m * q + d < q * p
    <2>1. m * q \in Nat /\ q * (p - 1 - m) \in Nat
      BY <1>3, <1>6
    <2>2. q * (p - 1 - m) = q * p - q - m * q
      BY <1>3, <1>6
    <2>3. q * p \in Nat
      BY <1>3
    <2> QED BY <1>3, <1>4, <2>1, <2>2, <2>3
  <1>8. Pow2(lc + lp) \in Nat
    BY <1>3, <1>5
  <1> QED BY <1>2, <1>5, <1>7, <1>8 DEF lc, lp

\* The column is in one of the three trees of its row.
LEMMA ColumnIs ==
    ASSUME WalkInv, reading = "literal"
    PROVE  MatchColumn + tmp \in 0..767
  <1>1. tmp \in 1..255
    <2>1. NodeOf(8, left, tmp) /\ 8 \in 1..8 /\ 0 \in {0, 1}
      BY DEF WalkInv, Placed, AtNode
    <2> QED BY <2>1, NodeIs
  <1>2. MatchColumn \in {0, 256, 512}
    <2> DEFINE b == (ctx.match_byte \div Pow2(left - 1)) % 2
    <2>1. b \in {0, 1}
      <3>1. left \in 1..8
        BY DEF WalkInv, Placed, AtNode, NodeOf
      <3> DEFINE p == Pow2(left - 1)
                 y == ctx.match_byte
      <3>2. p \in Nat \ {0} /\ y \in Nat
        <4> DEFINE k == left - 1
        <4>1. k \in Nat
          BY <3>1
        <4>2. y \in Nat
          BY ContextIs
        <4> HIDE DEF k
        <4>3. Pow2(k) \in Nat \ {0}
          BY <4>1, PowerOfMore
        <4> QED BY <4>2, <4>3 DEF k
      <3> HIDE DEF p, y
      <3>3. y \div p \in Nat
        BY <3>2
      <3>4. (y \div p) % 2 \in {0, 1}
        BY <3>3
      <3> QED BY <3>4 DEF p, y
    <2> HIDE DEF b
    <2>2. MatchColumn = (1 + b) * 256 \/ MatchColumn = 0
      BY DEF MatchColumn, b
    <2> QED BY <2>1, <2>2
  <1> QED BY <1>1, <1>2

\* The cell of a bit of a literal is in literal_probs.
LEMMA LiteralFits ==
    ASSUME WalkInv, reading = "literal"
    PROVE  At(lit_row, MatchColumn + tmp, 768) \in 0..(Size("literal_probs") - 1)
  <1> DEFINE r == lit_row
             c == MatchColumn + tmp
             n == Pow2(ctx.lc + ctx.lp)
  <1>1. r \in Nat /\ n \in Nat /\ r < n /\ c \in 0..767
    BY RowIs, ColumnIs
  <1>2. Size("literal_probs") = n * 768
    BY DEF Size
  <1>3. At(r, c, 768) = r * 768 + c
    BY DEF At, StartRow
  <1> HIDE DEF r, c, n
  <1> QED BY <1>1, <1>2, <1>3 DEF r, c

\* Where the slots are in pos_decoders.
LEMMA SlotCellsAre ==
    ASSUME NEW s \in 4..13
    PROVE  SlotCells(s) = CASE s = 4  -> 1..1
                            [] s = 5  -> 2..2
                            [] s = 6  -> 3..5
                            [] s = 7  -> 6..8
                            [] s = 8  -> 9..15
                            [] s = 9  -> 16..22
                            [] s = 10 -> 23..37
                            [] s = 11 -> 38..52
                            [] s = 12 -> 53..83
                            [] s = 13 -> 84..114
  <1> USE SmallPowers DEF SlotCells, PosOffset, SlotBase, num_direct_bits
  <1>1. CASE s = 4
    BY <1>1
  <1>2. CASE s = 5
    BY <1>2
  <1>3. CASE s = 6
    BY <1>3
  <1>4. CASE s = 7
    BY <1>4
  <1>5. CASE s = 8
    BY <1>5
  <1>6. CASE s = 9
    BY <1>6
  <1>7. CASE s = 10
    BY <1>7
  <1>8. CASE s = 11
    BY <1>8
  <1>9. CASE s = 12
    BY <1>9
  <1>10. CASE s = 13
    BY <1>10
  <1> QED BY <1>1, <1>2, <1>3, <1>4, <1>5, <1>6, <1>7, <1>8, <1>9, <1>10

\* pos_decoders is long enough, and no two slots share a cell of it.
LEMMA SlotsApart ==
    ASSUME NEW s \in 4..13, NEW t \in 4..13, NEW at \in SlotCells(s)
    PROVE  at \in 0..114 /\ (at \in SlotCells(t) <=> t = s)
  BY SlotCellsAre

\* Before its last bit, a walk is at an inner node.
LEMMA NodeBelow ==
    ASSUME NEW n \in 1..8, NEW l, NEW t, NodeOf(n, l, t)
    PROVE  t \in Nat /\ 1 <= t /\ t < Pow2(n)
  <1> DEFINE k == n - l
             p == Pow2(k)
             q == Pow2(n)
  <1>1. k \in 0..7 /\ k < n /\ t \in p..(2 * p - 1)
    BY DEF NodeOf
  <1>2. p \in 1..128 /\ q \in 1..256
    BY <1>1, SmallPowers
  <1>3. 2 * p <= q
    <2>1. k \in Nat /\ n \in Nat
      BY <1>1
    <2> QED BY <1>1, <2>1, PowerGrows
  <1> HIDE DEF p, q, k
  <1>4. t \in Nat /\ 1 <= t /\ t < q
    BY <1>1, <1>2, <1>3
  <1> QED BY <1>4 DEF q

\* The cells of the arrays.
CellIn(array, at) == at \in 0..(Size(array) - 1)

\* What is read in is in an array, and in pos_decoders where its slot is.
ReadIn(array, at) ==
    /\ CellIn(array, at)
    /\ array = "pos_decoders" => slot \in 4..13 /\ slot' = slot /\ at \in SlotCells(slot)

ColumnFits == reading = "literal" => MatchColumn + tmp < 768

LEMMA ColumnsFit == WalkInv => ColumnFits
  BY ColumnIs DEF ColumnFits

\* The property, from where the bit that was read is.
LEMMA AfterRead ==
    ASSUME WalkInv, ColumnFits', NEW array, NEW at, NEW bit, ReadBit(array, at, bit), ctx' = ctx,
           ReadIn(array, at)
    PROVE  CellsOwn'
  <1>1. last' = Read(array, at, bit)
    BY DEF ReadBit
  <1>2. last'.array = array /\ last'.at = at
    BY <1>1 DEF Read
  <1>3. Size(last.array)' = Size(array)
    BY <1>2 DEF Size
  <1>4. last'.at \in 0..(Size(last.array)' - 1)
    BY <1>2, <1>3 DEF ReadIn, CellIn
  <1>5. (reading = "literal" => MatchColumn + tmp < 768)'
    BY DEF ColumnFits
  <1>6. ASSUME last'.array = "pos_decoders", NEW s \in 4..13
        PROVE  last'.at \in SlotCells(s)' <=> s = slot'
    <2>1. slot \in 4..13 /\ slot' = slot /\ at \in SlotCells(slot)
      BY <1>2, <1>6 DEF ReadIn
    <2>2. SlotCells(s)' = SlotCells(s)
      BY DEF SlotCells
    <2> QED BY <1>2, <2>1, <2>2, SlotsApart
  <1> QED BY <1>4, <1>5, <1>6 DEF CellsOwn

\* The cells of the bits outside trees.
LEMMA FlagsCells ==
    ASSUME WalkInv, ColumnFits',
           \/ IsMatchBit \/ IsRepBit \/ IsRepG0Bit \/ IsRep0LongBit \/ IsRepG1Bit \/ IsRepG2Bit
    PROVE  CellsOwn'
  <1>1. ctx.state \in 0..11 /\ PosCell \in 0..191
    BY ContextIs DEF PosCell
  <1>2. PICK array \in {"is_match", "is_rep", "is_rep_g0", "is_rep_0long", "is_rep_g1", "is_rep_g2"} :
          \E at, bit : /\ ReadBit(array, at, bit) /\ ctx' = ctx
                       /\ array \in {"is_match", "is_rep_0long"} => at = PosCell
                       /\ array \notin {"is_match", "is_rep_0long"} => at = ctx.state
    BY DEF IsMatchBit, IsRepBit, IsRepG0Bit, IsRep0LongBit, IsRepG1Bit, IsRepG2Bit, FlagBit
  <1>3. PICK at, bit : /\ ReadBit(array, at, bit) /\ ctx' = ctx
                       /\ array \in {"is_match", "is_rep_0long"} => at = PosCell
                       /\ array \notin {"is_match", "is_rep_0long"} => at = ctx.state
    BY <1>2
  <1>4. CellIn(array, at)
    <2>1. CASE array \in {"is_match", "is_rep_0long"}
      BY <1>1, <1>3, <2>1 DEF CellIn, Size
    <2>2. CASE array \in {"is_rep", "is_rep_g0", "is_rep_g1", "is_rep_g2"}
      BY <1>1, <1>3, <2>2 DEF CellIn, Size
    <2> QED BY <1>2, <2>1, <2>2
  <1>5. ReadIn(array, at)
    BY <1>2, <1>4 DEF ReadIn
  <1> QED BY <1>3, <1>5, AfterRead

\* The cells of literals and lengths.
LEMMA TreesCells ==
    ASSUME WalkInv, ColumnFits',
           LiteralBit \/ LenChoice \/ LenChoice2 \/ LenLow \/ LenMid \/ LenHigh
    PROVE  CellsOwn'
  <1>0. ctx.pos_state \in 0..15
    BY ContextIs
  <1>1. CASE LiteralBit
    <2> DEFINE at == At(lit_row, MatchColumn + tmp, 768)
    <2>1. PICK bit \in {0, 1} : ReadBit("literal_probs", at, bit)
      BY <1>1 DEF LiteralBit
    <2>2. reading = "literal" /\ ctx' = ctx
      BY <1>1 DEF LiteralBit
    <2>3. at \in 0..(Size("literal_probs") - 1)
      BY <2>2, LiteralFits
    <2> HIDE DEF at
    <2>4. ReadIn("literal_probs", at)
      BY <2>3 DEF ReadIn, CellIn
    <2> QED BY <2>1, <2>2, <2>4, AfterRead
  <1>2. CASE LenChoice
    <2>1. PICK bit \in {0, 1} : ReadBit(Choice, 0, bit)
      BY <1>2 DEF LenChoice
    <2>2. ReadIn(Choice, 0) /\ ctx' = ctx
      BY <1>2 DEF LenChoice, ReadIn, CellIn, Choice, Of, Size
    <2> QED BY <2>1, <2>2, AfterRead
  <1>3. CASE LenChoice2
    <2>1. PICK bit \in {0, 1} : ReadBit(Choice2, 0, bit)
      BY <1>3 DEF LenChoice2
    <2>2. ReadIn(Choice2, 0) /\ ctx' = ctx
      BY <1>3 DEF LenChoice2, ReadIn, CellIn, Choice2, Of, Size
    <2> QED BY <2>1, <2>2, AfterRead
  <1>4. CASE LenLow \/ LenMid
    <2>1. PICK array \in {Low, Mid} : \E bit \in {0, 1} :
             ReadBit(array, 8 * ctx.pos_state + tmp, bit) /\ ctx' = ctx
      BY <1>4 DEF LenLow, LenMid, TreeBit
    <2>2. PICK bit \in {0, 1} : ReadBit(array, 8 * ctx.pos_state + tmp, bit) /\ ctx' = ctx
      BY <2>1
    <2>3. tmp \in 1..7
      <3>1. NodeOf(3, left, tmp) /\ 3 \in 1..8
        BY <1>4 DEF LenLow, LenMid, WalkInv, Placed, AtNode
      <3>2. tmp \in Nat /\ 1 <= tmp /\ tmp < Pow2(3)
        BY <3>1, NodeBelow
      <3> QED BY <3>2, SmallPowers
    <2>4. 8 * ctx.pos_state + tmp \in 0..127
      BY <1>0, <2>3
    <2>5. Size(array) = 128 /\ array # "pos_decoders"
      BY <2>1 DEF Low, Mid, Of, Size
    <2>6. ReadIn(array, 8 * ctx.pos_state + tmp)
      BY <2>4, <2>5 DEF ReadIn, CellIn
    <2> QED BY <2>2, <2>6, AfterRead
  <1>5. CASE LenHigh
    <2>1. PICK bit \in {0, 1} : ReadBit(High, 0 + tmp, bit) /\ ctx' = ctx
      BY <1>5 DEF LenHigh, TreeBit
    <2>2. tmp \in 1..255
      <3>1. NodeOf(8, left, tmp) /\ 8 \in 1..8
        BY <1>5 DEF LenHigh, WalkInv, Placed, AtNode
      <3>2. tmp \in Nat /\ 1 <= tmp /\ tmp < Pow2(8)
        BY <3>1, NodeBelow
      <3> QED BY <3>2, SmallPowers
    <2>3. Size(High) = 256 /\ High # "pos_decoders"
      BY DEF High, Of, Size
    <2>4. ReadIn(High, 0 + tmp)
      BY <2>2, <2>3 DEF ReadIn, CellIn
    <2> QED BY <2>1, <2>4, AfterRead
  <1> QED BY <1>1, <1>2, <1>3, <1>4, <1>5

\* The cells of distances.
LEMMA DistanceCells ==
    ASSUME WalkInv, ColumnFits', Slot \/ Reverse \/ Align PROVE CellsOwn'
  <1>1. CASE Slot
    <2>1. PICK bit \in {0, 1} : ReadBit("pos_slot_decoder", 64 * len_state + tmp, bit) /\ ctx' = ctx
      BY <1>1 DEF Slot, TreeBit
    <2>2. tmp \in 1..63
      <3>1. NodeOf(6, left, tmp) /\ 6 \in 1..8
        BY <1>1 DEF Slot, WalkInv, Placed, AtNode
      <3>2. tmp \in Nat /\ 1 <= tmp /\ tmp < Pow2(6)
        BY <3>1, NodeBelow
      <3> QED BY <3>2, SmallPowers
    <2>3. len_state \in 0..3
      BY DEF len_state, WalkInv, BitsTypeOK
    <2>4. 64 * len_state + tmp \in 0..255
      BY <2>2, <2>3
    <2>5. ReadIn("pos_slot_decoder", 64 * len_state + tmp)
      BY <2>4 DEF ReadIn, CellIn, Size
    <2> QED BY <2>1, <2>5, AfterRead
  <1>2. CASE Align
    <2>1. PICK bit \in {0, 1} : ReadBit("align_decoder", 0 + tmp, bit) /\ ctx' = ctx
      BY <1>2 DEF Align, TreeBit
    <2>2. tmp \in 1..15
      <3>1. NodeOf(4, left, tmp) /\ 4 \in 1..8
        BY <1>2 DEF Align, WalkInv, Placed, AtNode
      <3>2. tmp \in Nat /\ 1 <= tmp /\ tmp < Pow2(4)
        BY <3>1, NodeBelow
      <3> QED BY <3>2, SmallPowers
    <2>3. ReadIn("align_decoder", 0 + tmp)
      BY <2>2 DEF ReadIn, CellIn, Size
    <2> QED BY <2>1, <2>3, AfterRead
  <1>3. CASE Reverse
    <2> DEFINE at == PosOffset(slot) + tmp
               n == num_direct_bits(slot)
    <2>1. PICK bit \in {0, 1} : /\ ReadBit("pos_decoders", at, bit) /\ ctx' = ctx
                                /\ Inside(bit) \/ LastTree
      BY <1>3 DEF Reverse, TreeBit
    <2>2. slot' = slot
      BY <2>1 DEF Inside, LastTree
    <2>3. slot \in 4..13 /\ NodeOf(n, left, tmp) /\ n \in 1..8
      <3>1. slot \in 4..13 /\ AtNode(num_direct_bits(slot))
        BY <1>3 DEF Reverse, WalkInv, Placed
      <3>2. n \in 1..8
        BY <3>1, SlotLeaves
      <3> QED BY <3>1, <3>2 DEF AtNode
    <2>4. tmp \in Nat /\ 1 <= tmp /\ tmp < Pow2(n)
      BY <2>3, NodeBelow
    <2>5. at \in SlotCells(slot)
      <3>1. Pow2(n) \in Nat
        BY <2>3, PowerOfMore
      <3>2. PosOffset(slot) \in Int
        <4>1. n \in Nat
          BY <2>3
        <4>2. Pow2(n) \in Nat
          BY <4>1, PowerOfMore
        <4>3. SlotBase(slot) \in Nat
          BY <2>3, <4>2 DEF SlotBase
        <4> QED BY <2>3, <4>3 DEF PosOffset
      <3> QED BY <2>4, <3>1, <3>2 DEF SlotCells
    <2>6. at \in 0..114
      BY <2>3, <2>5, SlotsApart
    <2> HIDE DEF at
    <2>7. ReadIn("pos_decoders", at)
      BY <2>2, <2>3, <2>5, <2>6 DEF ReadIn, CellIn, Size
    <2> QED BY <2>1, <2>7, AfterRead
  <1> QED BY <1>1, <1>2, <1>3

\* Every bit keeps CellsOwn, given the column of the literal.
LEMMA StepCells ==
    ASSUME WalkInv, ColumnFits', CellsOwn, [BitNext]_bitVars PROVE CellsOwn'
  <1>1. CASE UNCHANGED <<last, ctx, slot>> /\ (reading' = "literal" => reading = "literal" /\ tmp' = tmp /\ left' = left)
    <2>1. Size(last.array)' = Size(last.array) /\ (reading' = "literal" => MatchColumn' = MatchColumn)
      BY <1>1 DEF Size, MatchColumn
    <2>2. \A s : SlotCells(s)' = SlotCells(s)
      BY DEF SlotCells
    <2> QED BY <1>1, <2>1, <2>2 DEF CellsOwn, Size, MatchColumn
  <1>2. CASE UNCHANGED bitVars
    BY <1>1, <1>2 DEF bitVars
  <1>3. CASE Direct
    <2>1. UNCHANGED <<last, ctx, slot>> /\ reading' # "literal"
      BY <1>3 DEF Direct, Enters
    <2> QED BY <1>1, <2>1
  <1> QED BY <1>2, <1>3, FlagsCells, TreesCells, DistanceCells DEF BitNext

LEMMA InitCells == BitInit => CellsOwn
  BY DEF BitInit, CellsOwn, Read, Size

\* CellsOwn is an invariant.
LEMMA CellsHold == BitSpec => []CellsOwn
  <1>1. WalkInv /\ ColumnFits' /\ CellsOwn /\ [BitNext]_bitVars => CellsOwn'
    BY StepCells
  <1> QED BY InitCells, WalkHolds, ColumnsFit, <1>1, PTL DEF BitSpec

-----------------------------------------------------------------------------
(* The bytes of a symbol *)

\* Fewer bytes are taken than w has, or as many and range is as large.
NoWorse(w) == bytes < w[1] \/ (bytes = w[1] /\ range.hi >= w[2])

\* The worst that a bit of the least probability leaves of the worst before it,
\* and a direct bit.
CodedTo(w, z) ==
    LET x == (31 * (w[2] \div 8)) \div 256
    IN  /\ w[1] \in Nat /\ w[2] \in Nat /\ z[1] \in Nat /\ z[2] \in Nat
        /\ \/ x < 65536 /\ z[1] = w[1] + 1 /\ z[2] <= 256 * x
           \/ x >= 65536 /\ z[1] = w[1] /\ z[2] <= x /\ z[2] <= 253952

HalvedTo(w, z) ==
    LET x == w[2] \div 2
    IN  /\ w[1] \in Nat /\ w[2] \in Nat /\ z[1] \in Nat /\ z[2] \in Nat
        /\ \/ x < 65536 /\ z[1] = w[1] + 1 /\ z[2] <= 256 * x
           \/ x >= 65536 /\ z[1] = w[1] /\ z[2] <= x /\ z[2] <= 8388608

\* What a bit takes.
MayTake(y) ==
    \/ y < 65536 /\ bytes' = bytes + 1 /\ range'.hi >= 256 * y
    \/ y >= 65536 /\ bytes' = bytes /\ range'.hi = y

CodedTakes  == \E y \in Nat : 31 * (range.hi \div 8) < 256 * (y + 1) /\ MayTake(y)
HalvedTakes == \E y \in Nat : y = range.hi \div 2 /\ MayTake(y)

\* A bit with a context leaves no more bytes and no less range than the least
\* probable bit of the worst case.
LEMMA CodedWorse ==
    ASSUME Ranged, Ranged', CodedTakes, NEW w, NEW z, CodedTo(w, z), NoWorse(w)
    PROVE  NoWorse(z)'
  <1> DEFINE r == range.hi
             n == range'.hi
             b == w[1]
             h == w[2]
             c == z[1]
             k == z[2]
             x == (31 * (h \div 8)) \div 256
  <1>1. /\ r \in Nat /\ r >= 65536 /\ bytes \in Nat
        /\ n \in Nat /\ n >= 65536 /\ bytes' \in Nat
    BY MaxHighIs DEF Ranged
  <1>y. PICK y \in Nat : 31 * (r \div 8) < 256 * (y + 1) /\ MayTake(y)
    BY DEF CodedTakes
  <1>2. /\ 31 * (r \div 8) < 256 * (y + 1)
        /\ \/ y < 65536 /\ bytes' = bytes + 1 /\ n >= 256 * y
           \/ y >= 65536 /\ bytes' = bytes /\ n = y
    BY <1>y DEF MayTake
  <1>3. bytes < b \/ (bytes = b /\ r >= h)
    BY DEF NoWorse
  <1>4. /\ b \in Nat /\ h \in Nat /\ c \in Nat /\ k \in Nat
        /\ \/ x < 65536 /\ c = b + 1 /\ k <= 256 * x
           \/ x >= 65536 /\ c = b /\ k <= x /\ k <= 253952
    BY DEF CodedTo
  <1> HIDE DEF r, n, b, h, c, k
  <1>5. y >= 992
    BY <1>1, <1>2
  <1>6. r >= h => x <= y
    BY <1>1, <1>2, <1>4
  <1>7. x \in Nat
    BY <1>4
  <1> HIDE DEF x
  <1>8. bytes' < c \/ (bytes' = c /\ n >= k)
    BY <1>1, <1>2, <1>3, <1>4, <1>5, <1>6, <1>7
  <1> QED BY <1>8 DEF NoWorse, n, c, k

\* A direct bit keeps the order too.
LEMMA HalvedWorse ==
    ASSUME Ranged, Ranged', HalvedTakes, NEW w, NEW z, HalvedTo(w, z), NoWorse(w)
    PROVE  NoWorse(z)'
  <1> DEFINE r == range.hi
             n == range'.hi
             b == w[1]
             h == w[2]
             c == z[1]
             k == z[2]
             x == h \div 2
  <1>1. /\ r \in Nat /\ r >= 65536 /\ bytes \in Nat
        /\ n \in Nat /\ n >= 65536 /\ bytes' \in Nat
    BY MaxHighIs DEF Ranged
  <1>y. PICK y \in Nat : y = r \div 2 /\ MayTake(y)
    BY DEF HalvedTakes
  <1>2. /\ y = r \div 2
        /\ \/ y < 65536 /\ bytes' = bytes + 1 /\ n >= 256 * y
           \/ y >= 65536 /\ bytes' = bytes /\ n = y
    BY <1>y DEF MayTake
  <1>3. bytes < b \/ (bytes = b /\ r >= h)
    BY DEF NoWorse
  <1>4. /\ b \in Nat /\ h \in Nat /\ c \in Nat /\ k \in Nat
        /\ \/ x < 65536 /\ c = b + 1 /\ k <= 256 * x
           \/ x >= 65536 /\ c = b /\ k <= x /\ k <= 8388608
    BY DEF HalvedTo
  <1> HIDE DEF r, n, b, h, c, k
  <1>5. y >= 32768
    BY <1>1, <1>2
  <1>6. r >= h => x <= y
    BY <1>1, <1>2, <1>4
  <1>7. x \in Nat
    BY <1>4
  <1> HIDE DEF x
  <1>8. bytes' < c \/ (bytes' = c /\ n >= k)
    BY <1>1, <1>2, <1>3, <1>4, <1>5, <1>6, <1>7
  <1> QED BY <1>8 DEF NoWorse, n, c, k

\* The worst before the last n bits with a context, as long as no direct bit
\* has come; before the last n direct bits; and before the last n of the tree
\* that they lead to.
CodedWorst(n) ==
    CASE n = 23 -> <<0, 65536>>
      [] n = 22 -> <<1, 253952>>
      [] n = 21 -> <<2, 984064>>
      [] n = 20 -> <<3, 3813120>>
      [] n = 19 -> <<4, 14775808>>
      [] n = 18 -> <<4, 223657>>
      [] n = 17 -> <<5, 866560>>
      [] n = 16 -> <<6, 3357696>>
      [] n = 15 -> <<7, 13010944>>
      [] n = 14 -> <<7, 196943>>
      [] n = 13 -> <<8, 762880>>
      [] n = 12 -> <<9, 2956032>>
      [] n = 11 -> <<10, 11454464>>
      [] n = 10 -> <<10, 173383>>
      [] n = 9 -> <<11, 671744>>
      [] n = 8 -> <<12, 2603008>>
      [] n = 7 -> <<13, 10086656>>
      [] n = 6 -> <<13, 152678>>
      [] n = 5 -> <<14, 591360>>
      [] n = 4 -> <<15, 2291456>>
      [] n = 3 -> <<16, 8879360>>
      [] n = 2 -> <<16, 134404>>
      [] n = 1 -> <<17, 520704>>
      [] n = 0 -> <<18, 2017536>>

DirectWorst(n) ==
    CASE n = 26 -> <<14, 591360>>
      [] n = 25 -> <<14, 295680>>
      [] n = 24 -> <<14, 147840>>
      [] n = 23 -> <<14, 73920>>
      [] n = 22 -> <<15, 9461760>>
      [] n = 21 -> <<15, 4730880>>
      [] n = 20 -> <<15, 2365440>>
      [] n = 19 -> <<15, 1182720>>
      [] n = 18 -> <<15, 591360>>
      [] n = 17 -> <<15, 295680>>
      [] n = 16 -> <<15, 147840>>
      [] n = 15 -> <<15, 73920>>
      [] n = 14 -> <<16, 9461760>>
      [] n = 13 -> <<16, 4730880>>
      [] n = 12 -> <<16, 2365440>>
      [] n = 11 -> <<16, 1182720>>
      [] n = 10 -> <<16, 591360>>
      [] n = 9 -> <<16, 295680>>
      [] n = 8 -> <<16, 147840>>
      [] n = 7 -> <<16, 73920>>
      [] n = 6 -> <<17, 9461760>>
      [] n = 5 -> <<17, 4730880>>
      [] n = 4 -> <<17, 2365440>>
      [] n = 3 -> <<17, 1182720>>
      [] n = 2 -> <<17, 591360>>
      [] n = 1 -> <<17, 295680>>
      [] n = 0 -> <<17, 147840>>

AlignWorst(n) ==
    CASE n = 4 -> <<17, 147840>>
      [] n = 3 -> <<18, 572672>>
      [] n = 2 -> <<19, 2219008>>
      [] n = 1 -> <<20, 8598528>>
      [] n = 0 -> <<20, 130153>>

\* From a row of CodedWorst a bit leads to nothing worse than the next row; and so on
\* for the tables below.
LEMMA CodedSteps ==
    ASSUME NEW n \in 1..23 PROVE CodedTo(CodedWorst(n), CodedWorst(n - 1))
  <1>23. CASE n = 23
    BY <1>23 DEF CodedWorst, CodedTo
  <1>22. CASE n = 22
    BY <1>22 DEF CodedWorst, CodedTo
  <1>21. CASE n = 21
    BY <1>21 DEF CodedWorst, CodedTo
  <1>20. CASE n = 20
    BY <1>20 DEF CodedWorst, CodedTo
  <1>19. CASE n = 19
    BY <1>19 DEF CodedWorst, CodedTo
  <1>18. CASE n = 18
    BY <1>18 DEF CodedWorst, CodedTo
  <1>17. CASE n = 17
    BY <1>17 DEF CodedWorst, CodedTo
  <1>16. CASE n = 16
    BY <1>16 DEF CodedWorst, CodedTo
  <1>15. CASE n = 15
    BY <1>15 DEF CodedWorst, CodedTo
  <1>14. CASE n = 14
    BY <1>14 DEF CodedWorst, CodedTo
  <1>13. CASE n = 13
    BY <1>13 DEF CodedWorst, CodedTo
  <1>12. CASE n = 12
    BY <1>12 DEF CodedWorst, CodedTo
  <1>11. CASE n = 11
    BY <1>11 DEF CodedWorst, CodedTo
  <1>10. CASE n = 10
    BY <1>10 DEF CodedWorst, CodedTo
  <1>9. CASE n = 9
    BY <1>9 DEF CodedWorst, CodedTo
  <1>8. CASE n = 8
    BY <1>8 DEF CodedWorst, CodedTo
  <1>7. CASE n = 7
    BY <1>7 DEF CodedWorst, CodedTo
  <1>6. CASE n = 6
    BY <1>6 DEF CodedWorst, CodedTo
  <1>5. CASE n = 5
    BY <1>5 DEF CodedWorst, CodedTo
  <1>4. CASE n = 4
    BY <1>4 DEF CodedWorst, CodedTo
  <1>3. CASE n = 3
    BY <1>3 DEF CodedWorst, CodedTo
  <1>2. CASE n = 2
    BY <1>2 DEF CodedWorst, CodedTo
  <1>1. CASE n = 1
    BY <1>1 DEF CodedWorst, CodedTo
  <1> QED BY <1>1, <1>2, <1>3, <1>4, <1>5, <1>6, <1>7, <1>8, <1>9, <1>10, <1>11, <1>12,
             <1>13, <1>14, <1>15, <1>16, <1>17, <1>18, <1>19, <1>20, <1>21, <1>22, <1>23

LEMMA DirectSteps ==
    ASSUME NEW n \in 1..26 PROVE HalvedTo(DirectWorst(n), DirectWorst(n - 1))
  <1>26. CASE n = 26
    BY <1>26 DEF DirectWorst, HalvedTo
  <1>25. CASE n = 25
    BY <1>25 DEF DirectWorst, HalvedTo
  <1>24. CASE n = 24
    BY <1>24 DEF DirectWorst, HalvedTo
  <1>23. CASE n = 23
    BY <1>23 DEF DirectWorst, HalvedTo
  <1>22. CASE n = 22
    BY <1>22 DEF DirectWorst, HalvedTo
  <1>21. CASE n = 21
    BY <1>21 DEF DirectWorst, HalvedTo
  <1>20. CASE n = 20
    BY <1>20 DEF DirectWorst, HalvedTo
  <1>19. CASE n = 19
    BY <1>19 DEF DirectWorst, HalvedTo
  <1>18. CASE n = 18
    BY <1>18 DEF DirectWorst, HalvedTo
  <1>17. CASE n = 17
    BY <1>17 DEF DirectWorst, HalvedTo
  <1>16. CASE n = 16
    BY <1>16 DEF DirectWorst, HalvedTo
  <1>15. CASE n = 15
    BY <1>15 DEF DirectWorst, HalvedTo
  <1>14. CASE n = 14
    BY <1>14 DEF DirectWorst, HalvedTo
  <1>13. CASE n = 13
    BY <1>13 DEF DirectWorst, HalvedTo
  <1>12. CASE n = 12
    BY <1>12 DEF DirectWorst, HalvedTo
  <1>11. CASE n = 11
    BY <1>11 DEF DirectWorst, HalvedTo
  <1>10. CASE n = 10
    BY <1>10 DEF DirectWorst, HalvedTo
  <1>9. CASE n = 9
    BY <1>9 DEF DirectWorst, HalvedTo
  <1>8. CASE n = 8
    BY <1>8 DEF DirectWorst, HalvedTo
  <1>7. CASE n = 7
    BY <1>7 DEF DirectWorst, HalvedTo
  <1>6. CASE n = 6
    BY <1>6 DEF DirectWorst, HalvedTo
  <1>5. CASE n = 5
    BY <1>5 DEF DirectWorst, HalvedTo
  <1>4. CASE n = 4
    BY <1>4 DEF DirectWorst, HalvedTo
  <1>3. CASE n = 3
    BY <1>3 DEF DirectWorst, HalvedTo
  <1>2. CASE n = 2
    BY <1>2 DEF DirectWorst, HalvedTo
  <1>1. CASE n = 1
    BY <1>1 DEF DirectWorst, HalvedTo
  <1> QED BY <1>1, <1>2, <1>3, <1>4, <1>5, <1>6, <1>7, <1>8, <1>9, <1>10, <1>11, <1>12,
             <1>13, <1>14, <1>15, <1>16, <1>17, <1>18, <1>19, <1>20, <1>21, <1>22, <1>23,
             <1>24, <1>25, <1>26

LEMMA AlignSteps ==
    ASSUME NEW n \in 1..4 PROVE CodedTo(AlignWorst(n), AlignWorst(n - 1))
  <1>4. CASE n = 4
    BY <1>4 DEF AlignWorst, CodedTo
  <1>3. CASE n = 3
    BY <1>3 DEF AlignWorst, CodedTo
  <1>2. CASE n = 2
    BY <1>2 DEF AlignWorst, CodedTo
  <1>1. CASE n = 1
    BY <1>1 DEF AlignWorst, CodedTo
  <1> QED BY <1>1, <1>2, <1>3, <1>4

\* What the first table ends with, and where the direct bits may begin.
LEMMA CodedFits ==
    ASSUME NEW n \in 0..23
    PROVE  /\ CodedWorst(n)[1] \in Nat /\ CodedWorst(n)[1] <= 18 /\ CodedWorst(n)[2] \in Nat
           /\ n >= 5 => \/ CodedWorst(n)[1] < 14
                        \/ CodedWorst(n)[1] = 14 /\ CodedWorst(n)[2] >= 591360
  <1>23. CASE n = 23
    BY <1>23 DEF CodedWorst
  <1>22. CASE n = 22
    BY <1>22 DEF CodedWorst
  <1>21. CASE n = 21
    BY <1>21 DEF CodedWorst
  <1>20. CASE n = 20
    BY <1>20 DEF CodedWorst
  <1>19. CASE n = 19
    BY <1>19 DEF CodedWorst
  <1>18. CASE n = 18
    BY <1>18 DEF CodedWorst
  <1>17. CASE n = 17
    BY <1>17 DEF CodedWorst
  <1>16. CASE n = 16
    BY <1>16 DEF CodedWorst
  <1>15. CASE n = 15
    BY <1>15 DEF CodedWorst
  <1>14. CASE n = 14
    BY <1>14 DEF CodedWorst
  <1>13. CASE n = 13
    BY <1>13 DEF CodedWorst
  <1>12. CASE n = 12
    BY <1>12 DEF CodedWorst
  <1>11. CASE n = 11
    BY <1>11 DEF CodedWorst
  <1>10. CASE n = 10
    BY <1>10 DEF CodedWorst
  <1>9. CASE n = 9
    BY <1>9 DEF CodedWorst
  <1>8. CASE n = 8
    BY <1>8 DEF CodedWorst
  <1>7. CASE n = 7
    BY <1>7 DEF CodedWorst
  <1>6. CASE n = 6
    BY <1>6 DEF CodedWorst
  <1>5. CASE n = 5
    BY <1>5 DEF CodedWorst
  <1>4. CASE n = 4
    BY <1>4 DEF CodedWorst
  <1>3. CASE n = 3
    BY <1>3 DEF CodedWorst
  <1>2. CASE n = 2
    BY <1>2 DEF CodedWorst
  <1>1. CASE n = 1
    BY <1>1 DEF CodedWorst
  <1>0. CASE n = 0
    BY <1>0 DEF CodedWorst
  <1> QED BY <1>0, <1>1, <1>2, <1>3, <1>4, <1>5, <1>6, <1>7, <1>8, <1>9, <1>10, <1>11,
             <1>12, <1>13, <1>14, <1>15, <1>16, <1>17, <1>18, <1>19, <1>20, <1>21, <1>22,
             <1>23

\* The same of the second, no row of which is better than that.
LEMMA DirectFits ==
    ASSUME NEW n \in 0..26
    PROVE  /\ DirectWorst(n)[1] \in Nat /\ DirectWorst(n)[1] <= 17 /\ DirectWorst(n)[2] \in Nat
           /\ \/ DirectWorst(n)[1] > 14
              \/ DirectWorst(n)[1] = 14 /\ DirectWorst(n)[2] <= 591360
  <1>26. CASE n = 26
    BY <1>26 DEF DirectWorst
  <1>25. CASE n = 25
    BY <1>25 DEF DirectWorst
  <1>24. CASE n = 24
    BY <1>24 DEF DirectWorst
  <1>23. CASE n = 23
    BY <1>23 DEF DirectWorst
  <1>22. CASE n = 22
    BY <1>22 DEF DirectWorst
  <1>21. CASE n = 21
    BY <1>21 DEF DirectWorst
  <1>20. CASE n = 20
    BY <1>20 DEF DirectWorst
  <1>19. CASE n = 19
    BY <1>19 DEF DirectWorst
  <1>18. CASE n = 18
    BY <1>18 DEF DirectWorst
  <1>17. CASE n = 17
    BY <1>17 DEF DirectWorst
  <1>16. CASE n = 16
    BY <1>16 DEF DirectWorst
  <1>15. CASE n = 15
    BY <1>15 DEF DirectWorst
  <1>14. CASE n = 14
    BY <1>14 DEF DirectWorst
  <1>13. CASE n = 13
    BY <1>13 DEF DirectWorst
  <1>12. CASE n = 12
    BY <1>12 DEF DirectWorst
  <1>11. CASE n = 11
    BY <1>11 DEF DirectWorst
  <1>10. CASE n = 10
    BY <1>10 DEF DirectWorst
  <1>9. CASE n = 9
    BY <1>9 DEF DirectWorst
  <1>8. CASE n = 8
    BY <1>8 DEF DirectWorst
  <1>7. CASE n = 7
    BY <1>7 DEF DirectWorst
  <1>6. CASE n = 6
    BY <1>6 DEF DirectWorst
  <1>5. CASE n = 5
    BY <1>5 DEF DirectWorst
  <1>4. CASE n = 4
    BY <1>4 DEF DirectWorst
  <1>3. CASE n = 3
    BY <1>3 DEF DirectWorst
  <1>2. CASE n = 2
    BY <1>2 DEF DirectWorst
  <1>1. CASE n = 1
    BY <1>1 DEF DirectWorst
  <1>0. CASE n = 0
    BY <1>0 DEF DirectWorst
  <1> QED BY <1>0, <1>1, <1>2, <1>3, <1>4, <1>5, <1>6, <1>7, <1>8, <1>9, <1>10, <1>11,
             <1>12, <1>13, <1>14, <1>15, <1>16, <1>17, <1>18, <1>19, <1>20, <1>21, <1>22,
             <1>23, <1>24, <1>25, <1>26

\* The last one ends with 20 bytes.
LEMMA AlignFits ==
    ASSUME NEW n \in 0..4
    PROVE  AlignWorst(n)[1] \in Nat /\ AlignWorst(n)[1] <= 20
  <1>4. CASE n = 4
    BY <1>4 DEF AlignWorst
  <1>3. CASE n = 3
    BY <1>3 DEF AlignWorst
  <1>2. CASE n = 2
    BY <1>2 DEF AlignWorst
  <1>1. CASE n = 1
    BY <1>1 DEF AlignWorst
  <1>0. CASE n = 0
    BY <1>0 DEF AlignWorst
  <1> QED BY <1>0, <1>1, <1>2, <1>3, <1>4

LEMMA DirectToAlign == DirectWorst(0) = AlignWorst(4)
  BY DEF DirectWorst, AlignWorst

WorstInv ==
    /\ Len(odds) <= 23
    /\ reading \notin {"direct", "align", "done"} => NoWorse(CodedWorst(Len(odds)))
    /\ reading = "direct" => NoWorse(DirectWorst(left))
    /\ reading = "align" => NoWorse(AlignWorst(left))
    /\ bytes <= 20

\* A symbol whose distance has direct bits reaches them early enough.
LEMMA DirectEntered ==
    ASSUME NEW b \in Nat, NEW r \in Nat, NEW n \in 5..23, NEW m \in 1..26,
           b < CodedWorst(n)[1] \/ (b = CodedWorst(n)[1] /\ r >= CodedWorst(n)[2])
    PROVE  b < DirectWorst(m)[1] \/ (b = DirectWorst(m)[1] /\ r >= DirectWorst(m)[2])
  <1> DEFINE w == CodedWorst(n)
             z == DirectWorst(m)
  <1>1. /\ w[1] \in Nat /\ w[2] \in Nat
        /\ w[1] < 14 \/ (w[1] = 14 /\ w[2] >= 591360)
    <2>1. n \in 0..23 /\ n >= 5
      OBVIOUS
    <2> QED BY <2>1, CodedFits
  <1>2. /\ z[1] \in Nat /\ z[2] \in Nat
        /\ z[1] > 14 \/ (z[1] = 14 /\ z[2] <= 591360)
    <2>1. m \in 0..26
      OBVIOUS
    <2> QED BY <2>1, DirectFits
  <1>3. b < w[1] \/ (b = w[1] /\ r >= w[2])
    OBVIOUS
  <1> HIDE DEF w, z
  <1>4. b < z[1] \/ (b = z[1] /\ r >= z[2])
    BY <1>1, <1>2, <1>3
  <1> QED BY <1>4 DEF z

\* A symbol that is not complete has a probability for the next bit.
LEMMA BitsLeft ==
    ASSUME WalkInv, reading # "done" PROVE Len(odds) \in Nat /\ Len(odds) >= 1
  <1>1. /\ Len(odds) \in Nat /\ Len(odds) >= Owed
        /\ coder \in {"len", "rep_len"}
        /\ reading \in {"is_match", "literal", "is_rep", "is_rep_g0", "is_rep_0long",
                        "is_rep_g1", "is_rep_g2", "choice", "choice2", "low", "mid",
                        "high", "slot", "reverse", "direct", "align"}
    BY DEF WalkInv, BitsTypeOK
  <1>2. reading \in {"literal", "low", "mid", "high", "slot", "reverse", "align"} => left \in Nat /\ left >= 1
    <2>1. left \in Nat
      BY DEF WalkInv, BitsTypeOK
    <2>2. reading = "reverse" => num_direct_bits(slot) \in 1..5
      BY SlotLeaves DEF WalkInv, Placed
    <2> QED BY <2>1, <2>2 DEF WalkInv, Placed, AtNode, NodeOf
  <1>3. Owed \in Nat /\ Owed >= 1
    <2>1. CASE reading \in {"literal", "reverse"}
      BY <1>2, <2>1 DEF Owed
    <2>2. CASE reading \in {"low", "mid", "high"}
      BY <1>2, <2>2 DEF Owed
    <2>3. CASE reading = "slot"
      BY <1>2, <2>3 DEF Owed
    <2>4. CASE reading = "align"
      BY <1>2, <2>4 DEF Owed
    <2>5. CASE reading = "choice"
      BY <1>1, <2>5 DEF Owed
    <2>6. CASE reading = "choice2"
      BY <1>1, <2>6 DEF Owed
    <2>7. CASE reading = "direct"
      BY <1>1, <2>7 DEF Owed
    <2>8. CASE reading = "is_match"
      BY <1>1, <2>8 DEF Owed
    <2>9. CASE reading = "is_rep"
      BY <1>1, <2>9 DEF Owed
    <2>10. CASE reading = "is_rep_g0"
      BY <1>1, <2>10 DEF Owed
    <2>11. CASE reading = "is_rep_0long"
      BY <1>1, <2>11 DEF Owed
    <2>12. CASE reading = "is_rep_g1"
      BY <1>1, <2>12 DEF Owed
    <2>13. CASE reading = "is_rep_g2"
      BY <1>1, <2>13 DEF Owed
    <2> QED BY <1>1, <2>1, <2>2, <2>3, <2>4, <2>5, <2>6, <2>7, <2>8, <2>9, <2>10, <2>11,
               <2>12, <2>13
  <1> QED BY <1>1, <1>3

\* What a bit with a context does, as the tables count it.
LEMMA ReadTakes ==
    ASSUME WalkInv, reading # "done", NEW array, NEW at, NEW bit, ReadBit(array, at, bit)
    PROVE  /\ Ranged /\ Ranged' /\ CodedTakes
           /\ Len(odds) \in Nat /\ Len(odds) >= 1 /\ Len(odds') = Len(odds) - 1
  <1>1. BitsTypeOK /\ Len(odds) \in Nat /\ Len(odds) >= 1 /\ DecodeBit(bit)
    BY BitsLeft DEF WalkInv, ReadBit
  <1>2. odds # <<>>
    BY <1>1
  <1>3. Ranged' /\ Len(odds') = Len(odds) - 1
    BY <1>1, ReadIs
  <1>4. CodedTakes
    BY <1>1, <1>2, DecodeIs DEF CodedTakes, MayTake
  <1>5. Ranged
    BY <1>1 DEF Ranged, BitsTypeOK
  <1> QED BY <1>1, <1>3, <1>4, <1>5

\* A bit goes on by one row of CodedWorst.
LEMMA CodedOn ==
    ASSUME WalkInv, reading # "done", NEW array, NEW at, NEW bit, ReadBit(array, at, bit),
           NEW n \in 1..23, n = Len(odds), NoWorse(CodedWorst(n))
    PROVE  /\ Len(odds') = n - 1 /\ NoWorse(CodedWorst(n - 1))'
           /\ bytes' \in Nat /\ range'.hi \in Nat
  <1>1. Ranged /\ Ranged' /\ CodedTakes /\ Len(odds') = n - 1
    BY ReadTakes
  <1>2. \A w, z : CodedTo(w, z) /\ NoWorse(w) => NoWorse(z)'
    BY <1>1, CodedWorse
  <1>3. CodedTo(CodedWorst(n), CodedWorst(n - 1))
    BY CodedSteps
  <1>4. bytes' \in Nat /\ range'.hi \in Nat
    BY <1>1, MaxHighIs DEF Ranged
  <1> QED BY <1>1, <1>2, <1>3, <1>4

\* The invariant after a bit with a context, outside align.
LEMMA CodedWorstOn ==
    ASSUME WalkInv, WorstInv, WalkInv', reading \notin {"direct", "align", "done"},
           reading' # "align", NEW array, NEW at, NEW bit, ReadBit(array, at, bit)
    PROVE  WorstInv'
  <1>1. PICK n \in 1..23 : n = Len(odds) /\ NoWorse(CodedWorst(n))
    <2> DEFINE m == Len(odds)
    <2>1. m \in Nat /\ m >= 1 /\ m <= 23 /\ NoWorse(CodedWorst(m))
      BY BitsLeft DEF WorstInv
    <2> HIDE DEF m
    <2>2. m \in 1..23
      BY <2>1
    <2> USE DEF m
    <2> QED BY <2>1, <2>2
  <1>2. /\ Len(odds') = n - 1 /\ NoWorse(CodedWorst(n - 1))'
        /\ bytes' \in Nat /\ range'.hi \in Nat
    BY <1>1, CodedOn
  <1>3. bytes' <= 20
    <2>1. n - 1 \in 0..23
      OBVIOUS
    <2>2. CodedWorst(n - 1)[1] \in Nat /\ CodedWorst(n - 1)[1] <= 18
      BY <2>1, CodedFits
    <2>3. bytes' < CodedWorst(n - 1)[1] \/ bytes' = CodedWorst(n - 1)[1]
      BY <1>2 DEF NoWorse
    <2> QED BY <1>2, <2>2, <2>3
  <1>4. NoWorse(CodedWorst(Len(odds)))'
    BY <1>2 DEF NoWorse
  <1>5. ASSUME reading' = "direct" PROVE NoWorse(DirectWorst(left))'
    <2>1. n - 1 >= 5 /\ n - 1 \in 5..23
      <3>1. Len(odds') >= 5
        BY <1>5 DEF WalkInv, Owed
      <3> QED BY <1>2, <3>1
    <2>2. left' \in 1..26
      <3>1. slot' \in 14..63 /\ left' \in 1..DirectsOf(slot')
        BY <1>5 DEF WalkInv, Placed
      <3>2. DirectsOf(slot') \in 2..26
        BY <3>1, SlotLeaves
      <3> QED BY <3>1, <3>2
    <2> DEFINE m == left'
    <2>3. bytes' < CodedWorst(n - 1)[1] \/ (bytes' = CodedWorst(n - 1)[1] /\ range'.hi >= CodedWorst(n - 1)[2])
      BY <1>2 DEF NoWorse
    <2>4. bytes' < DirectWorst(m)[1] \/ (bytes' = DirectWorst(m)[1] /\ range'.hi >= DirectWorst(m)[2])
      BY <1>2, <2>1, <2>2, <2>3, DirectEntered
    <2> QED BY <2>4 DEF NoWorse
  <1>6. Len(odds') <= 23
    BY <1>2
  <1>7. reading' # "align"
    OBVIOUS
  <1> QED BY <1>3, <1>4, <1>5, <1>6, <1>7 DEF WorstInv

\* After a direct bit.
LEMMA DirectWorstOn == ASSUME WalkInv, WorstInv, WalkInv', Direct PROVE WorstInv'
  <1>1. /\ BitsTypeOK /\ reading = "direct" /\ slot \in 14..63 /\ left \in 1..DirectsOf(slot)
        /\ Normalize(Halved) /\ UNCHANGED odds /\ NoWorse(DirectWorst(left))
        /\ \/ left = 1 /\ reading' = "align" /\ left' = 4
           \/ left # 1 /\ reading' = "direct" /\ left' = left - 1
    BY DEF Direct, Enters, WalkInv, WorstInv, Placed
  <1>2. PICK n \in 1..26 : n = left /\ NoWorse(DirectWorst(n))
    <2>1. DirectsOf(slot) \in 2..26
      BY <1>1, SlotLeaves
    <2>2. left \in 1..26
      BY <1>1, <2>1
    <2> QED BY <1>1, <2>2
  <1>3. Ranged /\ Ranged' /\ HalvedTakes
    <2>1. Ranged
      BY <1>1 DEF BitsTypeOK, Ranged
    <2>2. range.hi \div 2 \in Nat
      <3> DEFINE r == range.hi
      <3>1. r \in Nat
        BY <2>1, MaxHighIs DEF Ranged
      <3> HIDE DEF r
      <3>2. r \div 2 \in Nat
        BY <3>1
      <3> QED BY <3>2 DEF r
    <2> QED BY <1>1, <2>1, <2>2, DirectsAre DEF HalvedTakes, MayTake
  <1>4. NoWorse(DirectWorst(n - 1))'
    <2>1. \A w, z : HalvedTo(w, z) /\ NoWorse(w) => NoWorse(z)'
      BY <1>3, HalvedWorse
    <2>2. HalvedTo(DirectWorst(n), DirectWorst(n - 1))
      BY DirectSteps
    <2> QED BY <1>2, <2>1, <2>2
  <1>5. bytes' \in Nat /\ bytes' <= 20
    <2>1. bytes' \in Nat
      BY <1>3 DEF Ranged
    <2>2. n - 1 \in 0..26
      OBVIOUS
    <2>3. DirectWorst(n - 1)[1] \in Nat /\ DirectWorst(n - 1)[1] <= 17
      BY <2>2, DirectFits
    <2>4. bytes' < DirectWorst(n - 1)[1] \/ bytes' = DirectWorst(n - 1)[1]
      BY <1>4 DEF NoWorse
    <2> QED BY <2>1, <2>3, <2>4
  <1>6. CASE n = 1
    <2>1. reading' = "align" /\ left' = 4 /\ DirectWorst(n - 1) = AlignWorst(4)
      BY <1>1, <1>2, <1>6, DirectToAlign
    <2>2. NoWorse(AlignWorst(left))'
      BY <1>4, <2>1 DEF NoWorse
    <2> QED BY <1>1, <1>5, <2>1, <2>2 DEF WorstInv
  <1>7. CASE n # 1
    <2>1. reading' = "direct" /\ left' = n - 1
      BY <1>1, <1>2, <1>7
    <2>2. NoWorse(DirectWorst(left))'
      BY <1>4, <2>1 DEF NoWorse
    <2> QED BY <1>1, <1>5, <2>1, <2>2 DEF WorstInv
  <1> QED BY <1>6, <1>7

\* After a bit of align.
LEMMA AlignWorstOn == ASSUME WalkInv, WorstInv, WalkInv', Align PROVE WorstInv'
  <1>1. /\ reading = "align" /\ NoWorse(AlignWorst(left)) /\ NodeOf(4, left, tmp)
        /\ \/ left = 1 /\ reading' = "done"
           \/ left > 1 /\ reading' = "align" /\ left' = left - 1
    BY DEF Align, Inside, LastTree, WalkInv, WorstInv, Placed, AtNode
  <1>2. PICK n \in 1..4 : n = left /\ NoWorse(AlignWorst(n))
    BY <1>1 DEF NodeOf
  <1>3. PICK bit \in {0, 1} : ReadBit("align_decoder", 0 + tmp, bit)
    BY DEF Align, TreeBit
  <1>4. Ranged /\ Ranged' /\ CodedTakes /\ Len(odds) \in Nat /\ Len(odds') = Len(odds) - 1
    BY <1>1, <1>3, ReadTakes
  <1>5. NoWorse(AlignWorst(n - 1))'
    <2>1. \A w, z : CodedTo(w, z) /\ NoWorse(w) => NoWorse(z)'
      BY <1>4, CodedWorse
    <2>2. CodedTo(AlignWorst(n), AlignWorst(n - 1))
      BY AlignSteps
    <2> QED BY <1>2, <2>1, <2>2
  <1>6. bytes' \in Nat /\ bytes' <= 20
    <2>1. bytes' \in Nat
      BY <1>4 DEF Ranged
    <2>2. n - 1 \in 0..4
      OBVIOUS
    <2>3. AlignWorst(n - 1)[1] \in Nat /\ AlignWorst(n - 1)[1] <= 20
      BY <2>2, AlignFits
    <2>4. bytes' < AlignWorst(n - 1)[1] \/ bytes' = AlignWorst(n - 1)[1]
      BY <1>5 DEF NoWorse
    <2> QED BY <2>1, <2>3, <2>4
  <1>7. Len(odds') <= 23
    BY <1>4 DEF WorstInv
  <1>8. CASE left = 1
    BY <1>1, <1>6, <1>7, <1>8 DEF WorstInv
  <1>9. CASE left > 1
    <2>1. reading' = "align" /\ left' = n - 1
      BY <1>1, <1>2, <1>9
    <2>2. NoWorse(AlignWorst(left))'
      BY <1>5, <2>1 DEF NoWorse
    <2> QED BY <1>6, <1>7, <2>1, <2>2 DEF WorstInv
  <1> QED BY <1>1, <1>8, <1>9

\* Every other bit is one with a context that comes before any direct one.
LEMMA OthersWorstOn ==
    ASSUME WalkInv, WorstInv, WalkInv', BitNext, ~ Direct, ~ Align PROVE WorstInv'
  <1>1. /\ reading \notin {"direct", "align", "done"} /\ reading' # "align"
        /\ \E array, at, bit : ReadBit(array, at, bit)
    <2>1. CASE IsMatchBit
      BY <2>1 DEF IsMatchBit, FlagBit
    <2>2. CASE IsRepBit
      BY <2>2 DEF IsRepBit, FlagBit
    <2>3. CASE IsRepG0Bit
      BY <2>3 DEF IsRepG0Bit, FlagBit
    <2>4. CASE IsRep0LongBit
      BY <2>4 DEF IsRep0LongBit, FlagBit
    <2>5. CASE IsRepG1Bit
      BY <2>5 DEF IsRepG1Bit, FlagBit
    <2>6. CASE IsRepG2Bit
      BY <2>6 DEF IsRepG2Bit, FlagBit
    <2>7. CASE LiteralBit
      BY <2>7 DEF LiteralBit
    <2>8. CASE LenChoice
      BY <2>8 DEF LenChoice
    <2>9. CASE LenChoice2
      BY <2>9 DEF LenChoice2
    <2>10. CASE LenLow
      BY <2>10 DEF LenLow, TreeBit, Inside, Length
    <2>11. CASE LenMid
      BY <2>11 DEF LenMid, TreeBit, Inside, Length
    <2>12. CASE LenHigh
      BY <2>12 DEF LenHigh, TreeBit, Inside, Length
    <2>13. CASE Slot
      BY <2>13 DEF Slot, TreeBit, Inside, SlotEnds
    <2>14. CASE Reverse
      BY <2>14 DEF Reverse, TreeBit, Inside, LastTree
    <2> QED BY <2>1, <2>2, <2>3, <2>4, <2>5, <2>6, <2>7, <2>8, <2>9, <2>10, <2>11, <2>12,
               <2>13, <2>14 DEF BitNext
  <1> QED BY <1>1, CodedWorstOn

\* Every bit keeps WorstInv.
LEMMA StepWorst == ASSUME WalkInv, WalkInv', WorstInv, [BitNext]_bitVars PROVE WorstInv'
  <1>1. CASE UNCHANGED bitVars
    BY <1>1 DEF bitVars, WorstInv, NoWorse
  <1> QED BY <1>1, DirectWorstOn, AlignWorstOn, OthersWorstOn

LEMMA InitWorst == ASSUME BitInit PROVE WorstInv
  <1>1. odds \in [1..MaxBits -> Adapted] /\ bytes = 0 /\ reading = "is_match"
    BY OddsAssumption DEF BitInit
  <1>2. Len(odds) = 23
    <2>1. MaxBits \in Nat /\ MaxBits = 23
      BY DEF MaxBits
    <2> QED BY <1>1, <2>1, TupleIs
  <1>3. range.hi \in Nat /\ range.hi >= 65536
    BY RangesAssumption, MaxHighIs DEF BitInit
  <1>4. NoWorse(CodedWorst(Len(odds)))
    BY <1>1, <1>2, <1>3 DEF NoWorse, CodedWorst
  <1> QED BY <1>1, <1>2, <1>4 DEF WorstInv

\* Where WorstInv holds, 20 bytes are enough.
LEMMA WorstFits == ASSUME WorstInv PROVE FitsRequired
  BY DEF WorstInv, FitsRequired, MAX_REQUIRED_INPUT

\* FitsRequired is an invariant.
LEMMA FitsHolds == BitSpec => []FitsRequired
  <1>1. WalkInv /\ WalkInv' /\ WorstInv /\ [BitNext]_bitVars => WorstInv'
    BY StepWorst
  <1>2. BitInit => WorstInv
    BY InitWorst
  <1>3. WorstInv => FitsRequired
    BY WorstFits
  <1> QED BY <1>1, <1>2, <1>3, WalkHolds, PTL DEF BitSpec

-----------------------------------------------------------------------------
(* What the encoders code *)

\* Halves and remainders of powers of two.
LEMMA HalfOf ==
    ASSUME NEW t \in Nat, NEW b \in {0, 1}, NEW k \in 0..8
    PROVE  (2 * t + b) \div Pow2(k + 1) = t \div Pow2(k)
  <1>1. Pow2(k + 1) = 2 * Pow2(k)
    BY PowerOfMore
  <1>2. CASE k = 0
    <2>1. Pow2(k) = 1 /\ Pow2(k + 1) = 2
      BY <1>1, <1>2, SmallPowers
    <2>2. (2 * t + b) \div 2 = t \div 1
      OBVIOUS
    <2> QED BY <2>1, <2>2
  <1>3. CASE k = 1
    <2>1. Pow2(k) = 2 /\ Pow2(k + 1) = 4
      BY <1>1, <1>3, SmallPowers
    <2>2. (2 * t + b) \div 4 = t \div 2
      OBVIOUS
    <2> QED BY <2>1, <2>2
  <1>4. CASE k = 2
    <2>1. Pow2(k) = 4 /\ Pow2(k + 1) = 8
      BY <1>1, <1>4, SmallPowers
    <2>2. (2 * t + b) \div 8 = t \div 4
      OBVIOUS
    <2> QED BY <2>1, <2>2
  <1>5. CASE k = 3
    <2>1. Pow2(k) = 8 /\ Pow2(k + 1) = 16
      BY <1>1, <1>5, SmallPowers
    <2>2. (2 * t + b) \div 16 = t \div 8
      OBVIOUS
    <2> QED BY <2>1, <2>2
  <1>6. CASE k = 4
    <2>1. Pow2(k) = 16 /\ Pow2(k + 1) = 32
      BY <1>1, <1>6, SmallPowers
    <2>2. (2 * t + b) \div 32 = t \div 16
      OBVIOUS
    <2> QED BY <2>1, <2>2
  <1>7. CASE k = 5
    <2>1. Pow2(k) = 32 /\ Pow2(k + 1) = 64
      BY <1>1, <1>7, SmallPowers
    <2>2. (2 * t + b) \div 64 = t \div 32
      OBVIOUS
    <2> QED BY <2>1, <2>2
  <1>8. CASE k = 6
    <2>1. Pow2(k) = 64 /\ Pow2(k + 1) = 128
      BY <1>1, <1>8, SmallPowers
    <2>2. (2 * t + b) \div 128 = t \div 64
      OBVIOUS
    <2> QED BY <2>1, <2>2
  <1>9. CASE k = 7
    <2>1. Pow2(k) = 128 /\ Pow2(k + 1) = 256
      BY <1>1, <1>9, SmallPowers
    <2>2. (2 * t + b) \div 256 = t \div 128
      OBVIOUS
    <2> QED BY <2>1, <2>2
  <1>10. CASE k = 8
    <2>1. Pow2(k) = 256 /\ Pow2(k + 1) = 512
      BY <1>1, <1>10, SmallPowers
    <2>2. (2 * t + b) \div 512 = t \div 256
      OBVIOUS
    <2> QED BY <2>1, <2>2
  <1> QED BY <1>2, <1>3, <1>4, <1>5, <1>6, <1>7, <1>8, <1>9, <1>10

\* A quotient of a sum whose first term is a multiple.
LEMMA QuotientOf ==
    ASSUME NEW m \in Nat, NEW v \in Nat, NEW k \in 0..8
    PROVE  (Pow2(k) * m + v) \div Pow2(k) = m + (v \div Pow2(k))
  <1>2. CASE k = 0
    <2>1. Pow2(k) = 1
      BY <1>2, SmallPowers
    <2>2. (1 * m + v) \div 1 = m + (v \div 1)
      OBVIOUS
    <2> QED BY <2>1, <2>2
  <1>3. CASE k = 1
    <2>1. Pow2(k) = 2
      BY <1>3, SmallPowers
    <2>2. (2 * m + v) \div 2 = m + (v \div 2)
      OBVIOUS
    <2> QED BY <2>1, <2>2
  <1>4. CASE k = 2
    <2>1. Pow2(k) = 4
      BY <1>4, SmallPowers
    <2>2. (4 * m + v) \div 4 = m + (v \div 4)
      OBVIOUS
    <2> QED BY <2>1, <2>2
  <1>5. CASE k = 3
    <2>1. Pow2(k) = 8
      BY <1>5, SmallPowers
    <2>2. (8 * m + v) \div 8 = m + (v \div 8)
      OBVIOUS
    <2> QED BY <2>1, <2>2
  <1>6. CASE k = 4
    <2>1. Pow2(k) = 16
      BY <1>6, SmallPowers
    <2>2. (16 * m + v) \div 16 = m + (v \div 16)
      OBVIOUS
    <2> QED BY <2>1, <2>2
  <1>7. CASE k = 5
    <2>1. Pow2(k) = 32
      BY <1>7, SmallPowers
    <2>2. (32 * m + v) \div 32 = m + (v \div 32)
      OBVIOUS
    <2> QED BY <2>1, <2>2
  <1>8. CASE k = 6
    <2>1. Pow2(k) = 64
      BY <1>8, SmallPowers
    <2>2. (64 * m + v) \div 64 = m + (v \div 64)
      OBVIOUS
    <2> QED BY <2>1, <2>2
  <1>9. CASE k = 7
    <2>1. Pow2(k) = 128
      BY <1>9, SmallPowers
    <2>2. (128 * m + v) \div 128 = m + (v \div 128)
      OBVIOUS
    <2> QED BY <2>1, <2>2
  <1>10. CASE k = 8
    <2>1. Pow2(k) = 256
      BY <1>10, SmallPowers
    <2>2. (256 * m + v) \div 256 = m + (v \div 256)
      OBVIOUS
    <2> QED BY <2>1, <2>2
  <1> QED BY <1>2, <1>3, <1>4, <1>5, <1>6, <1>7, <1>8, <1>9, <1>10

\* What a tree has read when the node t is reached, i bits down: the bits are
\* those of t below its highest one, and the nodes what t begins with.
TreeReads(array, offset, t, i) ==
    [j \in 1..i |-> Read(array, offset + (t \div Pow2(i + 1 - j)), (t \div Pow2(i - j)) % 2)]

TreeArrays == {"pos_slot_decoder", "pos_decoders", "align_decoder",
           "len.choice", "len.choice2", "len.low_coder", "len.mid_coder", "len.high_coder",
           "rep_len.choice", "rep_len.choice2", "rep_len.low_coder", "rep_len.mid_coder",
           "rep_len.high_coder"}

CellReads == {Read(c[1], c[2], c[3]) : c \in TreeArrays \X Int \X {0, 1}}

LEMMA OneRead ==
    ASSUME NEW a \in TreeArrays, NEW o \in Int, NEW b \in {0, 1} PROVE Read(a, o, b) \in CellReads
  <1>1. <<a, o, b>> \in TreeArrays \X Int \X {0, 1}
    OBVIOUS
  <1> QED BY <1>1 DEF CellReads

LEMMA PowerPositive == ASSUME NEW k \in Nat PROVE Pow2(k) \in Nat /\ Pow2(k) > 0
  BY PowerOfMore

\* Quotients by powers are numbers, and their last bits are bits.
LEMMA QuotientIs ==
    ASSUME NEW t \in Nat, NEW k \in Nat
    PROVE  t \div Pow2(k) \in Nat /\ (t \div Pow2(k)) % 2 \in {0, 1}
  <1> DEFINE p == Pow2(k)
  <1>1. p \in Nat /\ p > 0
    BY PowerPositive
  <1> HIDE DEF p
  <1>2. t \div p \in Nat
    BY <1>1
  <1>3. (t \div p) % 2 \in {0, 1}
    BY <1>2
  <1> QED BY <1>2, <1>3 DEF p

\* A path is a sequence of reads, as long as it is deep.
LEMMA ReadsAre ==
    ASSUME NEW a \in TreeArrays, NEW o \in Int, NEW t \in Nat, NEW i \in Nat
    PROVE  TreeReads(a, o, t, i) \in Seq(CellReads) /\ Len(TreeReads(a, o, t, i)) = i
  <1>1. ASSUME NEW j \in 1..i
        PROVE  Read(a, o + (t \div Pow2(i + 1 - j)), (t \div Pow2(i - j)) % 2) \in CellReads
    <2>1. i + 1 - j \in Nat /\ i - j \in Nat
      OBVIOUS
    <2>2. t \div Pow2(i + 1 - j) \in Nat /\ (t \div Pow2(i - j)) % 2 \in {0, 1}
      BY <2>1, QuotientIs
    <2>3. o + (t \div Pow2(i + 1 - j)) \in Int
      BY <2>2
    <2> QED BY <2>2, <2>3, OneRead
  <1>2. TreeReads(a, o, t, i) \in [1..i -> CellReads]
    BY <1>1 DEF TreeReads
  <1> QED BY <1>2, TupleIs

\* A bit more.
LEMMA ReadsMore ==
    ASSUME NEW a \in TreeArrays, NEW o \in Int, NEW t \in Nat, NEW b \in {0, 1}, NEW i \in 0..8
    PROVE  TreeReads(a, o, 2 * t + b, i + 1) = Append(TreeReads(a, o, t, i), Read(a, o + t, b))
  <1> DEFINE u == 2 * t + b
             s == TreeReads(a, o, t, i)
             z == TreeReads(a, o, u, i + 1)
             y == Append(s, Read(a, o + t, b))
  <1>1. i \in Nat /\ i + 1 \in Nat /\ u \in Nat
    OBVIOUS
  <1>2. s \in Seq(CellReads) /\ Len(s) = i /\ z \in Seq(CellReads) /\ Len(z) = i + 1
    BY <1>1, ReadsAre
  <1>3. Read(a, o + t, b) \in CellReads
    <2>1. o + t \in Int
      OBVIOUS
    <2> QED BY <2>1, OneRead
  <1>4. /\ y \in Seq(CellReads) /\ Len(y) = i + 1 /\ y[i + 1] = Read(a, o + t, b)
        /\ \A j \in 1..i : y[j] = s[j]
    <2> HIDE DEF s
    <2> QED BY <1>2, <1>3, AppendKeeps
  <1>5. ASSUME NEW j \in 1..(i + 1) PROVE z[j] = y[j]
    <2>1. z[j] = Read(a, o + (u \div Pow2(i + 1 + 1 - j)), (u \div Pow2(i + 1 - j)) % 2)
      BY DEF TreeReads
    <2>2. CASE j = i + 1
      <3>1. i + 1 + 1 - j = 0 + 1 /\ i + 1 - j = 0
        BY <2>2
      <3>2. u \div Pow2(0 + 1) = t \div Pow2(0)
        BY HalfOf
      <3>3. t \div Pow2(0) = t /\ (u \div Pow2(0)) % 2 = b
        BY SmallPowers
      <3> QED BY <1>4, <2>1, <2>2, <3>1, <3>2, <3>3
    <2>3. CASE j # i + 1
      <3>1. j \in 1..i /\ i + 1 - j \in 0..8 /\ i - j \in 0..8
        BY <2>3
      <3>2. s[j] = Read(a, o + (t \div Pow2(i + 1 - j)), (t \div Pow2(i - j)) % 2)
        BY <3>1 DEF TreeReads
      <3>3. u \div Pow2(i + 1 - j + 1) = t \div Pow2(i + 1 - j) /\ u \div Pow2(i - j + 1) = t \div Pow2(i - j)
        BY <3>1, HalfOf
      <3>4. i + 1 + 1 - j = i + 1 - j + 1 /\ i + 1 - j = i - j + 1
        BY <3>1
      <3>5. z[j] = s[j]
        BY <2>1, <3>2, <3>3, <3>4
      <3> QED BY <1>4, <3>1, <3>5
    <2> QED BY <2>2, <2>3
  <1> HIDE DEF z, y
  <1>6. z = y
    BY <1>2, <1>4, <1>5, SeqEqual
  <1> QED BY <1>6 DEF z, y

\* The encoder of a tree codes the value at the leaf t.
LEMMA EncodesTree ==
    ASSUME NEW a \in TreeArrays, NEW o \in Int, NEW n \in 1..8, NEW v \in Nat
    PROVE  encode_bit_tree(a, o, n, v) = TreeReads(a, o, Pow2(n) + v, n)
  <1> DEFINE t == Pow2(n) + v
  <1>1. ASSUME NEW j \in 1..n
        PROVE  /\ o + Pow2(j - 1) + (v \div Pow2(n + 1 - j)) = o + (t \div Pow2(n + 1 - j))
               /\ (v \div Pow2(n - j)) % 2 = (t \div Pow2(n - j)) % 2
    <2>1. /\ n + 1 - j \in 0..8 /\ n - j \in 0..8 /\ j - 1 \in Nat /\ j \in Nat
          /\ (n + 1 - j) + (j - 1) = n /\ (n - j) + j = n /\ (j - 1) + 1 = j
          /\ n + 1 - j \in Nat /\ n - j \in Nat
      OBVIOUS
    <2> DEFINE k == n + 1 - j
               l == n - j
    <2>2. Pow2(n) = Pow2(k) * Pow2(j - 1) /\ Pow2(n) = Pow2(l) * Pow2(j)
      <3>1. Pow2(k + (j - 1)) = Pow2(k) * Pow2(j - 1)
        BY <2>1, PowerOfSum
      <3>2. Pow2(l + j) = Pow2(l) * Pow2(j)
        BY <2>1, PowerOfSum
      <3> QED BY <2>1, <3>1, <3>2
    <2>3. Pow2(j - 1) \in Nat /\ Pow2(j) = 2 * Pow2(j - 1)
      <3>1. Pow2((j - 1) + 1) = 2 * Pow2(j - 1) /\ Pow2(j - 1) \in Nat
        BY <2>1, PowerOfMore
      <3> QED BY <2>1, <3>1
    <2>4. k \in 0..8 /\ l \in 0..8 /\ k \in Nat /\ l \in Nat
      BY <2>1
    <2> HIDE DEF k, l
    <2>5. t \div Pow2(k) = Pow2(j - 1) + (v \div Pow2(k))
      BY <2>2, <2>3, <2>4, QuotientOf
    <2>6. t \div Pow2(l) = Pow2(j) + (v \div Pow2(l))
      <3>1. Pow2(j) \in Nat
        BY <2>3
      <3> QED BY <2>2, <2>4, <3>1, QuotientOf
    <2>7. v \div Pow2(k) \in Nat /\ v \div Pow2(l) \in Nat
      BY <2>4, QuotientIs
    <2>8. (v \div Pow2(l)) % 2 = (t \div Pow2(l)) % 2
      <3> DEFINE q == v \div Pow2(l)
                 p == Pow2(j - 1)
      <3>1. q \in Nat /\ p \in Nat /\ t \div Pow2(l) = 2 * p + q
        BY <2>3, <2>6, <2>7
      <3> HIDE DEF q, p
      <3>2. q % 2 = (2 * p + q) % 2
        BY <3>1
      <3> QED BY <3>1, <3>2 DEF q
    <2>9. o + Pow2(j - 1) + (v \div Pow2(k)) = o + (t \div Pow2(k))
      <3> DEFINE q == v \div Pow2(k)
                 p == Pow2(j - 1)
      <3>1. q \in Nat /\ p \in Nat /\ t \div Pow2(k) = p + q
        BY <2>3, <2>5, <2>7
      <3> HIDE DEF q, p
      <3>2. o + p + q = o + (p + q)
        BY <3>1
      <3> QED BY <3>1, <3>2 DEF q, p
    <2> QED BY <2>8, <2>9 DEF k, l
  <1> QED BY <1>1 DEF encode_bit_tree, TreeReads

\* What a function of so many bits, the first the lowest, is a sum of.
SumOf(f, c, n) ==
    f[0] = 0 /\ \A i \in 1..n : f[i] = f[i - 1] + c[i] * Pow2(i - 1)

HasLength(s, n) == Len(s) = n

\* The value of reversed bits is a sum, which exists.
LEMMA ReversedIs ==
    ASSUME NEW n \in Nat, NEW reads, HasLength(reads, n),
           NEW c \in [1..n -> {0, 1}], \A i \in 1..n : reads[i].bit = c[i]
    PROVE  \E f \in [0..n -> Nat] : SumOf(f, c, n) /\ Reversed(reads) = f[n]
  <1> DEFINE Is(f) == f = [i \in 0..n |-> IF i = 0 THEN 0 ELSE f[i - 1] + reads[i].bit * Pow2(i - 1)]
             f == CHOOSE g : Is(g)
             d == [i \in 1..n |-> c[i] * Pow2(i - 1)]
  <1>1. d \in [1..n -> Nat] /\ \A i \in 1..n : d[i] = c[i] * Pow2(i - 1)
    <2>1. ASSUME NEW i \in 1..n PROVE c[i] * Pow2(i - 1) \in Nat
      <3>1. i - 1 \in Nat
        OBVIOUS
      <3>2. Pow2(i - 1) \in Nat
        BY <3>1, PowerPositive
      <3>3. c[i] = 0 \/ c[i] = 1
        OBVIOUS
      <3> QED BY <3>2, <3>3
    <2> QED BY <2>1
  <1> HIDE DEF d
  <1>2. PICK g \in [0..n -> Nat] : g[0] = 0 /\ \A i \in 1..n : g[i] = g[i - 1] + d[i]
    <2>1. 0 \in Nat
      OBVIOUS
    <2> QED BY <1>1, <2>1, SumExists
  <1>3. /\ 0 \in 0..n /\ \A i \in 0..n : i # 0 => i \in 1..n
        /\ \A i \in 1..n : i \in 0..n /\ i # 0 /\ i - 1 \in 0..n
    OBVIOUS
  <1>4. \A i \in 1..n : g[i] = g[i - 1] + reads[i].bit * Pow2(i - 1)
    BY <1>1, <1>2
  <1>5. g = [i \in 0..n |-> IF i = 0 THEN 0 ELSE g[i - 1] + reads[i].bit * Pow2(i - 1)]
    BY <1>2, <1>3, <1>4
  <1>6. Is(f)
    BY <1>5, Zenon
  <1>7. Reversed(reads) = f[n]
    BY Zenon DEF Reversed, HasLength
  <1> HIDE DEF f
  <1>8. f[0] = 0 /\ \A i \in 1..n : f[i] = f[i - 1] + reads[i].bit * Pow2(i - 1)
    BY <1>3, <1>6
  <1>9. \A i \in 0..n : f[i] = g[i]
    <2> DEFINE P == {i \in 0..n : f[i] = g[i]}
    <2>1. 0 \in P
      BY <1>2, <1>3, <1>8
    <2>2. ASSUME NEW i \in 1..n, i - 1 \in P PROVE i \in P
      BY <1>3, <1>4, <1>8, <2>2
    <2>3. P \subseteq 0..n /\ \A i \in P : f[i] = g[i]
      OBVIOUS
    <2> HIDE DEF P
    <2>4. 0..n \subseteq P
      BY <2>1, <2>2, InductionUpTo
    <2> QED BY <2>3, <2>4
  <1>10. Reversed(reads) = g[n]
    BY <1>7, <1>9
  <1>11. SumOf(g, c, n)
    BY <1>1, <1>2 DEF SumOf
  <1> QED BY <1>2, <1>10, <1>11

\* Its bits are the ones it was made of.
LEMMA FiveBits ==
    ASSUME NEW p \in {0, 1}, NEW q \in {0, 1}, NEW r \in {0, 1}, NEW s \in {0, 1}, NEW u \in {0, 1}
    PROVE  /\ (p + 2 * q + 4 * r + 8 * s + 16 * u) % 2 = p
           /\ ((p + 2 * q + 4 * r + 8 * s + 16 * u) \div 2) % 2 = q
           /\ ((p + 2 * q + 4 * r + 8 * s + 16 * u) \div 4) % 2 = r
           /\ ((p + 2 * q + 4 * r + 8 * s + 16 * u) \div 8) % 2 = s
           /\ ((p + 2 * q + 4 * r + 8 * s + 16 * u) \div 16) % 2 = u
  <1>1. (p = 0 \/ p = 1) /\ (q = 0 \/ q = 1) /\ (r = 0 \/ r = 1) /\ (s = 0 \/ s = 1) /\ (u = 0 \/ u = 1)
    OBVIOUS
  <1> DEFINE m == p + 2 * q + 4 * r + 8 * s + 16 * u
  <1>2. m % 2 = p
    BY <1>1
  <1>3. (m \div 2) % 2 = q
    BY <1>1
  <1>4. (m \div 4) % 2 = r
    BY <1>1
  <1>5. (m \div 8) % 2 = s
    BY <1>1
  <1>6. (m \div 16) % 2 = u
    BY <1>1
  <1> QED BY <1>2, <1>3, <1>4, <1>5, <1>6

LEMMA BitTimes ==
    ASSUME NEW b \in {0, 1}
    PROVE  /\ b * Pow2(0) = b /\ b * Pow2(1) = 2 * b /\ b * Pow2(2) = 4 * b
           /\ b * Pow2(3) = 8 * b /\ b * Pow2(4) = 16 * b
  BY SmallPowers

\* The bits of that sum are those it was made from, for up to five of them.
LEMMA BitsBack ==
    ASSUME NEW n \in 1..5, NEW c \in [1..n -> {0, 1}], NEW f \in [0..n -> Nat], SumOf(f, c, n)
    PROVE  f[n] \in Nat /\ \A i \in 1..n : (f[n] \div Pow2(i - 1)) % 2 = c[i]
  <1> DEFINE x(i) == IF i <= n THEN c[i] ELSE 0
  <1>0. f[0] = 0 /\ \A i \in 1..n : f[i] = f[i - 1] + c[i] * Pow2(i - 1)
    BY DEF SumOf
  <1>1. \A i \in 1..n : x(i) = c[i] /\ c[i] \in {0, 1}
    OBVIOUS
  <1>2. x(1) \in {0, 1} /\ x(2) \in {0, 1} /\ x(3) \in {0, 1} /\ x(4) \in {0, 1} /\ x(5) \in {0, 1}
    OBVIOUS
  <1>3. \A i \in 1..5 : i > n => x(i) = 0
    OBVIOUS
  <1> HIDE DEF x
  <1>4. n >= 1 => f[1] = f[0] + x(1)
    <2> SUFFICES ASSUME n >= 1 PROVE f[1] = f[0] + x(1)
      OBVIOUS
    <2>1. 1 \in 1..n /\ 1 - 1 = 0
      OBVIOUS
    <2>2. f[1] = f[0] + x(1) * Pow2(0)
      BY <1>0, <1>1, <2>1
    <2> QED BY <1>2, <2>2, BitTimes
  <1>5. n >= 2 => f[2] = f[1] + 2 * x(2)
    <2> SUFFICES ASSUME n >= 2 PROVE f[2] = f[1] + 2 * x(2)
      OBVIOUS
    <2>1. 2 \in 1..n /\ 2 - 1 = 1
      OBVIOUS
    <2>2. f[2] = f[1] + x(2) * Pow2(1)
      BY <1>0, <1>1, <2>1
    <2> QED BY <1>2, <2>2, BitTimes
  <1>6. n >= 3 => f[3] = f[2] + 4 * x(3)
    <2> SUFFICES ASSUME n >= 3 PROVE f[3] = f[2] + 4 * x(3)
      OBVIOUS
    <2>1. 3 \in 1..n /\ 3 - 1 = 2
      OBVIOUS
    <2>2. f[3] = f[2] + x(3) * Pow2(2)
      BY <1>0, <1>1, <2>1
    <2> QED BY <1>2, <2>2, BitTimes
  <1>7. n >= 4 => f[4] = f[3] + 8 * x(4)
    <2> SUFFICES ASSUME n >= 4 PROVE f[4] = f[3] + 8 * x(4)
      OBVIOUS
    <2>1. 4 \in 1..n /\ 4 - 1 = 3
      OBVIOUS
    <2>2. f[4] = f[3] + x(4) * Pow2(3)
      BY <1>0, <1>1, <2>1
    <2> QED BY <1>2, <2>2, BitTimes
  <1>8. n >= 5 => f[5] = f[4] + 16 * x(5)
    <2> SUFFICES ASSUME n >= 5 PROVE f[5] = f[4] + 16 * x(5)
      OBVIOUS
    <2>1. 5 \in 1..n /\ 5 - 1 = 4
      OBVIOUS
    <2>2. f[5] = f[4] + x(5) * Pow2(4)
      BY <1>0, <1>1, <2>1
    <2> QED BY <1>2, <2>2, BitTimes
  <1> DEFINE m == x(1) + 2 * x(2) + 4 * x(3) + 8 * x(4) + 16 * x(5)
  <1>9. f[n] = m
    <2>1. CASE n = 1
      <3>1. x(2) = 0 /\ x(3) = 0 /\ x(4) = 0 /\ x(5) = 0
        BY <1>3, <2>1
      <3> QED BY <1>0, <1>2, <1>4, <1>5, <1>6, <1>7, <1>8, <2>1, <3>1
    <2>2. CASE n = 2
      <3>1. x(3) = 0 /\ x(4) = 0 /\ x(5) = 0
        BY <1>3, <2>2
      <3> QED BY <1>0, <1>2, <1>4, <1>5, <1>6, <1>7, <1>8, <2>2, <3>1
    <2>3. CASE n = 3
      <3>1. x(4) = 0 /\ x(5) = 0
        BY <1>3, <2>3
      <3> QED BY <1>0, <1>2, <1>4, <1>5, <1>6, <1>7, <1>8, <2>3, <3>1
    <2>4. CASE n = 4
      <3>1. x(5) = 0
        BY <1>3, <2>4
      <3> QED BY <1>0, <1>2, <1>4, <1>5, <1>6, <1>7, <1>8, <2>4, <3>1
    <2>5. CASE n = 5
      <3> QED BY <1>0, <1>2, <1>4, <1>5, <1>6, <1>7, <1>8, <2>5
    <2> QED BY <2>1, <2>2, <2>3, <2>4, <2>5
  <1>10. /\ m % 2 = x(1) /\ (m \div 2) % 2 = x(2) /\ (m \div 4) % 2 = x(3)
         /\ (m \div 8) % 2 = x(4) /\ (m \div 16) % 2 = x(5) /\ m \in Nat
    <2> DEFINE p == x(1)
               q == x(2)
               r == x(3)
               s == x(4)
               u == x(5)
    <2>1. p \in {0, 1} /\ q \in {0, 1} /\ r \in {0, 1} /\ s \in {0, 1} /\ u \in {0, 1}
      BY <1>2
    <2>2. m = p + 2 * q + 4 * r + 8 * s + 16 * u
      OBVIOUS
    <2> HIDE DEF p, q, r, s, u, m
    <2>3. /\ (p + 2 * q + 4 * r + 8 * s + 16 * u) % 2 = p
          /\ ((p + 2 * q + 4 * r + 8 * s + 16 * u) \div 2) % 2 = q
          /\ ((p + 2 * q + 4 * r + 8 * s + 16 * u) \div 4) % 2 = r
          /\ ((p + 2 * q + 4 * r + 8 * s + 16 * u) \div 8) % 2 = s
          /\ ((p + 2 * q + 4 * r + 8 * s + 16 * u) \div 16) % 2 = u
      BY <2>1, FiveBits
    <2>4. m \in Nat
      BY <2>1, <2>2
    <2> QED BY <2>2, <2>3, <2>4 DEF p, q, r, s, u
  <1> HIDE DEF m
  <1>11. ASSUME NEW i \in 1..5 PROVE (m \div Pow2(i - 1)) % 2 = x(i)
    <2>1. CASE i = 1
      <3>1. i - 1 = 0 /\ Pow2(0) = 1
        BY <2>1, SmallPowers
      <3>2. m \div 1 = m
        BY <1>10
      <3> QED BY <1>10, <2>1, <3>1, <3>2
    <2>2. CASE i = 2
      <3>1. i - 1 = 1 /\ Pow2(1) = 2
        BY <2>2, SmallPowers
      <3>2. m \div 1 = m
        BY <1>10
      <3> QED BY <1>10, <2>2, <3>1, <3>2
    <2>3. CASE i = 3
      <3>1. i - 1 = 2 /\ Pow2(2) = 4
        BY <2>3, SmallPowers
      <3>2. m \div 1 = m
        BY <1>10
      <3> QED BY <1>10, <2>3, <3>1, <3>2
    <2>4. CASE i = 4
      <3>1. i - 1 = 3 /\ Pow2(3) = 8
        BY <2>4, SmallPowers
      <3>2. m \div 1 = m
        BY <1>10
      <3> QED BY <1>10, <2>4, <3>1, <3>2
    <2>5. CASE i = 5
      <3>1. i - 1 = 4 /\ Pow2(4) = 16
        BY <2>5, SmallPowers
      <3>2. m \div 1 = m
        BY <1>10
      <3> QED BY <1>10, <2>5, <3>1, <3>2
    <2> QED BY <2>1, <2>2, <2>3, <2>4, <2>5
  <1>12. \A i \in 1..n : i \in 1..5
    OBVIOUS
  <1> QED BY <1>1, <1>9, <1>10, <1>11, <1>12

\* A quotient is twice the next one and a bit.
LEMMA DoubleOf ==
    ASSUME NEW t \in Nat, NEW k \in 0..8
    PROVE  t \div Pow2(k) = 2 * (t \div Pow2(k + 1)) + ((t \div Pow2(k)) % 2)
  <1>1. Pow2(k + 1) = 2 * Pow2(k)
    BY PowerOfMore
  <1>2. CASE k = 0
    <2>1. Pow2(k) = 1 /\ Pow2(k + 1) = 2
      BY <1>1, <1>2, SmallPowers
    <2>2. t \div 1 = 2 * (t \div 2) + ((t \div 1) % 2)
      OBVIOUS
    <2> QED BY <2>1, <2>2
  <1>3. CASE k = 1
    <2>1. Pow2(k) = 2 /\ Pow2(k + 1) = 4
      BY <1>1, <1>3, SmallPowers
    <2>2. t \div 2 = 2 * (t \div 4) + ((t \div 2) % 2)
      OBVIOUS
    <2> QED BY <2>1, <2>2
  <1>4. CASE k = 2
    <2>1. Pow2(k) = 4 /\ Pow2(k + 1) = 8
      BY <1>1, <1>4, SmallPowers
    <2>2. t \div 4 = 2 * (t \div 8) + ((t \div 4) % 2)
      OBVIOUS
    <2> QED BY <2>1, <2>2
  <1>5. CASE k = 3
    <2>1. Pow2(k) = 8 /\ Pow2(k + 1) = 16
      BY <1>1, <1>5, SmallPowers
    <2>2. t \div 8 = 2 * (t \div 16) + ((t \div 8) % 2)
      OBVIOUS
    <2> QED BY <2>1, <2>2
  <1>6. CASE k = 4
    <2>1. Pow2(k) = 16 /\ Pow2(k + 1) = 32
      BY <1>1, <1>6, SmallPowers
    <2>2. t \div 16 = 2 * (t \div 32) + ((t \div 16) % 2)
      OBVIOUS
    <2> QED BY <2>1, <2>2
  <1>7. CASE k = 5
    <2>1. Pow2(k) = 32 /\ Pow2(k + 1) = 64
      BY <1>1, <1>7, SmallPowers
    <2>2. t \div 32 = 2 * (t \div 64) + ((t \div 32) % 2)
      OBVIOUS
    <2> QED BY <2>1, <2>2
  <1>8. CASE k = 6
    <2>1. Pow2(k) = 64 /\ Pow2(k + 1) = 128
      BY <1>1, <1>8, SmallPowers
    <2>2. t \div 64 = 2 * (t \div 128) + ((t \div 64) % 2)
      OBVIOUS
    <2> QED BY <2>1, <2>2
  <1>9. CASE k = 7
    <2>1. Pow2(k) = 128 /\ Pow2(k + 1) = 256
      BY <1>1, <1>9, SmallPowers
    <2>2. t \div 128 = 2 * (t \div 256) + ((t \div 128) % 2)
      OBVIOUS
    <2> QED BY <2>1, <2>2
  <1>10. CASE k = 8
    <2>1. Pow2(k) = 256 /\ Pow2(k + 1) = 512
      BY <1>1, <1>10, SmallPowers
    <2>2. t \div 256 = 2 * (t \div 512) + ((t \div 256) % 2)
      OBVIOUS
    <2> QED BY <2>1, <2>2
  <1> QED BY <1>2, <1>3, <1>4, <1>5, <1>6, <1>7, <1>8, <1>9, <1>10

\* The encoder of a reverse tree codes the leaf t, from a value with its bits.
LEMMA EncodesReverse ==
    ASSUME NEW a, NEW o \in Int, NEW n \in 1..8, NEW t \in Pow2(n)..(2 * Pow2(n) - 1), NEW v \in Nat,
           \A i \in 1..n : (v \div Pow2(i - 1)) % 2 = (t \div Pow2(n - i)) % 2
    PROVE  encode_reverse_bit_tree(a, o, n, v) = TreeReads(a, o, t, n)
  <1> DEFINE bit == [i \in 1..n |-> (v \div Pow2(i - 1)) % 2]
             Is(f) == f = [i \in 1..n |-> IF i = 1 THEN 1 ELSE 2 * f[i - 1] + bit[i - 1]]
             f == CHOOSE g : Is(g)
             g == [i \in 1..n |-> t \div Pow2(n + 1 - i)]
  <1>0. t \in Nat /\ n \in Nat
    <2>1. Pow2(n) \in Nat
      BY PowerPositive
    <2> QED BY <2>1
  <1>1. \A i \in 1..n : bit[i] = (t \div Pow2(n - i)) % 2
    OBVIOUS
  <1>2. encode_reverse_bit_tree(a, o, n, v) = [i \in 1..n |-> Read(a, o + f[i], bit[i])]
    BY Zenon DEF encode_reverse_bit_tree
  <1> HIDE DEF bit
  <1>3. \A i \in 1..n : g[i] = t \div Pow2(n + 1 - i)
    OBVIOUS
  <1>4. t \div Pow2(n) = 1
    <2> DEFINE p == Pow2(n)
    <2>1. p \in {2, 4, 8, 16, 32, 64, 128, 256}
      <3>1. n \in {1, 2, 3, 4, 5, 6, 7, 8}
        OBVIOUS
      <3> QED BY <3>1, SmallPowers
    <2>2. t \in p..(2 * p - 1)
      OBVIOUS
    <2> HIDE DEF p
    <2>3. t \div p = 1
      BY <2>1, <2>2
    <2> QED BY <2>3 DEF p
  <1>5. g[1] = 1
    <2>1. 1 \in 1..n /\ n + 1 - 1 = n
      OBVIOUS
    <2> QED BY <1>3, <1>4, <2>1
  <1>6. ASSUME NEW i \in 2..n PROVE g[i] = 2 * g[i - 1] + bit[i - 1]
    <2>1. /\ n + 1 - i \in 0..8 /\ i \in 1..n /\ i - 1 \in 1..n
          /\ n - (i - 1) = n + 1 - i /\ n + 1 - (i - 1) = n + 1 - i + 1
      OBVIOUS
    <2> DEFINE k == n + 1 - i
    <2>2. t \div Pow2(k) = 2 * (t \div Pow2(k + 1)) + ((t \div Pow2(k)) % 2)
      BY <1>0, <2>1, DoubleOf
    <2>3. g[i] = t \div Pow2(k) /\ g[i - 1] = t \div Pow2(k + 1) /\ bit[i - 1] = (t \div Pow2(k)) % 2
      BY <1>1, <1>3, <2>1
    <2> QED BY <2>2, <2>3
  <1> HIDE DEF g
  <1>7. g = [i \in 1..n |-> IF i = 1 THEN 1 ELSE 2 * g[i - 1] + bit[i - 1]]
    <2>1. ASSUME NEW i \in 1..n PROVE g[i] = IF i = 1 THEN 1 ELSE 2 * g[i - 1] + bit[i - 1]
      <3>1. i = 1 \/ i \in 2..n
        OBVIOUS
      <3>2. i \in 2..n => i # 1
        OBVIOUS
      <3> QED BY <1>5, <1>6, <3>1, <3>2
    <2>2. g = [i \in 1..n |-> g[i]]
      BY DEF g
    <2> QED BY <2>1, <2>2
  <1>8. Is(f)
    BY <1>7, Zenon
  <1> HIDE DEF f
  <1>9. f[1] = 1 /\ \A i \in 2..n : f[i] = 2 * f[i - 1] + bit[i - 1]
    <2>1. 1 \in 1..n /\ \A i \in 2..n : i \in 1..n /\ i # 1
      OBVIOUS
    <2> QED BY <1>8, <2>1
  <1>10. \A i \in 1..n : f[i] = g[i]
    <2> DEFINE P == {i \in 0..(n - 1) : f[i + 1] = g[i + 1]}
    <2>1. 0 \in P
      <3>1. 0 \in 0..(n - 1) /\ 0 + 1 = 1
        OBVIOUS
      <3> QED BY <1>5, <1>9, <3>1
    <2>2. ASSUME NEW i \in 1..(n - 1), i - 1 \in P PROVE i \in P
      <3>1. i + 1 \in 2..n /\ (i + 1) - 1 = i /\ (i - 1) + 1 = i /\ i \in 0..(n - 1)
        OBVIOUS
      <3>2. f[i] = g[i]
        BY <2>2, <3>1
      <3>3. f[i + 1] = 2 * f[i] + bit[i] /\ g[i + 1] = 2 * g[i] + bit[i]
        BY <1>6, <1>9, <3>1
      <3> QED BY <3>1, <3>2, <3>3
    <2>3. \A i \in P : f[i + 1] = g[i + 1]
      OBVIOUS
    <2> HIDE DEF P
    <2>4. 0..(n - 1) \subseteq P
      <3>1. n - 1 \in Nat
        OBVIOUS
      <3> QED BY <2>1, <2>2, <3>1, InductionUpTo
    <2>5. ASSUME NEW i \in 1..n PROVE f[i] = g[i]
      <3>1. i - 1 \in 0..(n - 1) /\ (i - 1) + 1 = i
        OBVIOUS
      <3> QED BY <2>3, <2>4, <3>1
    <2> QED BY <2>5
  <1>11. \A i \in 1..n : Read(a, o + f[i], bit[i])
                           = Read(a, o + (t \div Pow2(n + 1 - i)), (t \div Pow2(n - i)) % 2)
    BY <1>1, <1>3, <1>10
  <1> QED BY <1>2, <1>11 DEF TreeReads

\* The arrays and what is read in them, by the length decoder in use.
ChoiceOf(c)  == IF c = "len" THEN "len.choice" ELSE "rep_len.choice"
Choice2Of(c) == IF c = "len" THEN "len.choice2" ELSE "rep_len.choice2"
LowOf(c)     == IF c = "len" THEN "len.low_coder" ELSE "rep_len.low_coder"
MidOf(c)     == IF c = "len" THEN "len.mid_coder" ELSE "rep_len.mid_coder"
HighOf(c)    == IF c = "len" THEN "len.high_coder" ELSE "rep_len.high_coder"

LenStateOf(m) == IF m > 3 THEN 3 ELSE m

LengthReads(c, p, v) ==
    IF v < 8
    THEN <<Read(ChoiceOf(c), 0, 0)>> \o encode_bit_tree(LowOf(c), 8 * p, 3, v)
    ELSE IF v < 16
    THEN <<Read(ChoiceOf(c), 0, 1), Read(Choice2Of(c), 0, 0)>>
             \o encode_bit_tree(MidOf(c), 8 * p, 3, v - 8)
    ELSE <<Read(ChoiceOf(c), 0, 1), Read(Choice2Of(c), 0, 1)>>
             \o encode_bit_tree(HighOf(c), 0, 8, v - 16)

\* What the encoders code for a value that was read.
CodedFor(o, v, c, p, m, s) ==
    CASE o = "none"    -> <<>>
      [] o \in {"low", "mid", "high"} -> LengthReads(c, p, v)
      [] o = "slot"    -> encode_bit_tree("pos_slot_decoder", 64 * LenStateOf(m), 6, v)
      [] o = "reverse" -> encode_reverse_bit_tree("pos_decoders", PosOffset(s), num_direct_bits(s), v)
      [] o = "align"   -> encode_reverse_bit_tree("align_decoder", 0, 4, v)

Agreed == done.reads = CodedFor(done.of, done.value, coder, ctx.pos_state, match_len, slot)

\* The names of arrays and the state of a length, by the values they depend on.
LEMMA NamesAre ==
    /\ Choice = ChoiceOf(coder) /\ Choice2 = Choice2Of(coder)
    /\ Low = LowOf(coder) /\ Mid = MidOf(coder) /\ High = HighOf(coder)
    /\ len_state = LenStateOf(match_len)
  BY DEF Choice, Choice2, Low, Mid, High, Of, ChoiceOf, Choice2Of, LowOf, MidOf, HighOf,
         len_state, LenStateOf

\* LengthReads is what LenEncoder::encode writes.
LEMMA LengthReadsIs == \A p, v : encode_length(p, v) = LengthReads(coder, p, v)
  BY NamesAre DEF encode_length, LengthReads

\* Agreed is EncoderAgrees by the same values.
LEMMA AgreedIs == Agreed => EncoderAgrees
  <1>1. encode_length(ctx.pos_state, done.value) = LengthReads(coder, ctx.pos_state, done.value)
    BY LengthReadsIs
  <1>2. len_state = LenStateOf(match_len)
    BY NamesAre
  <1> QED BY <1>1, <1>2 DEF Agreed, EncoderAgrees, CodedFor

\* The trees: what is read before them, the array, the offset, the depth.
TreesAt == {"low", "mid", "high", "slot", "reverse", "align"}

Prefix(r, c) ==
    CASE r = "low"  -> <<Read(ChoiceOf(c), 0, 0)>>
      [] r = "mid"  -> <<Read(ChoiceOf(c), 0, 1), Read(Choice2Of(c), 0, 0)>>
      [] r = "high" -> <<Read(ChoiceOf(c), 0, 1), Read(Choice2Of(c), 0, 1)>>
      [] OTHER      -> <<>>

ArrayOf(r, c) ==
    CASE r = "low"     -> LowOf(c)
      [] r = "mid"     -> MidOf(c)
      [] r = "high"    -> HighOf(c)
      [] r = "slot"    -> "pos_slot_decoder"
      [] r = "reverse" -> "pos_decoders"
      [] OTHER         -> "align_decoder"

OffsetOf(r, p, m, s) ==
    CASE r \in {"low", "mid"} -> 8 * p
      [] r = "slot"           -> 64 * LenStateOf(m)
      [] r = "reverse"        -> PosOffset(s)
      [] OTHER                -> 0

DepthOf(r, s) ==
    CASE r \in {"low", "mid"} -> 3
      [] r = "high"           -> 8
      [] r = "slot"           -> 6
      [] r = "reverse"        -> num_direct_bits(s)
      [] OTHER                -> 4

Trail(r, c, p, m, s, t, i) ==
    Prefix(r, c) \o TreeReads(ArrayOf(r, c), OffsetOf(r, p, m, s), t, i)

TrailInv ==
    /\ reading \in TreesAt =>
          call = Trail(reading, coder, ctx.pos_state, match_len, slot, tmp,
                       DepthOf(reading, slot) - left)
    /\ reading = "choice2" => call = <<Read(ChoiceOf(coder), 0, 1)>>
    /\ reading \in {"is_match", "is_rep"} => done.of = "none"
    /\ Agreed

\* The place of a tree in pos_decoders is a number.
LEMMA OffsetInt == ASSUME NEW s \in 4..13 PROVE PosOffset(s) \in Int
  <1>1. num_direct_bits(s) \in Nat
    BY SlotLeaves
  <1>2. Pow2(num_direct_bits(s)) \in Nat
    BY <1>1, PowerPositive
  <1>3. SlotBase(s) \in Nat
    BY <1>2 DEF SlotBase
  <1> QED BY <1>3 DEF PosOffset

LEMMA NamesIn ==
    ASSUME NEW c
    PROVE  /\ ChoiceOf(c) \in TreeArrays /\ Choice2Of(c) \in TreeArrays
           /\ LowOf(c) \in TreeArrays /\ MidOf(c) \in TreeArrays /\ HighOf(c) \in TreeArrays
  BY DEF ChoiceOf, Choice2Of, LowOf, MidOf, HighOf, TreeArrays

\* What comes before a tree is a sequence of reads.
LEMMA PrefixIs == ASSUME NEW r, NEW c PROVE Prefix(r, c) \in Seq(CellReads)
  <1> DEFINE a == Read(ChoiceOf(c), 0, 0)
             b == Read(ChoiceOf(c), 0, 1)
             d == Read(Choice2Of(c), 0, 0)
             e == Read(Choice2Of(c), 0, 1)
  <1>1. a \in CellReads /\ b \in CellReads /\ d \in CellReads /\ e \in CellReads
    BY NamesIn, OneRead
  <1> HIDE DEF a, b, d, e
  <1>2. <<a>> \in Seq(CellReads) /\ <<b, d>> \in Seq(CellReads) /\ <<b, e>> \in Seq(CellReads) /\ <<>> \in Seq(CellReads)
    BY <1>1
  <1>3. Prefix(r, c) \in {<<a>>, <<b, d>>, <<b, e>>, <<>>}
    BY DEF Prefix, a, b, d, e
  <1> QED BY <1>2, <1>3

\* A sequence and one element more.
Adds(q, e, s) == s = Append(q, e)

\* In what was read, a bit more of a tree.
LEMMA TrailMore ==
    ASSUME NEW r \in TreesAt, NEW c, NEW p \in 0..15, NEW m \in 0..271, NEW s,
           r = "reverse" => s \in 4..13,
           NEW t \in Nat, NEW b \in {0, 1}, NEW i \in 0..8
    PROVE  Adds(Trail(r, c, p, m, s, t, i), Read(ArrayOf(r, c), OffsetOf(r, p, m, s) + t, b),
                Trail(r, c, p, m, s, 2 * t + b, i + 1))
  <1> DEFINE a == ArrayOf(r, c)
             o == OffsetOf(r, p, m, s)
             q == Prefix(r, c)
             e == Read(a, o + t, b)
  <1>1. a \in TreeArrays
    <2>1. {"pos_slot_decoder", "pos_decoders", "align_decoder"} \subseteq TreeArrays
      BY DEF TreeArrays
    <2> QED BY <2>1, NamesIn DEF ArrayOf
  <1>2. o \in Int
    <2>1. LenStateOf(m) \in Nat
      BY DEF LenStateOf
    <2>2. r = "reverse" => PosOffset(s) \in Int
      BY OffsetInt
    <2> QED BY <2>1, <2>2 DEF OffsetOf
  <1>3. q \in Seq(CellReads)
    BY PrefixIs
  <1> HIDE DEF a, o, q
  <1>4. e \in CellReads
    <2>1. o + t \in Int
      BY <1>2
    <2> QED BY <1>1, <2>1, OneRead
  <1>5. TreeReads(a, o, t, i) \in Seq(CellReads)
    BY <1>1, <1>2, ReadsAre
  <1>6. TreeReads(a, o, 2 * t + b, i + 1) = Append(TreeReads(a, o, t, i), e)
    BY <1>1, <1>2, ReadsMore
  <1>7. Append(q \o TreeReads(a, o, t, i), e) = q \o Append(TreeReads(a, o, t, i), e)
    <2> DEFINE w == TreeReads(a, o, t, i)
    <2>1. w \in Seq(CellReads)
      BY <1>5
    <2> HIDE DEF e, w
    <2>2. Append(q \o w, e) = q \o Append(w, e)
      BY <1>3, <1>4, <2>1
    <2> QED BY <2>2 DEF w
  <1> QED BY <1>6, <1>7 DEF Trail, Adds, a, o, q, e

\* Agreed stays while nothing returns.
LEMMA AgreedStays ==
    ASSUME Agreed, UNCHANGED <<done, coder, ctx, match_len, slot>> PROVE Agreed'
  BY DEF Agreed

\* Before it is known which length decoder is in use, nothing is done.
LEMMA NoneAgrees ==
    ASSUME done.of = "none", Agreed, UNCHANGED <<done>> PROVE Agreed'
  BY DEF Agreed, CodedFor

\* What is agreed on, when a tree returns.
LEMMA AgreedAfter ==
    ASSUME NEW o, NEW w, NEW v, done' = [of |-> o, reads |-> w, value |-> v],
           UNCHANGED <<ctx, coder>>,
           w = CodedFor(o, v, coder, ctx.pos_state, match_len', slot')
    PROVE  Agreed'
  BY DEF Agreed

\* Where the walk is in its tree.
LEMMA TreeAt ==
    ASSUME WalkInv, reading \in TreesAt
    PROVE  /\ DepthOf(reading, slot) \in 1..8
           /\ NodeOf(DepthOf(reading, slot), left, tmp)
           /\ reading = "reverse" => slot \in 4..13 /\ DepthOf(reading, slot) \in 1..5
           /\ ctx.pos_state \in 0..15 /\ match_len \in 0..271 /\ coder \in {"len", "rep_len"}
  <1>1. ctx.pos_state \in 0..15 /\ match_len \in 0..271 /\ coder \in {"len", "rep_len"}
    BY ContextIs DEF WalkInv, BitsTypeOK
  <1>2. CASE reading = "reverse"
    <2>1. slot \in 4..13 /\ AtNode(num_direct_bits(slot))
      BY <1>2 DEF WalkInv, Placed
    <2>2. num_direct_bits(slot) \in 1..5
      BY <2>1, SlotLeaves
    <2>3. DepthOf(reading, slot) = num_direct_bits(slot)
      BY <1>2 DEF DepthOf
    <2> QED BY <1>1, <2>1, <2>2, <2>3 DEF AtNode
  <1>3. CASE reading # "reverse"
    <2>1. \/ reading \in {"low", "mid"} /\ AtNode(3)
          \/ reading = "high" /\ AtNode(8)
          \/ reading = "slot" /\ AtNode(6)
          \/ reading = "align" /\ AtNode(4)
      BY <1>3 DEF TreesAt, WalkInv, Placed
    <2> QED BY <1>1, <1>3, <2>1 DEF DepthOf, AtNode
  <1> QED BY <1>2, <1>3

\* After a bit of a tree what was read is what leads to the node.
LEMMA WalkedIs ==
    ASSUME WalkInv, TrailInv, reading \in TreesAt, NEW bit \in {0, 1},
           last' = Read(ArrayOf(reading, coder),
                        OffsetOf(reading, ctx.pos_state, match_len, slot) + tmp, bit)
    PROVE  /\ left \in 1..DepthOf(reading, slot)
           /\ Walked = Trail(reading, coder, ctx.pos_state, match_len, slot, Node(bit),
                             DepthOf(reading, slot) - left + 1)
  <1> DEFINE n == DepthOf(reading, slot)
             i == n - left
  <1>1. /\ n \in 1..8 /\ NodeOf(n, left, tmp)
        /\ reading = "reverse" => slot \in 4..13
        /\ ctx.pos_state \in 0..15 /\ match_len \in 0..271
    BY TreeAt
  <1>2. left \in 1..n /\ tmp \in Nat
    <2>1. left \in 1..n
      BY <1>1 DEF NodeOf
    <2>2. tmp \in Nat
      BY DEF WalkInv, BitsTypeOK
    <2> QED BY <2>1, <2>2
  <1>3. call = Trail(reading, coder, ctx.pos_state, match_len, slot, tmp, i)
    BY DEF TrailInv
  <1> HIDE DEF n
  <1>4. i \in 0..8
    BY <1>1, <1>2
  <1> HIDE DEF i
  <1>5. Append(Trail(reading, coder, ctx.pos_state, match_len, slot, tmp, i),
               Read(ArrayOf(reading, coder), OffsetOf(reading, ctx.pos_state, match_len, slot) + tmp, bit))
          = Trail(reading, coder, ctx.pos_state, match_len, slot, 2 * tmp + bit, i + 1)
    <2> DEFINE p == ctx.pos_state
               m == match_len
               t == tmp
               r == reading
               s == slot
               c == coder
    <2>1. /\ r \in TreesAt /\ p \in 0..15 /\ m \in 0..271 /\ t \in Nat /\ i \in 0..8
          /\ r = "reverse" => s \in 4..13
      BY <1>1, <1>2, <1>4
    <2> HIDE DEF p, m, t, r, s, c
    <2>2. Adds(Trail(r, c, p, m, s, t, i), Read(ArrayOf(r, c), OffsetOf(r, p, m, s) + t, bit),
               Trail(r, c, p, m, s, 2 * t + bit, i + 1))
      BY <2>1, TrailMore
    <2> QED BY <2>2 DEF Adds, p, m, t, r, s, c
  <1>6. Walked = Trail(reading, coder, ctx.pos_state, match_len, slot, Node(bit), i + 1)
    BY <1>3, <1>5 DEF Walked, Node
  <1> QED BY <1>2, <1>6 DEF n, i

\* A bit inside a tree goes one node down the path.
LEMMA InsideTrail ==
    ASSUME WalkInv, TrailInv, reading \in TreesAt, NEW bit \in {0, 1}, UNCHANGED <<ctx, coder>>,
           last' = Read(ArrayOf(reading, coder),
                        OffsetOf(reading, ctx.pos_state, match_len, slot) + tmp, bit),
           Inside(bit)
    PROVE  TrailInv'
  <1>1. /\ tmp' = Node(bit) /\ left' = left - 1 /\ call' = Walked
        /\ UNCHANGED <<reading, match_len, slot, done>>
    BY DEF Inside
  <1>2. left \in 1..DepthOf(reading, slot) /\ DepthOf(reading, slot) \in 1..8
    BY WalkedIs, TreeAt
  <1>3. DepthOf(reading, slot) - left' = DepthOf(reading, slot) - left + 1
    BY <1>1, <1>2
  <1>4. call' = Trail(reading', coder', ctx'.pos_state, match_len', slot', tmp',
                      DepthOf(reading', slot') - left')
    BY <1>1, <1>3, WalkedIs
  <1>5. Agreed'
    BY <1>1, AgreedStays DEF TrailInv
  <1>6. reading' \notin {"choice2", "is_match", "is_rep"}
    BY <1>1 DEF TreesAt
  <1> QED BY <1>4, <1>5, <1>6 DEF TrailInv

\* Nothing has been read of a tree that is entered.
LEMMA NothingRead == ASSUME NEW a, NEW o, NEW t PROVE TreeReads(a, o, t, 0) = <<>>
  BY DEF TreeReads

\* At its root the path of a tree is what comes before the tree.
LEMMA TrailStarts ==
    ASSUME NEW r, NEW c, NEW p, NEW m, NEW s, NEW t PROVE Trail(r, c, p, m, s, t, 0) = Prefix(r, c)
  <1>1. TreeReads(ArrayOf(r, c), OffsetOf(r, p, m, s), t, 0) = <<>>
    BY NothingRead
  <1>2. Prefix(r, c) \in Seq(CellReads)
    BY PrefixIs
  <1> QED BY <1>1, <1>2, ConcatEmptySeq DEF Trail

\* Bits outside the trees read nothing for one.
LEMMA FlagsTrail ==
    ASSUME WalkInv, TrailInv,
           \/ IsMatchBit \/ IsRepBit \/ IsRepG0Bit \/ IsRep0LongBit \/ IsRepG1Bit \/ IsRepG2Bit
           \/ LiteralBit
    PROVE  TrailInv'
  <1>1. CASE IsMatchBit
    <2>1. /\ reading = "is_match" /\ reading' \in {"literal", "is_rep"}
          /\ UNCHANGED <<done, coder, ctx, match_len, slot>>
      BY <1>1 DEF IsMatchBit, FlagBit
    <2>2. Agreed' /\ done'.of = "none"
      BY <2>1, AgreedStays DEF TrailInv
    <2> QED BY <2>1, <2>2 DEF TrailInv, TreesAt
  <1>2. CASE IsRepBit
    <2>1. /\ reading = "is_rep" /\ reading' \in {"choice", "is_rep_g0"} /\ UNCHANGED <<done>>
      BY <1>2 DEF IsRepBit, FlagBit
    <2>2. Agreed'
      BY <2>1, NoneAgrees DEF TrailInv
    <2> QED BY <2>1, <2>2 DEF TrailInv, TreesAt
  <1>3. CASE IsRepG0Bit \/ IsRep0LongBit \/ IsRepG1Bit \/ IsRepG2Bit \/ LiteralBit
    <2>1. /\ reading' \in {"literal", "is_rep_0long", "is_rep_g1", "is_rep_g2", "choice", "done"}
          /\ UNCHANGED <<done, coder, ctx, match_len, slot>>
      BY <1>3 DEF IsRepG0Bit, IsRep0LongBit, IsRepG1Bit, IsRepG2Bit, LiteralBit, FlagBit
    <2>2. Agreed'
      BY <2>1, AgreedStays DEF TrailInv
    <2> QED BY <2>1, <2>2 DEF TrailInv, TreesAt
  <1> QED BY <1>1, <1>2, <1>3

\* A second read after one.
LEMMA AppendOne == ASSUME NEW a, NEW b PROVE Adds(<<a>>, b, <<a, b>>)
  <1> DEFINE q == <<a>>
             y == <<a, b>>
             S == {a, b}
  <1>1. q \in Seq(S) /\ a \in S /\ b \in S /\ Len(q) = 1 /\ q[1] = a
    OBVIOUS
  <1>2. y \in Seq(S) /\ Len(y) = 2 /\ y[1] = a /\ y[2] = b
    OBVIOUS
  <1> HIDE DEF q, y, S
  <1>3. /\ Append(q, b) \in Seq(S) /\ Len(Append(q, b)) = 2
        /\ Append(q, b)[2] = b /\ Append(q, b)[1] = a
    BY <1>1
  <1> DEFINE x == Append(q, b)
  <1> HIDE DEF x
  <1>4. x \in Seq(S) /\ \A i \in 1..Len(x) : x[i] = y[i]
    BY <1>2, <1>3 DEF x
  <1>5. x = y
    BY <1>2, <1>3, <1>4, SeqEqual DEF x
  <1> QED BY <1>5 DEF Adds, x, y, q

\* choice and choice2 are what comes before the tree of a length.
LEMMA ChoicesTrail == ASSUME WalkInv, TrailInv, LenChoice \/ LenChoice2 PROVE TrailInv'
  <1>1. CASE LenChoice
    <2>1. PICK bit \in {0, 1} : /\ ReadBit(Choice, 0, bit)
                                /\ reading' = (IF bit = 0 THEN "low" ELSE "choice2")
                                /\ call' = <<last'>>
      BY <1>1 DEF LenChoice
    <2>2. /\ tmp' = 1 /\ left' = 3 /\ UNCHANGED <<ctx, coder, match_len, slot, done>>
          /\ call' = <<Read(ChoiceOf(coder), 0, bit)>>
      BY <1>1, <2>1, NamesAre DEF LenChoice, ReadBit
    <2>3. Agreed'
      BY <2>2, AgreedStays DEF TrailInv
    <2>4. CASE bit = 0
      <3>1. reading' = "low" /\ DepthOf(reading', slot') - left' = 0
        BY <2>1, <2>2, <2>4 DEF DepthOf
      <3>2. call' = Trail(reading', coder', ctx'.pos_state, match_len', slot', tmp', 0)
        BY <2>2, <2>4, <3>1, TrailStarts DEF Prefix
      <3> QED BY <2>3, <3>1, <3>2 DEF TrailInv
    <2>5. CASE bit = 1
      BY <2>1, <2>2, <2>3, <2>5 DEF TrailInv, TreesAt
    <2> QED BY <2>4, <2>5
  <1>2. CASE LenChoice2
    <2>1. PICK bit \in {0, 1} : /\ ReadBit(Choice2, 0, bit) /\ call' = Append(call, last')
                                /\ \/ bit = 0 /\ reading' = "mid" /\ left' = 3
                                   \/ bit = 1 /\ reading' = "high" /\ left' = 8
      BY <1>2 DEF LenChoice2
    <2>2. /\ UNCHANGED <<ctx, coder, match_len, slot, done>>
          /\ call' = <<Read(ChoiceOf(coder), 0, 1), Read(Choice2Of(coder), 0, bit)>>
      <3>1. call = <<Read(ChoiceOf(coder), 0, 1)>> /\ last' = Read(Choice2Of(coder), 0, bit)
        BY <1>2, <2>1, NamesAre DEF LenChoice2, ReadBit, TrailInv
      <3>2. call' = Append(<<Read(ChoiceOf(coder), 0, 1)>>, Read(Choice2Of(coder), 0, bit))
        BY <2>1, <3>1
      <3>3. call' = <<Read(ChoiceOf(coder), 0, 1), Read(Choice2Of(coder), 0, bit)>>
        BY <3>2, AppendOne DEF Adds
      <3> QED BY <1>2, <3>3 DEF LenChoice2
    <2>3. Agreed'
      BY <2>2, AgreedStays DEF TrailInv
    <2>4. /\ reading' \in {"mid", "high"} /\ DepthOf(reading', slot') - left' = 0
          /\ call' = Prefix(reading', coder')
      BY <2>1, <2>2 DEF DepthOf, Prefix
    <2>5. call' = Trail(reading', coder', ctx'.pos_state, match_len', slot', tmp', 0)
      BY <2>4, TrailStarts
    <2> QED BY <2>3, <2>4, <2>5 DEF TrailInv
  <1> QED BY <1>1, <1>2

\* A reverse tree gives the value that its encoder would have coded.
LEMMA ReverseAgrees ==
    ASSUME NEW a \in TreeArrays, NEW o \in Int, NEW n \in 1..5, NEW t \in Pow2(n)..(2 * Pow2(n) - 1)
    PROVE  encode_reverse_bit_tree(a, o, n, Reversed(TreeReads(a, o, t, n))) = TreeReads(a, o, t, n)
  <1> DEFINE w == TreeReads(a, o, t, n)
             c == [i \in 1..n |-> (t \div Pow2(n - i)) % 2]
  <1>1. n \in Nat /\ n \in 1..8 /\ t \in Nat
    <2>1. n \in Nat /\ n \in 1..8
      OBVIOUS
    <2>2. Pow2(n) \in Nat
      BY <2>1, PowerPositive
    <2> QED BY <2>1, <2>2
  <1>2. HasLength(w, n)
    BY <1>1, ReadsAre DEF HasLength
  <1>3. c \in [1..n -> {0, 1}]
    <2>1. ASSUME NEW i \in 1..n PROVE (t \div Pow2(n - i)) % 2 \in {0, 1}
      <3>1. n - i \in Nat
        OBVIOUS
      <3> QED BY <1>1, <3>1, QuotientIs
    <2> QED BY <2>1
  <1>4. \A i \in 1..n : c[i] = (t \div Pow2(n - i)) % 2
    OBVIOUS
  <1>5. \A i \in 1..n : w[i].bit = c[i]
    BY DEF TreeReads, Read
  <1> HIDE DEF w, c
  <1>6. PICK f \in [0..n -> Nat] : SumOf(f, c, n) /\ Reversed(w) = f[n]
    BY <1>1, <1>2, <1>3, <1>5, ReversedIs
  <1>7. f[n] \in Nat /\ \A i \in 1..n : (f[n] \div Pow2(i - 1)) % 2 = c[i]
    BY <1>3, <1>6, BitsBack
  <1> DEFINE v == f[n]
  <1>8. v \in Nat /\ \A i \in 1..n : (v \div Pow2(i - 1)) % 2 = (t \div Pow2(n - i)) % 2
    BY <1>4, <1>7
  <1> HIDE DEF v
  <1>9. encode_reverse_bit_tree(a, o, n, v) = TreeReads(a, o, t, n)
    BY <1>1, <1>8, EncodesReverse
  <1>10. Reversed(w) = v
    BY <1>6 DEF v
  <1> QED BY <1>9, <1>10 DEF w

\* A tree that is entered has read nothing.
LEMMA EntersTrail ==
    ASSUME call' = <<>>, reading' \in {"slot", "reverse", "align"}, left' \in Nat,
           left' = DepthOf(reading', slot')
    PROVE  call' = Trail(reading', coder', ctx'.pos_state, match_len', slot', tmp',
                         DepthOf(reading', slot') - left')
  <1>1. DepthOf(reading', slot') - left' = 0
    OBVIOUS
  <1>2. Prefix(reading', coder') = <<>>
    BY DEF Prefix
  <1> QED BY <1>1, <1>2, TrailStarts

\* The last node of a tree.
LEMMA LeafIs ==
    ASSUME WalkInv, TrailInv, reading \in TreesAt, left = 1, NEW bit \in {0, 1},
           last' = Read(ArrayOf(reading, coder),
                        OffsetOf(reading, ctx.pos_state, match_len, slot) + tmp, bit)
    PROVE  /\ Node(bit) \in Pow2(DepthOf(reading, slot))..(2 * Pow2(DepthOf(reading, slot)) - 1)
           /\ Walked = Trail(reading, coder, ctx.pos_state, match_len, slot, Node(bit),
                             DepthOf(reading, slot))
  <1> DEFINE n == DepthOf(reading, slot)
  <1>1. n \in 1..8 /\ NodeOf(n, left, tmp)
    BY TreeAt
  <1>2. n - left + 1 = n
    BY <1>1
  <1>3. Walked = Trail(reading, coder, ctx.pos_state, match_len, slot, Node(bit), n)
    BY <1>2, WalkedIs
  <1>4. Node(bit) \in Pow2(n)..(2 * Pow2(n) - 1)
    <2> DEFINE t == tmp
               l == left
    <2>1. NodeOf(n, l, t) /\ l = 1 /\ Node(bit) = 2 * t + bit
      BY <1>1 DEF Node
    <2> HIDE DEF t, l, n
    <2>2. 2 * t + bit \in Pow2(n)..(2 * Pow2(n) - 1)
      BY <1>1, <2>1, NodeIs
    <2> QED BY <2>1, <2>2
  <1> QED BY <1>3, <1>4

\* A length that returns is one that LenEncoder::encode takes apart as it was read.
LEMMA LengthTrail ==
    ASSUME WalkInv, TrailInv, NEW bit \in {0, 1}, NEW first, NEW n, UNCHANGED <<ctx, coder>>,
           \/ reading = "low" /\ first = 0 /\ n = 3
           \/ reading = "mid" /\ first = 8 /\ n = 3
           \/ reading = "high" /\ first = 16 /\ n = 8,
           last' = Read(ArrayOf(reading, coder),
                        OffsetOf(reading, ctx.pos_state, match_len, slot) + tmp, bit),
           Length(first, n, bit)
    PROVE  TrailInv'
  <1> DEFINE v == Node(bit) - Pow2(n)
             c == coder
             p == ctx.pos_state
             a == ArrayOf(reading, c)
             o == OffsetOf(reading, p, match_len, slot)
  <1>1. /\ left = 1 /\ match_len' = first + v
        /\ done' = [of |-> reading, reads |-> Walked, value |-> match_len']
        /\ reading' \in {"slot", "done"} /\ tmp' = 1 /\ left' = 6 /\ call' = <<>> /\ slot' = slot
    BY DEF Length, Yields, Enters
  <1>2. reading \in TreesAt /\ DepthOf(reading, slot) = n /\ n \in 1..8 /\ p \in 0..15
    <2>1. reading \in TreesAt /\ DepthOf(reading, slot) = n /\ n \in 1..8
      BY DEF TreesAt, DepthOf
    <2> QED BY <2>1, TreeAt
  <1>3. /\ Node(bit) \in Pow2(n)..(2 * Pow2(n) - 1)
        /\ Walked = Trail(reading, c, p, match_len, slot, Node(bit), n)
    BY <1>1, <1>2, LeafIs
  <1>4. v \in Nat /\ Pow2(n) + v = Node(bit) /\ (n = 3 => v < 8)
    <2>1. Pow2(n) \in Nat /\ (n = 3 => Pow2(n) = 8)
      BY <1>2, PowerPositive, SmallPowers
    <2> QED BY <1>3, <2>1
  <1>5. a \in TreeArrays /\ o \in Int
    <2>1. a \in TreeArrays
      BY NamesIn DEF ArrayOf
    <2>2. o \in Int
      BY <1>2 DEF OffsetOf
    <2> QED BY <2>1, <2>2
  <1>6. Walked = Prefix(reading, c) \o encode_bit_tree(a, o, n, v)
    <2>1. Walked = Prefix(reading, c) \o TreeReads(a, o, Node(bit), n)
      BY <1>3 DEF Trail
    <2> HIDE DEF a, o, v
    <2>2. encode_bit_tree(a, o, n, v) = TreeReads(a, o, Pow2(n) + v, n)
      BY <1>2, <1>4, <1>5, EncodesTree
    <2> QED BY <1>4, <2>1, <2>2
  <1> HIDE DEF v
  <1>7. Walked = LengthReads(c, p, match_len')
    <2>1. CASE reading = "low"
      <3>1. first = 0 /\ n = 3 /\ a = LowOf(c) /\ o = 8 * p /\ match_len' = v /\ v < 8
        BY <1>1, <1>4, <2>1 DEF ArrayOf, OffsetOf
      <3>2. Prefix(reading, c) = <<Read(ChoiceOf(c), 0, 0)>>
        BY <2>1 DEF Prefix
      <3> QED BY <1>6, <3>1, <3>2 DEF LengthReads
    <2>2. CASE reading = "mid"
      <3>1. first = 8 /\ n = 3 /\ a = MidOf(c) /\ o = 8 * p /\ match_len' = 8 + v /\ v < 8
        BY <1>1, <1>4, <2>2 DEF ArrayOf, OffsetOf
      <3>2. Prefix(reading, c) = <<Read(ChoiceOf(c), 0, 1), Read(Choice2Of(c), 0, 0)>>
        BY <2>2 DEF Prefix
      <3>3. ~ (match_len' < 8) /\ match_len' < 16 /\ match_len' - 8 = v
        BY <1>4, <3>1
      <3> QED BY <1>6, <3>1, <3>2, <3>3 DEF LengthReads
    <2>3. CASE reading = "high"
      <3>1. first = 16 /\ n = 8 /\ a = HighOf(c) /\ o = 0 /\ match_len' = 16 + v
        BY <1>1, <1>4, <2>3 DEF ArrayOf, OffsetOf
      <3>2. Prefix(reading, c) = <<Read(ChoiceOf(c), 0, 1), Read(Choice2Of(c), 0, 1)>>
        BY <2>3 DEF Prefix
      <3>3. ~ (match_len' < 8) /\ ~ (match_len' < 16) /\ match_len' - 16 = v
        BY <1>4, <3>1
      <3> QED BY <1>6, <3>1, <3>2, <3>3 DEF LengthReads
    <2> QED BY <2>1, <2>2, <2>3
  <1>8. Agreed'
    <2>1. Walked = CodedFor(reading, match_len', coder, ctx.pos_state, match_len', slot')
      BY <1>7 DEF CodedFor
    <2> QED BY <1>1, <2>1, AgreedAfter
  <1>9. reading' = "slot" => left' \in Nat /\ left' = DepthOf(reading', slot')
    BY <1>1 DEF DepthOf
  <1> QED BY <1>1, <1>8, <1>9, EntersTrail DEF TrailInv, TreesAt

LEMMA LengthsTrail == ASSUME WalkInv, TrailInv, LenLow \/ LenMid \/ LenHigh PROVE TrailInv'
  <1>1. PICK first, n : \E bit \in {0, 1} :
           /\ \/ reading = "low" /\ first = 0 /\ n = 3
              \/ reading = "mid" /\ first = 8 /\ n = 3
              \/ reading = "high" /\ first = 16 /\ n = 8
           /\ UNCHANGED <<ctx, coder>>
           /\ last' = Read(ArrayOf(reading, coder),
                           OffsetOf(reading, ctx.pos_state, match_len, slot) + tmp, bit)
           /\ Inside(bit) \/ Length(first, n, bit)
    <2>1. CASE LenLow
      BY <2>1, NamesAre DEF LenLow, TreeBit, ReadBit, ArrayOf, OffsetOf
    <2>2. CASE LenMid
      BY <2>2, NamesAre DEF LenMid, TreeBit, ReadBit, ArrayOf, OffsetOf
    <2>3. CASE LenHigh
      BY <2>3, NamesAre DEF LenHigh, TreeBit, ReadBit, ArrayOf, OffsetOf
    <2> QED BY <2>1, <2>2, <2>3
  <1>2. reading \in TreesAt
    BY <1>1 DEF TreesAt
  <1> QED BY <1>1, <1>2, InsideTrail, LengthTrail

\* So is a slot, by encode_bit_tree.
LEMMA SlotEndsTrail ==
    ASSUME WalkInv, TrailInv, WalkInv', NEW bit \in {0, 1}, UNCHANGED <<ctx, coder>>,
           reading = "slot",
           last' = Read(ArrayOf(reading, coder),
                        OffsetOf(reading, ctx.pos_state, match_len, slot) + tmp, bit),
           SlotEnds(Node(bit) - 64)
    PROVE  TrailInv'
  <1> DEFINE s == Node(bit) - 64
             o == 64 * LenStateOf(match_len)
  <1>1. /\ left = 1 /\ slot' = s /\ match_len' = match_len
        /\ done' = [of |-> reading, reads |-> Walked, value |-> s] /\ call' = <<>>
        /\ \/ s < 4 /\ reading' = "done"
           \/ s \in 4..13 /\ reading' = "reverse" /\ left' = num_direct_bits(s)
           \/ s >= 14 /\ reading' = "direct"
    BY DEF SlotEnds, Yields, Enters
  <1>2. reading \in TreesAt /\ DepthOf(reading, slot) = 6
    BY DEF TreesAt, DepthOf
  <1>3. /\ Node(bit) \in Pow2(6)..(2 * Pow2(6) - 1)
        /\ Walked = Trail(reading, coder, ctx.pos_state, match_len, slot, Node(bit), 6)
    BY <1>1, <1>2, LeafIs
  <1>4. s \in Nat /\ Pow2(6) + s = Node(bit)
    BY <1>3, SmallPowers
  <1>5. o \in Int /\ "pos_slot_decoder" \in TreeArrays
    <2>1. match_len \in 0..271
      BY DEF WalkInv, BitsTypeOK
    <2> QED BY <2>1 DEF LenStateOf, TreeArrays
  <1>6. /\ Prefix(reading, coder) = <<>> /\ ArrayOf(reading, coder) = "pos_slot_decoder"
        /\ OffsetOf(reading, ctx.pos_state, match_len, slot) = o
    BY DEF Prefix, ArrayOf, OffsetOf
  <1> HIDE DEF s, o
  <1>7. Walked = encode_bit_tree("pos_slot_decoder", o, 6, s)
    <2>1. Walked = <<>> \o TreeReads("pos_slot_decoder", o, Node(bit), 6)
      BY <1>3, <1>6 DEF Trail
    <2>2. encode_bit_tree("pos_slot_decoder", o, 6, s) = TreeReads("pos_slot_decoder", o, Pow2(6) + s, 6)
      BY <1>4, <1>5, EncodesTree
    <2> DEFINE w == TreeReads("pos_slot_decoder", o, Pow2(6) + s, 6)
    <2>3. w \in Seq(CellReads)
      <3>1. Pow2(6) + s \in Nat /\ 6 \in Nat
        BY <1>4, SmallPowers
      <3> QED BY <1>5, <3>1, ReadsAre
    <2> HIDE DEF w
    <2>4. <<>> \o w = w
      BY <2>3, ConcatEmptySeq
    <2> QED BY <1>4, <2>1, <2>2, <2>4 DEF w
  <1>8. Agreed'
    <2>1. Walked = CodedFor(reading, s, coder, ctx.pos_state, match_len', slot')
      BY <1>1, <1>7 DEF CodedFor, o
    <2> QED BY <1>1, <2>1, AgreedAfter
  <1>9. reading' = "reverse" => left' \in Nat /\ left' = DepthOf(reading', slot')
    <2>1. s \in 4..13 => num_direct_bits(s) \in Nat
      BY SlotLeaves
    <2> QED BY <1>1, <2>1 DEF DepthOf
  <1> QED BY <1>1, <1>8, <1>9, EntersTrail DEF TrailInv, TreesAt

\* And so are the bits of a reverse tree, by encode_reverse_bit_tree.
LEMMA LastTreeTrail ==
    ASSUME WalkInv, TrailInv, NEW bit \in {0, 1}, UNCHANGED <<ctx, coder>>,
           reading \in {"reverse", "align"},
           last' = Read(ArrayOf(reading, coder),
                        OffsetOf(reading, ctx.pos_state, match_len, slot) + tmp, bit),
           LastTree
    PROVE  TrailInv'
  <1> DEFINE n == DepthOf(reading, slot)
             a == ArrayOf(reading, coder)
             o == OffsetOf(reading, ctx.pos_state, match_len, slot)
             t == Node(bit)
             w == TreeReads(a, o, t, n)
  <1>1. /\ left = 1 /\ UNCHANGED <<match_len, slot>> /\ reading' = "done"
        /\ done' = [of |-> reading, reads |-> Walked, value |-> Reversed(Walked)]
    BY DEF LastTree, Yields
  <1>2. reading \in TreesAt
    BY DEF TreesAt
  <1>3. /\ t \in Pow2(n)..(2 * Pow2(n) - 1)
        /\ Walked = Trail(reading, coder, ctx.pos_state, match_len, slot, t, n)
    BY <1>1, <1>2, LeafIs
  <1>4. n \in 1..5 /\ a \in TreeArrays /\ o \in Int
    <2>1. reading = "reverse" => slot \in 4..13 /\ n \in 1..5
      BY <1>2, TreeAt
    <2>2. reading = "reverse" => PosOffset(slot) \in Int
      BY <2>1, OffsetInt
    <2>3. reading = "align" => n = 4
      BY DEF DepthOf
    <2> QED BY <2>1, <2>2, <2>3 DEF ArrayOf, OffsetOf, TreeArrays
  <1>5. Walked = w
    <2>1. Prefix(reading, coder) = <<>>
      BY DEF Prefix
    <2>2. Walked = <<>> \o w
      BY <1>3, <2>1 DEF Trail
    <2>3. w \in Seq(CellReads)
      <3>1. n \in Nat
        BY <1>4
      <3>2. t \in Nat
        <4>1. Pow2(n) \in Nat
          BY <3>1, PowerPositive
        <4> QED BY <1>3, <4>1
      <3> HIDE DEF n, a, o, t
      <3> QED BY <1>4, <3>1, <3>2, ReadsAre
    <2> HIDE DEF w
    <2>4. <<>> \o w = w
      BY <2>3, ConcatEmptySeq
    <2> QED BY <2>2, <2>4
  <1>6. encode_reverse_bit_tree(a, o, n, Reversed(w)) = w
    <2> HIDE DEF n, a, o, t
    <2> QED BY <1>3, <1>4, ReverseAgrees
  <1> HIDE DEF w
  <1>7. Walked = CodedFor(reading, Reversed(Walked), coder, ctx.pos_state, match_len', slot')
    <2>1. CASE reading = "reverse"
      <3>1. a = "pos_decoders" /\ o = PosOffset(slot) /\ n = num_direct_bits(slot) /\ slot' = slot
        BY <1>1, <2>1 DEF ArrayOf, OffsetOf, DepthOf
      <3> HIDE DEF a, o, n
      <3> QED BY <1>5, <1>6, <2>1, <3>1 DEF CodedFor
    <2>2. CASE reading = "align"
      <3>1. a = "align_decoder" /\ o = 0 /\ n = 4
        BY <2>2 DEF ArrayOf, OffsetOf, DepthOf
      <3> HIDE DEF a, o, n
      <3> QED BY <1>5, <1>6, <2>2, <3>1 DEF CodedFor
    <2> QED BY <2>1, <2>2
  <1>8. Agreed'
    BY <1>1, <1>7, AgreedAfter
  <1> QED BY <1>1, <1>8 DEF TrailInv, TreesAt

LEMMA DistanceTrail ==
    ASSUME WalkInv, TrailInv, WalkInv', Slot \/ Reverse \/ Align \/ Direct PROVE TrailInv'
  <1>1. CASE Slot
    <2>1. reading = "slot" /\ reading \in TreesAt
      BY <1>1 DEF Slot, TreesAt
    <2>2. PICK bit \in {0, 1} :
             /\ UNCHANGED <<ctx, coder>>
             /\ last' = Read(ArrayOf(reading, coder),
                             OffsetOf(reading, ctx.pos_state, match_len, slot) + tmp, bit)
             /\ Inside(bit) \/ SlotEnds(Node(bit) - 64)
      BY <1>1, <2>1, NamesAre DEF Slot, TreeBit, ReadBit, ArrayOf, OffsetOf
    <2> QED BY <2>1, <2>2, InsideTrail, SlotEndsTrail
  <1>2. CASE Reverse
    <2>1. reading \in {"reverse", "align"} /\ reading = "reverse" /\ reading \in TreesAt
      BY <1>2 DEF Reverse, TreesAt
    <2>2. PICK bit \in {0, 1} :
             /\ UNCHANGED <<ctx, coder>>
             /\ last' = Read(ArrayOf(reading, coder),
                             OffsetOf(reading, ctx.pos_state, match_len, slot) + tmp, bit)
             /\ Inside(bit) \/ LastTree
      BY <1>2, <2>1 DEF Reverse, TreeBit, ReadBit, ArrayOf, OffsetOf
    <2> QED BY <2>1, <2>2, InsideTrail, LastTreeTrail
  <1>3. CASE Align
    <2>1. reading \in {"reverse", "align"} /\ reading = "align" /\ reading \in TreesAt
      BY <1>3 DEF Align, TreesAt
    <2>2. PICK bit \in {0, 1} :
             /\ UNCHANGED <<ctx, coder>>
             /\ last' = Read(ArrayOf(reading, coder),
                             OffsetOf(reading, ctx.pos_state, match_len, slot) + tmp, bit)
             /\ Inside(bit) \/ LastTree
      BY <1>3, <2>1 DEF Align, TreeBit, ReadBit, ArrayOf, OffsetOf
    <2> QED BY <2>1, <2>2, InsideTrail, LastTreeTrail
  <1>4. CASE Direct
    <2>1. /\ UNCHANGED <<ctx, coder, match_len, slot, done>>
          /\ \/ reading' = "align" /\ left' = 4 /\ call' = <<>>
             \/ reading' = "direct"
      BY <1>4 DEF Direct, Enters
    <2>2. Agreed'
      BY <2>1, AgreedStays DEF TrailInv
    <2>3. reading' = "align" => left' \in Nat /\ left' = DepthOf(reading', slot')
      BY <2>1 DEF DepthOf
    <2> QED BY <2>1, <2>2, <2>3, EntersTrail DEF TrailInv, TreesAt
  <1> QED BY <1>1, <1>2, <1>3, <1>4

\* Every bit keeps TrailInv.
LEMMA StepTrail == ASSUME WalkInv, WalkInv', TrailInv, [BitNext]_bitVars PROVE TrailInv'
  <1>1. CASE UNCHANGED bitVars
    BY <1>1 DEF bitVars, TrailInv, Agreed
  <1> QED BY <1>1, FlagsTrail, ChoicesTrail, LengthsTrail, DistanceTrail DEF BitNext

LEMMA InitTrail == ASSUME BitInit PROVE TrailInv
  BY DEF BitInit, TrailInv, TreesAt, Agreed, CodedFor

\* EncoderAgrees is an invariant.
LEMMA AgreesHolds == BitSpec => []EncoderAgrees
  <1>1. WalkInv /\ WalkInv' /\ TrailInv /\ [BitNext]_bitVars => TrailInv'
    BY StepTrail
  <1>2. BitInit => TrailInv
    BY InitTrail
  <1>3. TrailInv => EncoderAgrees
    BY AgreedIs DEF TrailInv
  <1> QED BY <1>1, <1>2, <1>3, WalkHolds, PTL DEF BitSpec

-----------------------------------------------------------------------------
(* The properties of the bits of a symbol *)

\* The variables of the walk have their types, and range stays at 0x0100_0000
\* or above with one byte at most after each bit: the decoder shifts it once.
THEOREM BitsTypeCorrect == BitSpec => []BitsTypeOK
  BY WalkHolds, PTL DEF WalkInv

\* Every bit is read in a cell of its array, the bits of a literal in its row,
\* and in pos_decoders no slot reads the cell of another, whatever the
\* properties, the state and the bits are.
THEOREM CellsAlwaysOwn == BitSpec => []CellsOwn
  BY CellsHold

\* No symbol takes more than MAX_REQUIRED_INPUT bytes, from whatever range, with
\* whatever probabilities: process_mode may decode it without a dry run.
THEOREM AlwaysFits == BitSpec => []FitsRequired
  BY FitsHolds

\* What the decoder has read for a length, a slot or the bits of a tree read
\* backwards is what the encoder of it would write for the value returned.
THEOREM EncodersAlwaysAgree == BitSpec => []EncoderAgrees
  BY AgreesHolds

=============================================================================
