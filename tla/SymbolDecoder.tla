---------------------------- MODULE SymbolDecoder ----------------------------
(***************************************************************************)
(* DecoderState::process_next_inner, the decoding of one symbol: a literal *)
(* or a match, bit after bit, each bit in a context, which is a cell of    *)
(* one of the probability arrays.  The same code is first run dry, on the  *)
(* bytes there are and without updating anything (try_process_next), and   *)
(* then in earnest (process_next).                                         *)
(*                                                                         *)
(* What a bit is, the compressed bytes decide: here it is arbitrary, but   *)
(* a run that follows a dry run on the same bytes reads the same bit as    *)
(* long as it has read the same bits in the same contexts, and the cell    *)
(* has not been updated since.  The window holds the first len bytes of a  *)
(* text that is fixed from the start, and the bits spell what comes next;  *)
(* when the window is emptied, the text that is left goes on.              *)
(*                                                                         *)
(* Between two symbols the window may change under the decoder: LZMA2 has  *)
(* uncompressed chunks, and resets of the dictionary with the state reset  *)
(* or kept; a raw decoder may be given another input.  Then the LRU speaks *)
(* of a window that is gone, and the decoder is stale until its state is   *)
(* reset.  A stream does none of this.                                     *)
(***************************************************************************)
EXTENDS Sequences, Powers

CONSTANTS
    Lc, Lp, Pb,     \* lzma_props
    LitBits,        \* bits of a literal (8)
    PosBits,        \* the largest pb (4)
    LowBits,        \* bits of the short lengths (3)
    HighBits,       \* bits of the long lengths (8)
    SlotBits,       \* bits of a distance slot (6)
    EndSlot,        \* from this slot on, distances have direct bits (14)
    AlignBits,      \* their low bits, which have not (4)
    DictSize,       \* the largest distance the window serves
    Texts,          \* bound: the outputs considered
    WindowMayFail   \* the window may refuse a byte (memlimit, sink)

Byte == 0..(Pow2(LitBits) - 1)

ASSUME PropsAssumption ==
    /\ Lc \in 0..LitBits /\ Lp \in Nat /\ Pb \in 0..PosBits
    /\ LitBits \in Nat \ {0} /\ PosBits \in Nat
ASSUME DistanceAssumption ==
    /\ SlotBits \in Nat \ {0} /\ EndSlot \in Nat /\ AlignBits \in Nat
    /\ AlignBits <= (EndSlot \div 2) - 1   \* there are that many bits
ASSUME LengthAssumption == LowBits \in Nat /\ HighBits \in Nat
ASSUME WindowAssumption ==
    /\ DictSize \in Nat \ {0}
    /\ Texts \subseteq Seq(Byte)
    /\ WindowMayFail \in BOOLEAN

VARIABLES
    text,      \* the output, from the first byte the window holds on
    state,     \* state
    rep,       \* rep[0], rep[1], rep[2], rep[3]
    len,       \* output.len()
    mode,      \* "try" (update is false) or "real": the last run, or this one
    pc,        \* what the run is about to decode, or "idle"
    length,    \* the length the run has decoded
    trace,     \* the bits the run has read, each with its context
    foreseen,  \* those of the dry run before it, if it succeeded
    told,      \* it did
    stale,     \* the window was emptied, and the state has not been reset since
    ended,     \* an end marker was found at the end of the input: code is 0
    status,    \* "open", or why a real run failed
    hist       \* history: the kinds of the last four symbols, latest first

run  == <<mode, pc, length, trace, foreseen, told>>
vars == <<text, state, rep, len, stale, ended, status, hist, run>>

-----------------------------------------------------------------------------
(* Bit trees *)

Bit == {0, 1}
Bits(n) == [1..n -> Bit]

\* The node of the tree before each bit of s, and after the last one.
Nodes(s) ==
    LET tmp[i \in 0..Len(s)] == IF i = 0 THEN 1 ELSE 2 * tmp[i - 1] + s[i]
    IN  tmp

\* Where the bits of s lead below the root of a tree.
TreeValue(s) == Nodes(s)[Len(s)] - Pow2(Len(s))

\* The same bits, the lowest first.
ReverseValue(s) ==
    LET sum[i \in 0..Len(s)] == IF i = 0 THEN 0 ELSE sum[i - 1] + s[i] * Pow2(i - 1)
    IN  sum[Len(s)]

\* A cell of the symbol decoder, or of one of its two length decoders.
Cell(array, i) == [of |-> "lzma", array |-> array, at |-> i]

LenCell(coder, array, i) == [of |-> coder, array |-> array, at |-> i]

\* The cells a tree reads for s, where the first of its array is root.
TreeCells(root, s) ==
    [i \in 1..Len(s) |-> [root EXCEPT !.at = @ + Nodes(s)[i - 1]]]

-----------------------------------------------------------------------------
(* Runs *)

Init ==
    /\ text \in Texts
    /\ state = 0 /\ rep = <<0, 0, 0, 0>> /\ len = 0
    /\ mode = "real" /\ pc = "idle" /\ length = 0
    /\ trace = <<>> /\ foreseen = <<>> /\ told = FALSE
    /\ stale = FALSE /\ ended = FALSE /\ status = "open"
    /\ hist = <<"lit", "lit", "lit", "lit">>

update == mode = "real"

Begins(m, known) ==
    /\ pc = "idle" /\ status = "open"
    /\ mode' = m /\ pc' = "is_match" /\ length' = 0
    /\ trace' = <<>> /\ told' = known
    /\ foreseen' = IF known THEN foreseen ELSE <<>>
    /\ UNCHANGED <<text, state, rep, len, stale, ended, status, hist>>

\* try_process_next; once it has succeeded, process_next comes next.
Try == ~(mode = "try" /\ told) /\ Begins("try", FALSE)

\* process_next, after a dry run or on a buffer that is long enough.
Process == Begins("real", mode = "try" /\ told)

\* The range decoder answers as in the dry run as far as it can know.
Determined(t) ==
    \A k \in 1..Len(t) :
        /\ k <= Len(foreseen)
        /\ \A j \in 1..(k - 1) : t[j] = foreseen[j] /\ t[j].cell # t[k].cell
        /\ t[k].cell = foreseen[k].cell
        => t[k].bit = foreseen[k].bit

\* The bits s are read in the cells c.
Reads(c, s) ==
    /\ trace' = trace \o [i \in 1..Len(c) |-> [cell |-> c[i], bit |-> s[i]]]
    /\ told => Determined(trace')

Flag(array, i, b) == Reads(<<Cell(array, i)>>, <<b>>)

Goes(next) ==
    pc' = next /\ UNCHANGED <<mode, foreseen, told, stale, ended, status>>

\* The run returns Ok.
Succeeds ==
    /\ pc' = "idle"
    /\ IF update THEN UNCHANGED <<foreseen, told>>
                 ELSE foreseen' = trace' /\ told' = TRUE
    /\ UNCHANGED <<mode, stale, ended, status>>

\* The run returns an error.
Fails(why) ==
    /\ pc' = "idle"
    /\ IF update THEN status' = why /\ UNCHANGED <<foreseen, told>>
                 ELSE UNCHANGED <<foreseen, told, status>>
    /\ UNCHANGED <<mode, stale, ended>>

\* The input ends before the bits do.
Short ==
    /\ pc # "idle"
    /\ told => trace # SubSeq(foreseen, 1, Len(trace)) \/ trace = foreseen
    /\ Fails("short")
    /\ UNCHANGED <<text, state, rep, len, length, trace, hist>>

-----------------------------------------------------------------------------
(* The window *)

TooFar(dist) == dist > DictSize \/ dist > len

\* The text goes on as a match of n bytes at dist says, if it can be copied.
Spelt(n, dist) ==
    ~TooFar(dist) => /\ len + n <= Len(text)
                     /\ \A i \in 1..n : text[len + i] = text[len + i - dist]

Latest(kind) == <<kind, hist[1], hist[2], hist[3]>>

\* A literal or a match is appended, or the window refuses it.
Appends(n, kind) ==
    \/ len' = len + n /\ hist' = Latest(kind) /\ Succeeds
    \/ WindowMayFail /\ Fails("window") /\ UNCHANGED <<len, hist>>

Copies(n, dist, kind) ==
    IF TooFar(dist) THEN Fails("distance") /\ UNCHANGED <<len, hist>>
                    ELSE Appends(n, kind)

-----------------------------------------------------------------------------
(* Literals *)

pos_state == len % Pow2(Pb)

last_or == IF len = 0 THEN 0 ELSE text[len]

lit_state == (len % Pow2(Lp)) * Pow2(Lc) + (last_or \div Pow2(LitBits - Lc))

\* The bits of a byte, the highest first.
Spelling(byte) == [i \in 1..LitBits |-> (byte \div Pow2(LitBits - i)) % 2]

\* The cells of a literal's bits s; after a match, the bits of the byte it
\* would have copied choose the cells until one differs.
LiteralCells(s, matched) ==
    LET m == Spelling(IF matched THEN text[len - rep[1]] ELSE 0)
        Agrees(i) == matched /\ \A j \in 1..(i - 1) : s[j] = m[j]
    IN  [i \in 1..LitBits |->
            Cell("literal_probs",
                 lit_state * 3 * Pow2(LitBits) + Nodes(s)[i - 1]
                   + IF Agrees(i) THEN (1 + m[i]) * Pow2(LitBits) ELSE 0)]

\* A slip for AfterLiteral: one case is forgotten.
AfterLiteralShort == IF state < 4 THEN 0 ELSE state - 6

AfterLiteral == IF state < 4 THEN 0 ELSE IF state < 10 THEN state - 3 ELSE state - 6

IsMatch ==
    /\ pc = "is_match"
    /\ \E b \in Bit :
          /\ ended => b = 0
          /\ Flag("is_match", state * Pow2(PosBits) + pos_state, b)
          /\ Goes(IF b = 0 THEN "literal" ELSE "is_rep")
    /\ UNCHANGED <<text, state, rep, len, length, hist>>

Literal ==
    /\ pc = "literal"
    /\ \/ /\ state >= 7 /\ TooFar(rep[1] + 1)
          /\ Fails("distance")
          /\ UNCHANGED <<state, len, trace, hist>>
       \/ /\ ~(state >= 7 /\ TooFar(rep[1] + 1))
          /\ len < Len(text)
          /\ LET s == Spelling(text[len + 1])
             IN  Reads(LiteralCells(s, state >= 7), s)
          /\ IF update
             THEN /\ Appends(1, "lit")
                  /\ state' = IF len' = len THEN state ELSE AfterLiteral
             ELSE Succeeds /\ UNCHANGED <<state, len, hist>>
    /\ UNCHANGED <<text, rep, length>>

-----------------------------------------------------------------------------
(* Matches at one of the last four distances *)

\* A slip for AfterShortRep: a match of one byte is a match at the last distance.
AfterShortRepAsRep == IF state < 7 THEN 8 ELSE 11

AfterShortRep == IF state < 7 THEN 9 ELSE 11
AfterRep      == IF state < 7 THEN 8 ELSE 11
AfterMatch    == IF state < 7 THEN 7 ELSE 10

\* A new distance makes room for itself before its length is read.
IsRep ==
    /\ pc = "is_rep"
    /\ \E b \in Bit :
          /\ Flag("is_rep", state, b)
          /\ Goes(IF b = 1 THEN "is_rep_g0" ELSE "len")
          /\ rep' = IF b = 0 /\ update THEN <<rep[1], rep[1], rep[2], rep[3]>>
                                       ELSE rep
    /\ UNCHANGED <<text, state, len, length, hist>>

IsRepG0 ==
    /\ pc = "is_rep_g0"
    /\ \E b \in Bit :
          /\ Flag("is_rep_g0", state, b)
          /\ Goes(IF b = 0 THEN "is_rep_0long" ELSE "is_rep_g1")
    /\ UNCHANGED <<text, state, rep, len, length, hist>>

\* A match of one byte at the last distance, or a longer one.
IsRep0Long ==
    /\ pc = "is_rep_0long"
    /\ \E b \in Bit :
          /\ Flag("is_rep_0long", state * Pow2(PosBits) + pos_state, b)
          /\ \/ b = 1 /\ Goes("rep_len") /\ UNCHANGED <<state, len, hist>>
             \/ b = 0 /\ Spelt(1, rep[1] + 1)
                /\ IF update
                   THEN state' = AfterShortRep /\ Copies(1, rep[1] + 1, "shortrep")
                   ELSE Succeeds /\ UNCHANGED <<state, len, hist>>
    /\ UNCHANGED <<text, rep, length>>

\* The LRU once rep[idx] is used: it comes first, those before it follow.
ToFront(idx) ==
    [i \in 1..4 |-> IF i = 1 THEN rep[idx + 1]
                    ELSE IF i <= idx + 1 THEN rep[i - 1] ELSE rep[i]]

\* The distance before the last, or one of the two before that.
IsRepG1 ==
    /\ pc = "is_rep_g1"
    /\ \E b \in Bit :
          /\ Flag("is_rep_g1", state, b)
          /\ Goes(IF b = 0 THEN "rep_len" ELSE "is_rep_g2")
          /\ rep' = IF b = 0 /\ update THEN ToFront(1) ELSE rep
    /\ UNCHANGED <<text, state, len, length, hist>>

IsRepG2 ==
    /\ pc = "is_rep_g2"
    /\ \E b \in Bit :
          /\ Flag("is_rep_g2", state, b)
          /\ Goes("rep_len")
          /\ rep' = IF update THEN ToFront(2 + b) ELSE rep
    /\ UNCHANGED <<text, state, len, length, hist>>

-----------------------------------------------------------------------------
(* Lengths and distances: what can be read, in which cells *)

\* LenDecoder::decode, coder being len_decoder or rep_len_decoder.
Lengths(coder) ==
    LET choice   == LenCell(coder, "choice", 0)
        choice2  == LenCell(coder, "choice2", 0)
        Low(s)   == TreeCells(LenCell(coder, "low_coder", pos_state * Pow2(LowBits)), s)
        Mid(s)   == TreeCells(LenCell(coder, "mid_coder", pos_state * Pow2(LowBits)), s)
        High(s)  == TreeCells(LenCell(coder, "high_coder", 0), s)
    IN  {[value |-> TreeValue(s), bits |-> <<0>> \o s,
          cells |-> <<choice>> \o Low(s)] : s \in Bits(LowBits)}
        \cup
        {[value |-> TreeValue(s) + Pow2(LowBits), bits |-> <<1, 0>> \o s,
          cells |-> <<choice, choice2>> \o Mid(s)] : s \in Bits(LowBits)}
        \cup
        {[value |-> TreeValue(s) + 2 * Pow2(LowBits), bits |-> <<1, 1>> \o s,
          cells |-> <<choice, choice2>> \o High(s)] : s \in Bits(HighBits)}

\* The ways the bits can spell length n: there is one.
MaxLength == 2 * Pow2(LowBits) + Pow2(HighBits) - 1
LengthCodes(coder, n) == {l \in Lengths(coder) : l.value = n}

DirectBits(slot) == (slot \div 2) - 1

\* The smallest distance of a slot from 4 on.
Base(slot) == (2 + (slot % 2)) * Pow2(DirectBits(slot))

\* The cells of pos_decoders that a slot's bits r are read in.
PosCells(slot, r) == TreeCells(Cell("pos_decoders", Base(slot) - slot), r)

\* The bits of a distance below its slot, and what they add to Base.
Below(slot) ==
    IF slot < EndSlot
    THEN {[value |-> ReverseValue(r), bits |-> r, cells |-> PosCells(slot, r)] :
             r \in Bits(DirectBits(slot))}
    ELSE {[value |-> TreeValue(d) * Pow2(AlignBits) + ReverseValue(a),
           bits  |-> d \o a,
           cells |-> [i \in 1..Len(d) |-> Cell("direct", i)]
                        \o TreeCells(Cell("align_decoder", 0), a)] :
             d \in Bits(DirectBits(slot) - AlignBits), a \in Bits(AlignBits)}

\* The distances that start with a slot spelt s, in the tree of len_state.
FromSlot(len_state, s) ==
    LET slot  == TreeValue(s)
        cells == TreeCells(Cell("pos_slot_decoder", len_state * Pow2(SlotBits)), s)
    IN  IF slot < 4
        THEN {[value |-> slot, bits |-> s, cells |-> cells]}
        ELSE {[value |-> Base(slot) + x.value, bits |-> s \o x.bits,
               cells |-> cells \o x.cells] : x \in Below(slot)}

\* The distance that stands for the end of the stream: all bits set.
Marker == Pow2(Pow2(SlotBits - 1)) - 1

\* A dict_size has no more bits than a distance.
ASSUME MarkerAssumption == Marker \in Nat /\ DictSize <= Marker

\* decode_distance: the ways the bits can spell a distance, in the tree of
\* len_state.
Codes ==
    LET all == [len_state \in 0..3 |-> UNION {FromSlot(len_state, s) : s \in Bits(SlotBits)}]
    IN  [len_state \in 0..3 |-> [dist \in 0..Marker |->
            {d \in all[len_state] : d.value = dist}]]

DistanceCodes(n, dist) == Codes[IF n > 3 THEN 3 ELSE n][dist]

RepLen ==
    /\ pc = "rep_len"
    /\ \E n \in 0..MaxLength :
          /\ Spelt(n + 2, rep[1] + 1)
          /\ \E l \in LengthCodes("rep_len", n) : Reads(l.cells, l.bits)
          /\ IF update
             THEN state' = AfterRep /\ Copies(n + 2, rep[1] + 1, "rep")
             ELSE Succeeds /\ UNCHANGED <<state, len, hist>>
    /\ UNCHANGED <<text, rep, length>>

\* A slip for NewLen: a dry run is in a match already.
NewLenAlways ==
    /\ pc = "len"
    /\ \E n \in 0..MaxLength :
          /\ \E l \in LengthCodes("len", n) : Reads(l.cells, l.bits)
          /\ length' = n
    /\ Goes("distance")
    /\ state' = AfterMatch
    /\ UNCHANGED <<text, rep, len, hist>>

NewLen ==
    /\ pc = "len"
    /\ \E n \in 0..MaxLength :
          /\ \E l \in LengthCodes("len", n) : Reads(l.cells, l.bits)
          /\ length' = n
    /\ Goes("distance")
    /\ state' = IF update THEN AfterMatch ELSE state
    /\ UNCHANGED <<text, rep, len, hist>>

\* A slip for Distance: a dry run keeps the distance.
DistanceAlways ==
    /\ pc = "distance"
    /\ \E dist \in 0..(Marker - 1) :
          /\ Spelt(length + 2, dist + 1)
          /\ \E d \in DistanceCodes(length, dist) : Reads(d.cells, d.bits)
          /\ rep' = [rep EXCEPT ![1] = dist]
          /\ IF update
             THEN Copies(length + 2, dist + 1, "match")
             ELSE Succeeds /\ UNCHANGED <<len, hist>>
    /\ UNCHANGED <<text, state, length>>

\* A match at a new distance.
Distance ==
    /\ pc = "distance"
    /\ \E dist \in 0..(Marker - 1) :
          /\ Spelt(length + 2, dist + 1)
          /\ \E d \in DistanceCodes(length, dist) : Reads(d.cells, d.bits)
          /\ rep' = IF update THEN [rep EXCEPT ![1] = dist] ELSE rep
          /\ IF update
             THEN Copies(length + 2, dist + 1, "match")
             ELSE Succeeds /\ UNCHANGED <<len, hist>>
    /\ UNCHANGED <<text, state, length>>

\* A slip for EndMarker: the marker is not taken for a distance.
EndMarkerForgotten ==
    /\ pc = "distance"
    /\ \E d \in DistanceCodes(length, Marker) : Reads(d.cells, d.bits)
    /\ \/ ~update /\ Succeeds
       \/ update /\ Fails("marker")
       \/ update /\ ended' = TRUE /\ pc' = "idle"
          /\ UNCHANGED <<mode, foreseen, told, stale, status>>
    /\ UNCHANGED <<text, state, rep, len, length>>
    /\ hist' = IF update THEN Latest("match") ELSE hist

\* The end marker, at the end of the input or before it.
EndMarker ==
    /\ pc = "distance"
    /\ \E d \in DistanceCodes(length, Marker) : Reads(d.cells, d.bits)
    /\ rep' = IF update THEN [rep EXCEPT ![1] = Marker] ELSE rep
    /\ \/ ~update /\ Succeeds
       \/ update /\ Fails("marker")
       \/ update /\ ended' = TRUE /\ pc' = "idle"
          /\ UNCHANGED <<mode, foreseen, told, stale, status>>
    /\ UNCHANGED <<text, state, len, length>>
    /\ hist' = IF update THEN Latest("match") ELSE hist

-----------------------------------------------------------------------------
(* Between two symbols, or two inputs *)

Between ==
    /\ pc = "idle" /\ status = "open"
    /\ told' = FALSE /\ foreseen' = <<>> /\ trace' = <<>>
    /\ UNCHANGED <<mode, pc, length, status>>

\* The window is emptied, or not, and then takes n bytes as they are.
Receives(n, emptied) ==
    /\ text' = IF emptied THEN SubSeq(text, len + 1, Len(text)) ELSE text
    /\ len' = n + (IF emptied THEN 0 ELSE len)
    /\ len' <= Len(text')

\* A slip for ResetState: the LRU is kept.
ResetStateKeepsReps(reset_dict) ==
    /\ Between
    /\ Receives(0, reset_dict)
    /\ state' = 0 /\ UNCHANGED rep
    /\ hist' = <<"lit", "lit", "lit", "lit">>
    /\ stale' = FALSE /\ ended' = FALSE

\* reset_state, with the dictionary in an LZMA2 chunk that resets everything.
ResetState(reset_dict) ==
    /\ Between
    /\ Receives(0, reset_dict)
    /\ state' = 0 /\ rep' = <<0, 0, 0, 0>>
    /\ hist' = <<"lit", "lit", "lit", "lit">>
    /\ stale' = FALSE /\ ended' = FALSE

\* parse_uncompressed: n bytes of an LZMA2 chunk go to the window as they are,
\* which may be emptied first.  (After an end marker LZMA2 has failed: it
\* knows every chunk's size.)
Uncompressed(n, reset_dict) ==
    /\ Between /\ ~ended
    /\ Receives(n, reset_dict)
    /\ stale' = (stale \/ reset_dict)
    /\ UNCHANGED <<state, rep, ended, hist>>

\* A raw decoder is given another input: its window is new, its state is not.
Decompress ==
    /\ Between
    /\ Receives(0, TRUE)
    /\ stale' = TRUE /\ ended' = FALSE
    /\ UNCHANGED <<state, rep, hist>>

Next ==
    \/ Try \/ Process \/ Short
    \/ IsMatch \/ Literal
    \/ IsRep \/ IsRepG0 \/ IsRep0Long \/ IsRepG1 \/ IsRepG2 \/ RepLen
    \/ NewLen \/ Distance \/ EndMarker
    \/ Decompress
    \/ \E reset_dict \in BOOLEAN :
          \/ ResetState(reset_dict)
          \/ \E n \in 1..Len(text) : Uncompressed(n, reset_dict)

Spec == Init /\ [][Next]_vars

-----------------------------------------------------------------------------
(* Properties *)

\* Type invariant.
TypeOK ==
    /\ text \in Seq(Byte)
    /\ state \in 0..11 /\ rep \in [1..4 -> Nat]
    /\ len \in 0..Len(text) /\ length \in Nat
    /\ mode \in {"try", "real"}
    /\ pc \in {"idle", "is_match", "literal", "is_rep", "is_rep_g0",
               "is_rep_0long", "is_rep_g1", "is_rep_g2", "rep_len", "len",
               "distance"}
    /\ told \in BOOLEAN /\ stale \in BOOLEAN /\ ended \in BOOLEAN
    /\ status \in {"open", "short", "distance", "window", "marker"}
    /\ hist \in [1..4 -> {"lit", "match", "rep", "shortrep"}]

\* What state tells of the last symbols, by the definition of the format: the
\* kind of the last match, how many literals follow it (three are as good as
\* any number), and whether a literal comes before it.  (Once the length of
\* a new match is read, state is ahead of the history.)
Meaning(h) ==
    LET Match(i, j) == CASE h[i] = "match"                      -> 1
                         [] h[i] = "shortrep" /\ h[j] = "lit"   -> 3
                         [] OTHER                               -> 2
    IN  CASE h[1] # "lit" /\ h[2] = "lit" -> 6 + Match(1, 2)
          [] h[1] # "lit" /\ h[2] # "lit" -> IF h[1] = "match" THEN 10 ELSE 11
          [] h[1] = "lit" /\ h[2] # "lit" -> 3 + Match(2, 3)
          [] h[1] = "lit" /\ h[2] = "lit" /\ h[3] # "lit" -> Match(3, 4)
          [] OTHER -> 0

StateMeaning == pc = "idle" /\ status = "open" => state = Meaning(hist)

\* The dry run decides for the real one: after a dry run that succeeds, the
\* real run reads the same bits in the same cells, to the last one, and so
\* never runs out of input.  (It would not if the dry run left a trace in
\* the state, or if a symbol read a cell twice, the first time updating it.)
DryRunTells ==
    update /\ told =>
        /\ Len(trace) <= Len(foreseen)
        /\ trace = SubSeq(foreseen, 1, Len(trace))
        /\ status # "short"
        /\ pc = "idle" /\ status = "open" => trace = foreseen

\* As long as the decoder is not stale, each of the last four distances is
\* served by the window: matches at them, and literals that follow a match, do
\* not fail on the distance (unless nothing was output yet).  A stream is never
\* stale, and so a dry run of its fails only for lack of input.  LZMA2 is after
\* an uncompressed chunk that resets the dictionary, until a chunk resets the
\* state: there the distances need not be served.
Served(i) == rep[i] + 1 <= DictSize /\ rep[i] + 1 <= len
Unset(i)  == rep[i] = 0 /\ len = 0

RepsServed ==
    pc = "idle" /\ status = "open" /\ ~ended /\ ~stale =>
        /\ \A i \in 1..4 : Served(i) \/ Unset(i)
        /\ state >= 7 => Served(1)

\* Nothing is decoded after the end marker, which leaves a distance behind that
\* no window serves, until the state is reset or another input given, and then
\* the window is empty or as the marker left it.
MarkerIsLast == [][ended => len' \in {0, len}]_vars

=============================================================================
