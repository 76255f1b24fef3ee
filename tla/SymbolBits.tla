----------------------------- MODULE SymbolBits -----------------------------
(***************************************************************************)
(* One symbol at the real sizes: every bit that process_next_inner reads   *)
(* for it, the cell of the probability arrays it is read in, and what it   *)
(* does to the 32 bits of range, hence how many bytes it takes.  The bits  *)
(* and their probabilities are arbitrary; the symbol decoder's state is a  *)
(* context given.  (Names are not those of SymbolDecoder, so that a module *)
(* may extend both.)                                                       *)
(*                                                                         *)
(* A range is a pair: the low byte lo and the three bytes hi above it.     *)
(***************************************************************************)
EXTENDS Sequences, Powers, Vec2D

CONSTANTS
    Contexts,  \* where a symbol may begin: the fields that choose its cells
    Odds,      \* the probabilities of a symbol's bits as they come, in 1/0x800
    Ranges,    \* range before the symbol
    Longs      \* bound: what the tree of the long lengths gives a match

\* The most bits a symbol reads with a context: a match at a new distance has
\* 2 flags, 10 bits of length, 6 of slot, and 5 in the tree of slot 12 or 13.
MaxBits == 23

\* What a probability can be, as a bit adapts it from 0x400 on.
Adapted == 31..2017

\* The three upper bytes of range, all ones.
MaxHigh == 16777215

ASSUME ContextsAssumption ==
    Contexts \subseteq [state : 0..11, pos_state : 0..15, lc : 0..8, lp : 0..4,
                        len : Nat, prev_byte : 0..255, match_byte : 0..255]
ASSUME OddsAssumption == Odds \subseteq [1..MaxBits -> Adapted]
ASSUME RangesAssumption == Ranges \subseteq [hi : 65536..MaxHigh, lo : 0..255]

VARIABLES
    ctx,       \* the symbol decoder's state, properties and output before it
    odds,      \* the probabilities of the bits that are still to come
    range,     \* range
    bytes,     \* how many bytes the symbol has taken
    reading,   \* what the next bit belongs to
    coder,     \* the length decoder in use
    tmp,       \* the node of the tree that is walked: a 1, and the bits read
    left,      \* how many bits it still gives
    match_len, \* the length, as the length decoder gives it
    slot,      \* the slot of the distance
    last,      \* history: the last bit that was read, and its cell
    call,      \* history: what the tree or length decoder at work has read
    done       \* history: what the last one read that returned, and its value

bitVars ==
    <<ctx, odds, range, bytes, reading, coder, tmp, left, match_len, slot, last, call, done>>

MAX_REQUIRED_INPUT == 20

-----------------------------------------------------------------------------
(* The range decoder *)

\* What is left of range for the next bit, the first of odds being that of the
\* bit that comes: for a 1, what range >> 11 has dropped is left too.
Subrange(bit) ==
    LET shifted == range.hi \div 8
        low     == (shifted % 256) * Head(odds)
                       + (IF bit = 1 THEN (range.hi % 8) * 256 + range.lo ELSE 0)
    IN  [hi |-> (shifted \div 256) * Head(odds) + (low \div 256), lo |-> low % 256]

\* range >> 1
Halved == [hi |-> range.hi \div 2, lo |-> ((range.hi % 2) * 256 + range.lo) \div 2]

\* A slip for Normalize: a range of three bytes and a half is left as it is.
NormalizeLate(r) ==
    IF r.hi < 4096
    THEN range' = [hi |-> r.hi * 256 + r.lo, lo |-> 0] /\ bytes' = bytes + 1
    ELSE range' = r /\ UNCHANGED bytes

\* normalize, one byte at most.
Normalize(r) ==
    IF r.hi < 65536
    THEN range' = [hi |-> r.hi * 256 + r.lo, lo |-> 0] /\ bytes' = bytes + 1
    ELSE range' = r /\ UNCHANGED bytes

DecodeBit(bit) == Normalize(Subrange(bit))

Read(array, at, bit) == [array |-> array, at |-> at, bit |-> bit]

-----------------------------------------------------------------------------
(* What the encoders of trees and lengths would code for a value *)

\* encode_bit_tree: the highest bit first.
encode_bit_tree(array, offset, num_bits, value) ==
    [i \in 1..num_bits |->
        Read(array, offset + Pow2(i - 1) + (value \div Pow2(num_bits + 1 - i)),
             (value \div Pow2(num_bits - i)) % 2)]

\* encode_reverse_bit_tree: the lowest first; node is tmp before each bit.
encode_reverse_bit_tree(array, offset, num_bits, value) ==
    LET bit[i \in 1..num_bits] == (value \div Pow2(i - 1)) % 2
        node[i \in 1..num_bits] == IF i = 1 THEN 1 ELSE 2 * node[i - 1] + bit[i - 1]
    IN  [i \in 1..num_bits |-> Read(array, offset + node[i], bit[i])]

\* An array of the length decoder in use, one of two.
Of(len_decoder, rep_len_decoder) ==
    IF coder = "len" THEN len_decoder ELSE rep_len_decoder

Choice  == Of("len.choice", "rep_len.choice")
Choice2 == Of("len.choice2", "rep_len.choice2")
Low     == Of("len.low_coder", "rep_len.low_coder")
Mid     == Of("len.mid_coder", "rep_len.mid_coder")
High    == Of("len.high_coder", "rep_len.high_coder")

\* A slip for encode_length: the last of the middle lengths is a long one.
encode_length_short(pos_state, value) ==
    IF value < 8
    THEN <<Read(Choice, 0, 0)>> \o encode_bit_tree(Low, 8 * pos_state, 3, value)
    ELSE IF value < 15
    THEN <<Read(Choice, 0, 1), Read(Choice2, 0, 0)>>
             \o encode_bit_tree(Mid, 8 * pos_state, 3, value - 8)
    ELSE <<Read(Choice, 0, 1), Read(Choice2, 0, 1)>>
             \o encode_bit_tree(High, 0, 8, value - 15)

\* LenEncoder::encode
encode_length(pos_state, value) ==
    IF value < 8
    THEN <<Read(Choice, 0, 0)>> \o encode_bit_tree(Low, 8 * pos_state, 3, value)
    ELSE IF value < 16
    THEN <<Read(Choice, 0, 1), Read(Choice2, 0, 0)>>
             \o encode_bit_tree(Mid, 8 * pos_state, 3, value - 8)
    ELSE <<Read(Choice, 0, 1), Read(Choice2, 0, 1)>>
             \o encode_bit_tree(High, 0, 8, value - 16)

-----------------------------------------------------------------------------
(* The walk *)

BitInit ==
    /\ ctx \in Contexts /\ odds \in Odds /\ range \in Ranges
    /\ bytes = 0 /\ reading = "is_match" /\ coder = "len"
    /\ tmp = 1 /\ left = 0 /\ match_len = 0 /\ slot = 0
    /\ last = Read("none", 0, 0) /\ call = <<>>
    /\ done = [of |-> "none", reads |-> <<>>, value |-> 0]

\* A tree of n bits is entered.
Enters(n) == tmp' = 1 /\ left' = n /\ call' = <<>>

ReadBit(array, at, bit) ==
    /\ odds' = Tail(odds)
    /\ DecodeBit(bit) /\ last' = Read(array, at, bit)

\* A bit outside the trees, in a cell of array.
FlagBit(array, at, bit, next) ==
    /\ ReadBit(array, at, bit) /\ reading' = next
    /\ UNCHANGED <<ctx, tmp, left, match_len, slot, call, done>>

PosCell == (ctx.state * 16) + ctx.pos_state

IsMatchBit ==
    /\ reading = "is_match"
    /\ \/ ReadBit("is_match", PosCell, 0) /\ reading' = "literal" /\ Enters(8)
          /\ UNCHANGED <<ctx, match_len, slot, done>>
       \/ FlagBit("is_match", PosCell, 1, "is_rep")
    /\ UNCHANGED coder

IsRepBit ==
    /\ reading = "is_rep"
    /\ \/ FlagBit("is_rep", ctx.state, 0, "choice") /\ coder' = "len"
       \/ FlagBit("is_rep", ctx.state, 1, "is_rep_g0") /\ coder' = "rep_len"

IsRepG0Bit ==
    /\ reading = "is_rep_g0"
    /\ \/ FlagBit("is_rep_g0", ctx.state, 0, "is_rep_0long")
       \/ FlagBit("is_rep_g0", ctx.state, 1, "is_rep_g1")
    /\ UNCHANGED coder

IsRep0LongBit ==
    /\ reading = "is_rep_0long"
    /\ \/ FlagBit("is_rep_0long", PosCell, 0, "done")
       \/ FlagBit("is_rep_0long", PosCell, 1, "choice")
    /\ UNCHANGED coder

IsRepG1Bit ==
    /\ reading = "is_rep_g1"
    /\ \/ FlagBit("is_rep_g1", ctx.state, 0, "choice")
       \/ FlagBit("is_rep_g1", ctx.state, 1, "is_rep_g2")
    /\ UNCHANGED coder

IsRepG2Bit ==
    /\ reading = "is_rep_g2"
    /\ \E bit \in {0, 1} : FlagBit("is_rep_g2", ctx.state, bit, "choice")
    /\ UNCHANGED coder

-----------------------------------------------------------------------------
(* Literals *)

lit_row == ((ctx.len % Pow2(ctx.lp)) * Pow2(ctx.lc)) + (ctx.prev_byte \div Pow2(8 - ctx.lc))

\* What match_byte makes of the column: while the bits are its own, the next
\* of them chooses between two more trees.
MatchColumn ==
    LET high == ctx.match_byte \div Pow2(left)
        bit  == (ctx.match_byte \div Pow2(left - 1)) % 2
    IN  IF ctx.state >= 7 /\ tmp = Pow2(8 - left) + high THEN (1 + bit) * 256 ELSE 0

\* decode_literal, a bit of it.
LiteralBit ==
    /\ reading = "literal"
    /\ \E bit \in {0, 1} :
          /\ ReadBit("literal_probs", At(lit_row, MatchColumn + tmp, 768), bit)
          /\ tmp' = 2 * tmp + bit /\ left' = left - 1
    /\ reading' = IF left = 1 THEN "done" ELSE reading
    /\ UNCHANGED <<ctx, coder, match_len, slot, call, done>>

-----------------------------------------------------------------------------
(* Trees and lengths *)

\* The next bit of the tree at offset in array.
TreeBit(array, offset, bit) ==
    ReadBit(array, offset + tmp, bit) /\ UNCHANGED <<ctx, coder>>

\* The node it leads to, and what has been read then.
Node(bit) == 2 * tmp + bit
Walked == Append(call, last')

\* The tree goes on after this bit.
Inside(bit) ==
    /\ left > 1
    /\ tmp' = Node(bit) /\ left' = left - 1 /\ call' = Walked
    /\ UNCHANGED <<reading, match_len, slot, done>>

\* The tree's value, and what has been read for it, are passed on.
Yields(value) == done' = [of |-> reading, reads |-> Walked, value |-> value]

\* LenDecoder::decode, up to its trees.
LenChoice ==
    /\ reading = "choice"
    /\ \E bit \in {0, 1} :
          /\ ReadBit(Choice, 0, bit)
          /\ reading' = IF bit = 0 THEN "low" ELSE "choice2"
          /\ call' = <<last'>>
    /\ tmp' = 1 /\ left' = 3
    /\ UNCHANGED <<ctx, coder, match_len, slot, done>>

LenChoice2 ==
    /\ reading = "choice2"
    /\ \E bit \in {0, 1} :
          /\ ReadBit(Choice2, 0, bit)
          /\ call' = Append(call, last')
          /\ IF bit = 0 THEN reading' = "mid" /\ left' = 3 ELSE reading' = "high" /\ left' = 8
    /\ UNCHANGED <<ctx, coder, tmp, match_len, slot, done>>

\* A length is complete: the distance follows, or nothing.
Length(first, n, bit) ==
    /\ left = 1
    /\ match_len' = first + (Node(bit) - Pow2(n))
    /\ Yields(match_len')
    /\ IF coder = "len" THEN reading' = "slot" ELSE reading' = "done"
    /\ Enters(6) /\ UNCHANGED slot

LenLow ==
    /\ reading = "low"
    /\ \E bit \in {0, 1} :
          TreeBit(Low, 8 * ctx.pos_state, bit) /\ (Inside(bit) \/ Length(0, 3, bit))

LenMid ==
    /\ reading = "mid"
    /\ \E bit \in {0, 1} :
          TreeBit(Mid, 8 * ctx.pos_state, bit) /\ (Inside(bit) \/ Length(8, 3, bit))

LenHigh ==
    /\ reading = "high"
    /\ \E bit \in {0, 1} :
          /\ coder = "len" =>
                \E long \in Longs : Node(bit) = (256 + long) \div Pow2(left - 1)
          /\ TreeBit(High, 0, bit) /\ (Inside(bit) \/ Length(16, 8, bit))

-----------------------------------------------------------------------------
(* Distances *)

len_state == IF match_len > 3 THEN 3 ELSE match_len

num_direct_bits(s) == (s \div 2) - 1

\* The smallest distance of a slot from 4 to 13.
SlotBase(s) == (2 + (s % 2)) * Pow2(num_direct_bits(s))

\* A slip for DirectsOf: those of align_decoder are read here too.
DirectsOfAll(s) == num_direct_bits(s)

\* The bits of a slot from 14 on that are read without a cell.
DirectsOf(s) == num_direct_bits(s) - 4

\* A slip for PosOffset: the slots are kept apart.
PosOffsetApart(s) == SlotBase(s)

\* Where the tree of a slot is in pos_decoders, which they share.
PosOffset(s) == SlotBase(s) - s

\* decode_distance: the slot is complete, and what it leads to.
SlotEnds(s) ==
    /\ left = 1
    /\ slot' = s /\ Yields(s)
    /\ \/ s < 4 /\ reading' = "done" /\ Enters(0)
       \/ s \in 4..13 /\ reading' = "reverse" /\ Enters(num_direct_bits(s))
       \/ s >= 14 /\ reading' = "direct" /\ Enters(DirectsOf(s))
    /\ UNCHANGED match_len

Slot ==
    /\ reading = "slot"
    /\ \E bit \in {0, 1} :
          /\ TreeBit("pos_slot_decoder", 64 * len_state, bit)
          /\ Inside(bit) \/ SlotEnds(Node(bit) - 64)

\* The bits read, the first the lowest.
Reversed(reads) ==
    LET sum[i \in 0..Len(reads)] ==
            IF i = 0 THEN 0 ELSE sum[i - 1] + reads[i].bit * Pow2(i - 1)
    IN  sum[Len(reads)]

\* parse_reverse_bit_tree ends, and the symbol with it.
LastTree ==
    /\ left = 1
    /\ Yields(Reversed(Walked)) /\ reading' = "done"
    /\ Enters(0) /\ UNCHANGED <<match_len, slot>>

Reverse ==
    /\ reading = "reverse"
    /\ \E bit \in {0, 1} :
          TreeBit("pos_decoders", PosOffset(slot), bit) /\ (Inside(bit) \/ LastTree)

\* get, a bit of it: what the bit is leaves the range the same.
Direct ==
    /\ reading = "direct"
    /\ Normalize(Halved)
    /\ IF left = 1 THEN reading' = "align" /\ Enters(4)
       ELSE left' = left - 1 /\ UNCHANGED <<reading, tmp, call>>
    /\ UNCHANGED <<ctx, odds, coder, match_len, slot, last, done>>

Align ==
    /\ reading = "align"
    /\ \E bit \in {0, 1} : TreeBit("align_decoder", 0, bit) /\ (Inside(bit) \/ LastTree)

BitNext ==
    \/ IsMatchBit \/ IsRepBit \/ IsRepG0Bit \/ IsRep0LongBit \/ IsRepG1Bit \/ IsRepG2Bit
    \/ LiteralBit \/ LenChoice \/ LenChoice2 \/ LenLow \/ LenMid \/ LenHigh
    \/ Slot \/ Reverse \/ Direct \/ Align

BitSpec == BitInit /\ [][BitNext]_bitVars

-----------------------------------------------------------------------------
(* Properties *)

\* Type invariant.  One byte a bit is enough to keep range at 0x0100_0000 or
\* above: the decoder shifts it once.
BitsTypeOK ==
    /\ ctx \in Contexts /\ odds \in Seq(Adapted)
    /\ range.hi \in 65536..MaxHigh /\ range.lo \in 0..255
    /\ bytes \in Nat /\ coder \in {"len", "rep_len"}
    /\ tmp \in 1..511 /\ left \in 0..26 /\ match_len \in 0..271 /\ slot \in 0..63
    /\ reading \in {"is_match", "literal", "is_rep", "is_rep_g0", "is_rep_0long",
                    "is_rep_g1", "is_rep_g2", "choice", "choice2", "low", "mid",
                    "high", "slot", "reverse", "direct", "align", "done"}

\* What process_mode relies on when it decodes a symbol without a dry run: with
\* MAX_REQUIRED_INPUT bytes no symbol is short of input, however improbable
\* each of its bits is and wherever range stands before it.
FitsRequired == bytes <= MAX_REQUIRED_INPUT

\* The arrays, and how many cells they have.
Size(array) ==
    CASE array = "literal_probs"                  -> Pow2(ctx.lc + ctx.lp) * 768
      [] array \in {"is_match", "is_rep_0long"}   -> 192
      [] array \in {"is_rep", "is_rep_g0", "is_rep_g1", "is_rep_g2"} -> 12
      [] array = "pos_slot_decoder"               -> 4 * 64
      [] array = "pos_decoders"                   -> 115
      [] array = "align_decoder"                  -> 16
      [] array \in {"len.low_coder", "len.mid_coder",
                    "rep_len.low_coder", "rep_len.mid_coder"}  -> 16 * 8
      [] array \in {"len.high_coder", "rep_len.high_coder"}    -> 256
      [] OTHER                                    -> 1

\* The cells of pos_decoders that slot s may read.
SlotCells(s) == (PosOffset(s) + 1)..(PosOffset(s) + Pow2(num_direct_bits(s)) - 1)

\* Every bit is read in a cell of its array (and of its row, in literal_probs),
\* and in pos_decoders, which ten slots share, in one no other slot reads.
CellsOwn ==
    /\ last.at \in 0..(Size(last.array) - 1)
    /\ reading = "literal" => MatchColumn + tmp < 768
    /\ last.array = "pos_decoders" =>
          \A s \in 4..13 : last.at \in SlotCells(s) <=> s = slot

\* The encoders of trees and lengths code what the decoders return in the very
\* cells, and with the bits, that it was read from: a value goes through.
EncoderAgrees ==
    done.reads =
        CASE done.of = "none"    -> <<>>
          [] done.of \in {"low", "mid", "high"} -> encode_length(ctx.pos_state, done.value)
          [] done.of = "slot"    -> encode_bit_tree("pos_slot_decoder", 64 * len_state, 6, done.value)
          [] done.of = "reverse" ->
                 encode_reverse_bit_tree("pos_decoders", PosOffset(slot),
                                         num_direct_bits(slot), done.value)
          [] done.of = "align"   -> encode_reverse_bit_tree("align_decoder", 0, 4, done.value)

=============================================================================
