----------------------------- MODULE RangeCoder -----------------------------
(***************************************************************************)
(* RangeEncoder and RangeDecoder: what the methods do to the fields, for   *)
(* words of WordBytes bytes of ByteBits bits.                              *)
(***************************************************************************)
EXTENDS Powers, Sequences

CONSTANTS
    ByteBits,   \* bits of a byte (8)
    WordBytes,  \* bytes of range and code (4)
    TotalBits,  \* a probability is a multiple of 2^-TotalBits (11)
    MoveBits    \* how slowly it adapts (5)

ASSUME WidthAssumption ==
    /\ ByteBits \in Nat \ {0} /\ WordBytes \in Nat \ {0, 1}
    /\ TotalBits \in Nat \ {0} /\ MoveBits \in 1..(TotalBits - 1)

Base  == Pow2(ByteBits)
Word  == Pow2(ByteBits * WordBytes)
Top   == Pow2(ByteBits * (WordBytes - 1))   \* 0x0100_0000

ProbTotal == Pow2(TotalBits)    \* 0x800
Half  == Pow2(TotalBits - 1)    \* 0x400

\* A probability stops adapting below Pow2(MoveBits).  A bit as improbable as
\* that leaves a range that is right again after one shift.
ASSUME ShiftAssumption == (Top \div ProbTotal) * (Pow2(MoveBits) - 1) * Base >= Top

\* n applications of a step to x.
Repeat(Step(_), n, x) ==
    LET after[i \in 0..n] == IF i = 0 THEN x ELSE Step(after[i - 1])
    IN  after[n]

\* A slip for Adapted: the last step to certainty is taken too.
AdaptedFully(prob, bit) ==
    IF bit = 1 THEN prob - ((prob + Pow2(MoveBits) - 1) \div Pow2(MoveBits))
               ELSE prob + ((ProbTotal - prob + Pow2(MoveBits) - 1) \div Pow2(MoveBits))

\* prob after a bit.
Adapted(prob, bit) ==
    IF bit = 1 THEN prob - (prob \div Pow2(MoveBits))
               ELSE prob + ((ProbTotal - prob) \div Pow2(MoveBits))

Bound(range, prob) == (range \div ProbTotal) * prob

-----------------------------------------------------------------------------
(* The encoder: cache and cachesz - 1 bytes 0xFF wait for a carry *)

NewEncoder == [range |-> Word - 1, low |-> 0, cache |-> 0, cachesz |-> 1, out |-> <<>>]

\* A slip for write_low: no byte waits for a carry.
write_low_eager(e) ==
    [e EXCEPT !.out   = Append(@, (e.cache + (e.low \div Word)) % Base),
              !.cache = (e.low \div Top) % Base,
              !.low   = (@ * Base) % Word]

\* The highest byte of low is taken: the bytes that wait are written, with the
\* carry, unless a carry may still come through it.
write_low(e) ==
    LET settled == e.low < (Base - 1) * Top \/ e.low >= Word
        carry   == e.low \div Word
        bytes   == [i \in 1..e.cachesz |->
                       ((IF i = 1 THEN e.cache ELSE Base - 1) + carry) % Base]
    IN  [e EXCEPT !.out     = IF settled THEN @ \o bytes ELSE @,
                  !.cache   = IF settled THEN (e.low \div Top) % Base ELSE @,
                  !.cachesz = IF settled THEN 1 ELSE @ + 1,
                  !.low     = (@ * Base) % Word]

\* A range that is not 0 is Top or more after WordBytes - 1 shifts.
normalize_encoder(e) ==
    LET Shift(f) == IF f.range < Top THEN write_low([f EXCEPT !.range = @ * Base]) ELSE f
    IN  Repeat(Shift, WordBytes - 1, e)

encode_bit(e, prob, bit) ==
    LET bound == Bound(e.range, prob)
    IN  normalize_encoder(
            IF bit = 1 THEN [e EXCEPT !.low = @ + bound, !.range = @ - bound]
                       ELSE [e EXCEPT !.range = bound])

\* RangeEncoder::finish: low and the bytes that wait.
Flushed(e) == Repeat(write_low, WordBytes + 1, e)

-----------------------------------------------------------------------------
(* The decoder: at pos in the bytes of input *)

\* A byte behind the end fails the read; pos tells.
ByteAt(input, i) == IF i <= Len(input) THEN input[i] ELSE 0

\* RangeDecoder::new: the first byte is skipped.
NewDecoder(input) ==
    LET Read(d) == [d EXCEPT !.pos = @ + 1, !.code = @ * Base + ByteAt(input, d.pos + 1)]
    IN  Repeat(Read, WordBytes, [range |-> Word - 1, code |-> 0, pos |-> 1])

normalize_decoder(d, input) ==
    IF d.range < Top
    THEN [range |-> d.range * Base,
          code  |-> ((d.code * Base) % Word) + ByteAt(input, d.pos + 1),
          pos   |-> d.pos + 1]
    ELSE d

\* A slip for decode_bit: a code at the bound is below it.
decode_bit_below(d, prob, input) ==
    LET bound == Bound(d.range, prob)
        bit   == IF d.code <= bound THEN 0 ELSE 1
    IN  [bit |-> bit,
         dec |-> normalize_decoder(
                     IF bit = 0 THEN [d EXCEPT !.range = bound]
                     ELSE [d EXCEPT !.range = @ - bound, !.code = @ - bound], input)]

\* The bit, and the decoder behind it.
decode_bit(d, prob, input) ==
    LET bound == Bound(d.range, prob)
        bit   == IF d.code < bound THEN 0 ELSE 1
    IN  [bit |-> bit,
         dec |-> normalize_decoder(
                     IF bit = 0 THEN [d EXCEPT !.range = bound]
                     ELSE [d EXCEPT !.range = @ - bound, !.code = @ - bound], input)]

\* A bit without a probability.
get_bit(d, input) ==
    LET half == d.range \div 2
        bit  == IF d.code >= half THEN 1 ELSE 0
    IN  [bit |-> bit,
         dec |-> normalize_decoder([d EXCEPT !.range = half, !.code = @ - bit * half], input)]

is_finished_ok(d, input) == d.code = 0 /\ d.pos = Len(input)

=============================================================================
