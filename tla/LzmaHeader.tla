----------------------------- MODULE LzmaHeader -----------------------------
(***************************************************************************)
(* The header of a .lzma stream, a field at a time, and the options that   *)
(* say where the unpacked size is: encode::options and Encoder::           *)
(* from_stream, decode::options and LzmaParams::read_header.               *)
(***************************************************************************)
EXTENDS Integers, Sequences

CONSTANTS
    SizeWord,   \* the values of the size field (2^64)
    DictSize,   \* the dict_size the encoder writes (0x0080_0000)
    MinDict,    \* the smallest the decoder works with (0x1000)
    NoSize      \* None

ASSUME FieldAssumption ==
    SizeWord \in Nat \ {0} /\ DictSize \in Nat /\ MinDict \in Nat \ {0} /\ NoSize \notin Nat

-----------------------------------------------------------------------------
(* The encoder: WriteToHeader(size) or SkipWritingToHeader *)

EncoderOptions(sizes) ==
    [skip : {FALSE}, size : sizes] \cup {[skip |-> TRUE, size |-> NoSize]}

PropsByte(lc, lp, pb) == lc + 9 * (lp + 5 * pb)

\* No size is written as the largest one.
Header(lc, lp, pb, options) ==
    <<PropsByte(lc, lp, pb), DictSize>> \o
        IF options.skip THEN <<>>
        ELSE <<IF options.size = NoSize THEN SizeWord - 1 ELSE options.size>>

-----------------------------------------------------------------------------
(* The decoder: ReadFromHeader, ReadHeaderButUseProvided(size),            *)
(* UseProvided(size)                                                       *)

DecoderOptions(sizes) ==
    [from : {"ignored", "provided"}, size : sizes] \cup {[from |-> "header", size |-> NoSize]}

\* (The byte is below 225.)
Properties(b) == [lc |-> b % 9, lp |-> (b \div 9) % 5, pb |-> b \div 45]

\* read_header
Params(header, options) ==
    [props |-> Properties(header[1]),
     dict  |-> IF header[2] < MinDict THEN MinDict ELSE header[2],
     size  |-> IF options.from # "header" THEN options.size
               ELSE IF header[3] = SizeWord - 1 THEN NoSize
               ELSE header[3]]

=============================================================================
