--------------------------- MODULE Lzma2RoundTrip ---------------------------
(***************************************************************************)
(* The LZMA2 decoder on any input, call after call, and then, without a    *)
(* reset in between, on a stream the LZMA2 encoder has written.            *)
(***************************************************************************)
EXTENDS Lzma2Decoder

CONSTANTS Inputs, BufSize, SizeWord   \* see Lzma2Encoder

ASSUME BufAssumption == BufSize \in 1..SizeWord /\ SizeWord \in Nat
ASSUME InputsAssumption == Inputs \subseteq Seq(Byte)

VARIABLES
    input, at, stream, encoder,  \* the encoder: see Lzma2Encoder
    pos,                         \* how many fields of stream are decoded
    encoded                      \* the call decodes stream

Encoder == INSTANCE Lzma2Encoder

encvars == <<input, at, stream, encoder>>
rtvars  == <<vars, encvars, pos, encoded>>

RTInit == Init /\ Encoder!Init /\ pos = 0 /\ encoded = FALSE

\* The decoder on arbitrary input, before the encoder is at work.
DecodesAny ==
    /\ encoder = "off" /\ Next
    /\ UNCHANGED <<encvars, pos, encoded>>

Encodes ==
    /\ pc = "idle" /\ ~encoded /\ encoder # "done" /\ Encoder!Next
    /\ UNCHANGED <<vars, pos, encoded>>

\* (There is room in log for a chunk a byte.)
DecompressEncoded ==
    /\ encoder = "done" /\ ~encoded /\ Decompress
    /\ Len(log) + 1 + Len(input) <= MaxLog
    /\ pos' = 0 /\ encoded' = TRUE
    /\ UNCHANGED encvars

Field == stream[pos + 1]

\* n fields are read.
Takes(n) == pos + n <= Len(stream) /\ pos' = pos + n

\* The decoder finds the fields of the stream where it reads.
DecodesEncoded ==
    /\ encoded
    /\ \/ Takes(1) /\ Status /\ status' = Field
       \/ Takes(1) /\ Raw /\ unpacked' = Field + 1
       \/ Takes(unpacked) /\ RawData /\ out' = out \o SubSeq(stream, pos + 1, pos')
       \/ pos + (IF pc = "raw_data" THEN unpacked ELSE 1) > Len(stream)
             /\ Truncated /\ UNCHANGED pos
       \/ Finish /\ UNCHANGED pos
    /\ UNCHANGED <<encvars, encoded>>

\* The decoder is reset, and all begins anew.
Again ==
    /\ encoder # "off" /\ Reset
    /\ input' = <<>> /\ at' = 0 /\ stream' = <<>> /\ encoder' = "off"
    /\ pos' = 0 /\ encoded' = FALSE

RTNext == DecodesAny \/ Encodes \/ DecompressEncoded \/ DecodesEncoded \/ Again

RTSpec == RTInit /\ [][RTNext]_rtvars

-----------------------------------------------------------------------------
(* Properties *)

\* What the encoder writes is decoded to what it was given, however the reader
\* cuts it and whatever the decoder did before; only the sink can prevent it.
RoundTrip ==
    encoded =>
        /\ pc = "failed" => window = "io"
        /\ pc = "idle"   => sink = input /\ pos = Len(stream)

=============================================================================
