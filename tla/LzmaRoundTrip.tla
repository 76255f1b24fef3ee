---------------------------- MODULE LzmaRoundTrip ----------------------------
(***************************************************************************)
(* encode::dumbencoder::Encoder, which codes every byte as a literal, and  *)
(* the decoder on what it writes, bit by bit: through the header and the   *)
(* options of either side, and again after a reset.  The decoder finds its *)
(* contexts by itself, as SymbolDecoder does; of its symbols only literals *)
(* and the end marker can come: on any other bit it is lost.               *)
(***************************************************************************)
EXTENDS RangeCoder, LzmaHeader, Vec2D

CONSTANTS
    LitBits,     \* bits of a literal (8)
    Lc, Pb,      \* LC, PB; LP is 0
    LenBits,     \* bits of a short length, after its choice bit (3)
    SlotBits,    \* bits of a distance slot (6)
    DirectBits,  \* bits of the largest distances without a context (26)
    AlignBits,   \* and the low ones, with one (4)
    Sizes,       \* sizes, right or wrong, either side may be told
    MaxText      \* bound: bytes to compress

ASSUME SymbolAssumption ==
    /\ LitBits \in Nat \ {0} /\ Lc \in 0..8 /\ Lc <= LitBits /\ Pb \in 0..4
    /\ LenBits \in Nat
    /\ SlotBits \in Nat /\ DirectBits \in Nat /\ AlignBits \in Nat /\ MaxText \in Nat
    /\ Sizes \subseteq 0..(SizeWord - 1) /\ MaxText < SizeWord - 1

\* More bits with a context come before the direct bits of the marker than it
\* takes to shift the range (11 and 8).
ASSUME DirectAssumption == ByteBits < 2 + LenBits + SlotBits

Texts == UNION {[1..n -> 0..(Pow2(LitBits) - 1)] : n \in 0..MaxText}

VARIABLES
    text,       \* the bytes to compress
    options,    \* the encoder's, see LzmaHeader
    header,     \* the fields of the header that is written
    enc,        \* the range encoder
    probs,      \* the encoder's probabilities
    params,     \* the decoder's, as read_header returns them
    target,     \* the decoder's unpacked_size
    dec,        \* its range decoder
    is_match, literal_probs,  \* its probabilities
    pc,         \* what is coded next
    at,         \* which bit of the marker
    got,        \* bytes coded so far, by the encoder and then by the decoder
    byte,       \* result: the bits so far of the byte that is coded, behind a 1
    count,      \* history: the bits the decoder has read
    trail       \* history: where the encoder was, before and after every bit

encvars == <<options, header, enc, probs, trail>>
decvars == <<params, target, dec, is_match, literal_probs, count>>
vars    == <<text, encvars, decvars, pc, at, got, byte>>

\* The encoder's probabilities.
IsMatchCell(len)        == <<"is_match", len % Pow2(Pb), 0>>
LiteralCell(prev, node) == <<"literal", prev \div Pow2(LitBits - Lc), node>>

Cells == ({"is_match"} \X (0..(Pow2(Pb) - 1)) \X {0})
            \cup ({"literal"} \X (0..(Pow2(Lc) - 1)) \X (1..(Pow2(LitBits) - 1)))

Fresh == [c \in Cells |-> Half]

\* The decoder's: those of a literal are in a Vec2D.
NewIsMatch(p)  == [i \in 0..(Pow2(p.pb) - 1) |-> Half]
NewLiterals(p) == Grid(Half, Pow2(p.lc + p.lp), 3 * Pow2(LitBits))

\* prev_byte
Prev == IF got = <<>> THEN 0 ELSE got[Len(got)]

NoParams == [props |-> Properties(0), dict |-> MinDict, size |-> NoSize]

\* Where the encoder is (for the history).
Now == [pc |-> pc, at |-> at, got |-> got, byte |-> byte, enc |-> enc, probs |-> probs]

Init ==
    /\ text \in Texts
    /\ options \in EncoderOptions({NoSize, Len(text)} \cup Sizes)
    /\ header = <<>> /\ enc = NewEncoder /\ probs = Fresh /\ trail = <<>>
    /\ params = NoParams /\ target = NoSize /\ dec = NewDecoder(<<>>)
    /\ is_match = NewIsMatch(params.props) /\ literal_probs = NewLiterals(params.props)
    /\ pc = "encode_header" /\ at = 0 /\ got = <<>> /\ byte = 1 /\ count = 0

-----------------------------------------------------------------------------
(* The encoder *)

\* from_stream
EncodeHeader ==
    /\ pc = "encode_header"
    /\ header' = Header(Lc, 0, Pb, options) /\ pc' = "encode"
    /\ UNCHANGED <<text, options, enc, probs, decvars, at, got, byte>>
    /\ trail' = <<Now'>>

\* A bit is coded (for the history).
Noted == trail' = Append(trail, Now')

Encodes(prob, bit) ==
    /\ enc' = encode_bit(enc, prob, bit)
    /\ UNCHANGED <<text, options, header, decvars>>

EncodesIn(cell, bit) ==
    /\ Encodes(probs[cell], bit)
    /\ probs' = [probs EXCEPT ![cell] = Adapted(@, bit)]

\* process: a literal is announced.
EncodeIsMatch ==
    /\ pc = "encode" /\ Len(got) < Len(text)
    /\ EncodesIn(IsMatchCell(Len(got)), 0)
    /\ pc' = "encode_literal" /\ byte' = 1
    /\ UNCHANGED <<at, got>>
    /\ Noted

\* A bit has been appended to byte; the last one completes it.
GoesOn(bit, next) ==
    LET whole == 2 * byte + bit
    IN  IF whole >= Pow2(LitBits)
        THEN pc' = next /\ got' = Append(got, whole - Pow2(LitBits)) /\ byte' = 1
        ELSE byte' = whole /\ UNCHANGED <<pc, got>>

\* encode_literal: the next bit of the byte, the highest first.
EncodeLiteral ==
    /\ pc = "encode_literal"
    /\ LET rest == CHOOSE n \in 0..(LitBits - 1) : Pow2(LitBits - 1 - n) <= byte
                                                /\ byte < Pow2(LitBits - n)
           bit  == (text[Len(got) + 1] \div Pow2(rest)) % 2
       IN  /\ EncodesIn(LiteralCell(Prev, byte), bit)
           /\ GoesOn(bit, "encode")
    /\ UNCHANGED at
    /\ Noted

\* Whether an end marker is written.
marker == options.skip = FALSE /\ options.size = NoSize

\* The bits of the end marker behind the first: no repeated distance, the
\* shortest length, the longest distance.
Zeros == 2 + LenBits
MarkerLen == Zeros + SlotBits + DirectBits + AlignBits
MarkerBit(i) == IF i <= Zeros THEN 0 ELSE 1

\* finish, with a marker: after no byte at all it is announced as after one.
EncodeMarkerStart ==
    /\ pc = "encode" /\ got = text /\ marker
    /\ EncodesIn(IsMatchCell(IF text = <<>> THEN 1 ELSE Len(text)), 1)
    /\ pc' = "encode_marker" /\ at' = 1
    /\ UNCHANGED <<got, byte>>
    /\ Noted

\* Every other bit is coded with a probability of one half of its own, those
\* too that the decoder reads without one.
EncodeMarker ==
    /\ pc = "encode_marker"
    /\ Encodes(Half, MarkerBit(at))
    /\ IF at = MarkerLen THEN pc' = "flush" /\ at' = 0
                         ELSE at' = at + 1 /\ UNCHANGED pc
    /\ UNCHANGED <<probs, got, byte>>
    /\ Noted

\* The range encoder is finished, and the encoder gone.
Flush ==
    /\ pc = "flush" \/ (pc = "encode" /\ got = text /\ ~marker)
    /\ enc' = Flushed(enc) /\ probs' = Fresh
    /\ pc' = "written" /\ got' = <<>>
    /\ UNCHANGED <<text, options, header, trail, decvars, at, byte>>

\* The sink, or the reader of the input, fails.
EncoderFails ==
    /\ pc \in {"encode_header", "encode", "encode_literal", "encode_marker", "flush"}
    /\ pc' = "unwritten"
    /\ UNCHANGED <<text, encvars, decvars, at, got, byte>>

-----------------------------------------------------------------------------
(* The decoder *)

\* read_header, with options that agree with the encoder's on whether there is
\* a size in the header, and LzmaDecoder::new.  (With a header that is too
\* short, nothing is made.)
ReadHeader ==
    /\ pc = "written"
    /\ \E o \in DecoderOptions({NoSize, Len(text)} \cup Sizes) :
          /\ o.from # "provided" <=> Len(header) = 3
          /\ params' = Params(header, o)
    /\ target' = params'.size
    /\ is_match' = NewIsMatch(params'.props) /\ literal_probs' = NewLiterals(params'.props)
    /\ pc' = "ready"
    /\ UNCHANGED <<text, encvars, dec, count, at, got, byte>>

\* A slip for Reset: the literals' probabilities are kept.
ResetLess ==
    /\ pc \in {"done", "lost", "failed"}
    /\ is_match' = NewIsMatch(params.props) /\ UNCHANGED literal_probs
    /\ target' \in {target, NoSize, Len(text)} \cup Sizes
    /\ pc' = "ready" /\ got' = <<>> /\ byte' = 1 /\ at' = 0
    /\ UNCHANGED <<text, encvars, params, dec, count>>

\* reset, with another size or the one there is.  (The rest of what was output
\* goes with the call that failed.)
Reset ==
    /\ pc \in {"done", "lost", "failed"}
    /\ is_match' = NewIsMatch(params.props) /\ literal_probs' = Fill(literal_probs, Half)
    /\ target' \in {target, NoSize, Len(text)} \cup Sizes
    /\ pc' = "ready" /\ got' = <<>> /\ byte' = 1 /\ at' = 0
    /\ UNCHANGED <<text, encvars, params, dec, count>>

input == enc.out

\* decompress
Decompress ==
    /\ pc = "ready"
    /\ dec' = NewDecoder(input) /\ count' = 0 /\ pc' = "decode"
    /\ UNCHANGED <<text, encvars, params, target, is_match, literal_probs, at, got, byte>>

\* process_mode ends at its head.
Ends == IF target = NoSize THEN is_finished_ok(dec, input) ELSE Len(got) >= target

DecoderStops ==
    /\ pc = "decode" /\ Ends
    /\ pc' = IF target \in {NoSize, Len(got)} THEN "done" ELSE "lost"
    /\ UNCHANGED <<text, encvars, decvars, at, got, byte>>

\* The bit and the decoder behind it are d; without a byte where one is read
\* the decoder fails, at the end of the input or before.
Reads(d, Continues) ==
    /\ dec' = d.dec /\ count' = count + 1
    /\ \/ d.dec.pos <= Len(input) /\ Continues
       \/ d.dec.pos > Len(input) /\ pc' = "lost" /\ UNCHANGED <<at, got, byte>>
       \/ d.dec.pos > dec.pos /\ pc' = "failed" /\ UNCHANGED <<at, got, byte>>
    /\ UNCHANGED <<text, encvars, params, target>>

DecodeIsMatch ==
    /\ pc = "decode" /\ ~Ends
    /\ LET pos_state == Len(got) % Pow2(params.props.pb)
           d == decode_bit(dec, is_match[pos_state], input)
       IN  /\ Reads(d, /\ IF d.bit = 0 THEN pc' = "decode_literal" /\ UNCHANGED at
                                       ELSE pc' = "decode_marker" /\ at' = 1
                       /\ UNCHANGED <<got, byte>>)
           /\ is_match' = [is_match EXCEPT ![pos_state] = Adapted(@, d.bit)]
    /\ UNCHANGED literal_probs

\* The context of a literal: the low bits of where it is, the high ones of the
\* byte before.
lit_state ==
    LET p == params.props
    IN  (Len(got) % Pow2(p.lp)) * Pow2(p.lc) + (Prev \div Pow2(LitBits - p.lc))

\* decode_literal, with nothing but literals before.
DecodeLiteral ==
    /\ pc = "decode_literal"
    /\ LET prob == Get(literal_probs, lit_state, byte)
           d    == decode_bit(dec, prob, input)
       IN  /\ Reads(d, GoesOn(d.bit, "decode") /\ UNCHANGED at)
           /\ literal_probs' = Set(literal_probs, lit_state, byte, Adapted(prob, d.bit))
    /\ UNCHANGED is_match

\* The bits at i and on are read without a context.
Direct(i) == i > Zeros + SlotBits /\ i <= Zeros + SlotBits + DirectBits

\* A match: every bit is the first that is read in its context.  Only the bits
\* of the marker lead to it, at the end of the input; a size it does not agree
\* with is noticed behind it.
DecodeMarker ==
    /\ pc = "decode_marker"
    /\ LET d == IF Direct(at) THEN get_bit(dec, input)
                              ELSE decode_bit(dec, Half, input)
           lost == \/ d.bit # MarkerBit(at)
                   \/ at = MarkerLen /\ ~is_finished_ok(d.dec, input)
                   \/ at = MarkerLen /\ target \notin {NoSize, Len(got)}
       IN  Reads(d, /\ IF lost THEN pc' = "lost" /\ UNCHANGED at
                       ELSE IF at = MarkerLen THEN pc' = "done" /\ at' = 0
                       ELSE at' = at + 1 /\ UNCHANGED pc
                    /\ UNCHANGED <<got, byte>>)
    /\ UNCHANGED <<is_match, literal_probs>>

Next ==
    \/ EncodeHeader \/ EncodeIsMatch \/ EncodeLiteral \/ EncodeMarkerStart
    \/ EncodeMarker \/ Flush \/ EncoderFails
    \/ ReadHeader \/ Reset \/ Decompress
    \/ DecoderStops \/ DecodeIsMatch \/ DecodeLiteral \/ DecodeMarker

Spec == Init /\ [][Next]_vars

-----------------------------------------------------------------------------
(* Properties *)

Encoding == pc \in {"encode", "encode_literal", "encode_marker", "flush"}
Decoding == pc \in {"decode", "decode_literal", "decode_marker"}

\* Type invariant.  No bit is ever certain, and one byte at a time is enough to
\* keep the range (the decoder shifts it once, the encoder until it is right).
TypeOK ==
    /\ enc.low \in 0..(2 * Word - 1) /\ enc.cache \in 0..(Base - 1) /\ enc.cachesz > 0
    /\ \A c \in Cells : probs[c] \in 1..(ProbTotal - 1)
    /\ \A i \in DOMAIN is_match : is_match[i] \in 1..(ProbTotal - 1)
    /\ \A i \in DOMAIN literal_probs.data : literal_probs.data[i] \in 1..(ProbTotal - 1)
    /\ enc.range \in Top..(Word - 1)
    /\ Decoding => dec.range \in Top..(Word - 1)
    /\ byte \in 1..(Pow2(LitBits) - 1) /\ at \in 0..MarkerLen
    /\ target \in {NoSize, Len(text)} \cup Sizes

\* A carry finds room in the first byte that waits, so that it never has to be
\* added to a byte already written.
CarryFits ==
    Encoding /\ enc.cache = Base - 1 => enc.low + enc.range <= Word

\* A probability of the decoder, by the cell the encoder has it in.
ProbAt(c) == IF c[1] = "is_match" THEN is_match[c[2]] ELSE Get(literal_probs, c[2], c[3])

\* After as many bits the decoder is where the encoder was: in the same bit of
\* the same byte, with the same range and the same probabilities, having read
\* what the encoder had written or kept back and one word more; and its code is
\* below the range.  That includes the bits that the encoder takes a probability
\* of one half for and the decoder halves the range, which are the same only
\* because the bits before have left the range a multiple of ProbTotal.
DecoderInStep ==
    Decoding =>
        /\ dec.code < dec.range
        /\ count < Len(trail) =>
              LET then == trail[count + 1]
              IN  /\ dec.range = then.enc.range
                  /\ dec.pos = Len(then.enc.out) + then.enc.cachesz + WordBytes
                  /\ <<got, byte, at>> = <<then.got, then.byte, then.at>>
                  /\ pc # "decode_marker" => \A c \in Cells : ProbAt(c) = then.probs[c]

\* The decoder knows where the text ends: by its size, or by the end marker.
SizeKnown == target = Len(text) \/ (target = NoSize /\ marker)

\* Then it gets the bytes back, in the first call or after a call that failed
\* and a reset; with an end marker it finds its end where the input ends, and
\* without one there is nothing behind either.
Returned ==
    SizeKnown =>
        /\ pc # "lost"
        /\ pc = "done" => got = text
        /\ pc = "done" /\ (marker => target = NoSize) => is_finished_ok(dec, input)

\* Whatever size it is told, every byte it yields is one of the text or, behind
\* its end, 0; what it returns as complete has that size, and without one it is
\* the text without some zeros at its end.
Faithful ==
    /\ \A i \in 1..Len(got) : got[i] = IF i <= Len(text) THEN text[i] ELSE 0
    /\ pc = "done" =>
          IF target = NoSize THEN \A i \in (Len(got) + 1)..Len(text) : text[i] = 0
                             ELSE Len(got) = target
    /\ pc = "lost" => target # NoSize /\ target > Len(text)

\* What is compressed is decompressed, over the options of both sides.
RoundTrip == Returned /\ Faithful

=============================================================================
