------------------------------ MODULE XzEncoder ------------------------------
(***************************************************************************)
(* encode::xz::encode_stream, and the chunk loop of encode::lzma2: the     *)
(* fields of the stream that is written for n bytes.  A field has its      *)
(* value, the bytes it takes where they may vary, and TRUE or FALSE for a  *)
(* checksum, a magic or a padding that is as it should be.                 *)
(***************************************************************************)
EXTENDS Integers, Sequences

CONSTANTS
    InputSizes,   \* the bytes there are to compress
    ShortReads,   \* the reader yields less at a time than there is
    ShortWrites,  \* the writer takes less at a time than it is given
    Word          \* the values of a u32 (2^32)

ASSUME InputAssumption == InputSizes \subseteq Nat /\ ShortReads \in BOOLEAN
ASSUME WriterAssumption == ShortWrites \in BOOLEAN
ASSUME WordAssumption == Word \in Nat \ {0} /\ Word % 4 = 0

\* A slip for Padding: the 1 is not added.
PaddingLess(n) == 3 - (n % 4)

\* ((n ^ 3) + 1) & 3
Padding(n) == ((3 - (n % 4)) + 1) % 4

\* The bytes that a number takes: ten for a u64 that has no fewer (these, which
\* the decoder would refuse, do not occur).
Multibyte(v) ==
    CHOOSE n \in 1..10 :
        (v < 128 ^ n \/ n = 10) /\ \A m \in 1..(n - 1) : ~ (v < 128 ^ m)

\* The bytes of n in c chunks, each with its status and size, and of the end.
Lzma2(n, c) == n + 3 * c + 1

\* There is a chunk for every read, of 65536 bytes at most.
Chunks(n) ==
    LET fewest == (n + 65535) \div 65536
    IN  IF ShortReads THEN {c \in fewest..(fewest + 2) : c <= n} ELSE {fewest}

\* A slip for Unpadded: the padding is counted.
UnpaddedWhole(n, c) == 12 + Lzma2(n, c) + Padding(12 + Lzma2(n, c))

Unpadded(n, c) == 12 + Lzma2(n, c)

\* The flags are handed to the sink once, which may take one of the two bytes:
\* then what is read as the flags and their checksum does not match.
WriteHeader(taken) == [magic |-> TRUE, method |-> "none", crc |-> taken = 2]

\* The header has 12 bytes: no sizes, one filter with a byte of properties.
WriteBlock(n, c) ==
    [header |-> [size |-> 2, reserved |-> FALSE, packed |-> <<>>, unpacked |-> <<>>,
                 filters |-> <<1>>, longer |-> 0, known |-> TRUE, zero |-> TRUE,
                 crc |-> TRUE],
     data |-> [good |-> TRUE, packed |-> Lzma2(n, c), unpacked |-> n],
     padding |-> [bytes |-> Padding(Unpadded(n, c)), zero |-> TRUE]]

WriteIndex(n, c) ==
    LET records == <<[unpadded |-> Unpadded(n, c), unpacked |-> n]>>
        bytes   == 1 + Multibyte(1) + Multibyte(Unpadded(n, c)) + Multibyte(n)
    IN  [records |-> records, longer |-> 0,
         padding |-> [bytes |-> Padding(bytes), zero |-> TRUE], crc |-> TRUE]

WrittenIndexSize(n, c) ==
    LET bytes == 1 + Multibyte(1) + Multibyte(Unpadded(n, c)) + Multibyte(n)
    IN  bytes + Padding(bytes) + 4

WriteFooter(size) ==
    [crc |-> TRUE, backward |-> (size \div 4 - 1) % Word, method |-> "none",
     magic |-> TRUE, eof |-> TRUE]

\* encode_stream
Encoded(n, c, taken) ==
    [header |-> WriteHeader(taken), block |-> WriteBlock(n, c),
     index |-> WriteIndex(n, c), footer |-> WriteFooter(WrittenIndexSize(n, c))]

EncodedStreams ==
    UNION {{Encoded(n, c, taken) :
               c \in Chunks(n), taken \in IF ShortWrites THEN {1, 2} ELSE {2}} :
           n \in InputSizes}

=============================================================================
