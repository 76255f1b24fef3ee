---------------------------- MODULE Lzma2Encoder ----------------------------
(***************************************************************************)
(* encode::lzma2::encode_stream: what the reader yields goes into chunks   *)
(* that are not compressed and reset the dictionary.  The stream is a      *)
(* sequence of fields: a status, a size, the bytes of the chunk.           *)
(***************************************************************************)
EXTENDS Integers, Sequences

CONSTANTS
    Inputs,    \* what there is to compress
    BufSize,   \* length of buf (0x10000)
    SizeWord   \* the values of a 16-bit size (0x10000)

VARIABLES
    input,    \* the bytes the reader has from the start
    at,       \* how many of them it has yielded
    stream,   \* the fields that are written
    encoder   \* "off", "on", "done", or "failed"

Init == input = <<>> /\ at = 0 /\ stream = <<>> /\ encoder = "off"

\* encode_stream is called.
Starts ==
    /\ encoder \in {"off", "done", "failed"} /\ encoder' = "on"
    /\ input' \in Inputs /\ at' = 0 /\ stream' = <<>>

\* A slip for Chunk: the size is written as it is.
ChunkWhole ==
    /\ encoder = "on"
    /\ \E n \in 1..BufSize :
          /\ at + n <= Len(input) /\ at' = at + n
          /\ stream' = stream \o <<1, n % SizeWord>> \o SubSeq(input, at + 1, at + n)
    /\ UNCHANGED <<input, encoder>>

\* A read yields n bytes, as many as there are or fewer.
Chunk ==
    /\ encoder = "on"
    /\ \E n \in 1..BufSize :
          /\ at + n <= Len(input) /\ at' = at + n
          /\ stream' = stream \o <<1, (n - 1) % SizeWord>> \o SubSeq(input, at + 1, at + n)
    /\ UNCHANGED <<input, encoder>>

\* A read yields nothing.
End ==
    /\ encoder = "on" /\ at = Len(input)
    /\ stream' = Append(stream, 0) /\ encoder' = "done"
    /\ UNCHANGED <<input, at>>

\* The reader or the writer returns an error.
Fail == encoder = "on" /\ encoder' = "failed" /\ UNCHANGED <<input, at, stream>>

Next == Starts \/ Chunk \/ End \/ Fail

=============================================================================
