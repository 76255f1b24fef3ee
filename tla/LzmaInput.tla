------------------------------ MODULE LzmaInput ------------------------------
(***************************************************************************)
(* A compressed .lzma input, seen as the decoder sees it, and the result   *)
(* of the one-shot decoder (lzma_decompress_with_options) on its prefixes. *)
(*                                                                         *)
(* The range coder decides what a byte means, so the input is abstracted   *)
(* to what decoding it yields.  A file is a record with the fields         *)
(*   props   the first header byte is valid (below 225)                    *)
(*   size    the unpacked size the decoder works with, or NoSize           *)
(*   count   the number of symbols that can be decoded from it             *)
(*   ends    ends[i]: payload bytes consumed once i symbols are decoded    *)
(*   outs    outs[i]: bytes of output once i symbols are decoded           *)
(*   zero    the i such that the range coder's code is 0 after i symbols   *)
(*   last    what the last symbol is: an ordinary symbol ("data"), an      *)
(*           end-of-stream marker ("eos") or a match that reaches before   *)
(*           the start of the output ("bad")                               *)
(*   len     its length in bytes, header included                          *)
(* A symbol may take no byte at all (the coder need not renormalise) and   *)
(* never takes more than MaxReq bytes.  The payload starts after the       *)
(* header and the StartBytes bytes that initialise the range decoder.      *)
(***************************************************************************)
EXTENDS Integers

CONSTANTS
    HeaderLen,   \* bytes of the header: 13, or 5 when the size is not in it
    StartBytes,  \* bytes RangeDecoder::new reads
    MaxReq,      \* MAX_REQUIRED_INPUT: no symbol takes more bytes
    NoSize       \* unpacked_size is None

ASSUME HeaderAssumption == HeaderLen \in Nat \ {0} /\ StartBytes \in Nat \ {0}
ASSUME MaxReqAssumption == MaxReq \in Nat \ {0}
ASSUME NoSizeAssumption == NoSize \notin Nat

\* The bytes that are read before the first symbol.
Prefix == HeaderLen + StartBytes

Kinds == {"data", "eos", "bad"}

\* The kind of the i-th symbol.
Kind(f, i) == IF i = f.count THEN f.last ELSE "data"

\* Symbols are in order, take at most MaxReq bytes, ordinary ones output
\* something and the others nothing; and the file ends before the bytes of
\* one more symbol, so that what is not in the record is never decoded.
WellFormed(f) ==
    /\ f.props \in BOOLEAN
    /\ f.count \in Nat /\ f.len \in Nat
    /\ f.size \in Nat \cup {NoSize}
    /\ f.last \in Kinds
    /\ f.zero \subseteq 0..f.count
    /\ f.ends \in [0..f.count -> Nat] /\ f.ends[0] = 0
    /\ f.outs \in [0..f.count -> Nat] /\ f.outs[0] = 0
    /\ f.last # "data" => f.count > 0
    /\ \A i \in 0..(f.count - 1) :
          /\ f.ends[i] <= f.ends[i + 1] /\ f.ends[i + 1] <= f.ends[i] + MaxReq
          /\ IF Kind(f, i + 1) = "data" THEN f.outs[i] < f.outs[i + 1]
                                        ELSE f.outs[i] = f.outs[i + 1]
    /\ f.last = "data" => f.len < Prefix + f.ends[f.count] + MaxReq

\* output.len() >= unpacked_size, once i symbols are decoded.
SizeMet(f, i) == f.size # NoSize /\ f.outs[i] >= f.size

\* is_finished_ok() after i symbols, when the input has p payload bytes.
AtCleanEnd(f, i, p) == i \in f.zero /\ f.ends[i] = p

\* The one-shot loop leaves at its head, after i symbols.
Leaves(f, i, p) == IF f.size # NoSize THEN SizeMet(f, i)
                                      ELSE AtCleanEnd(f, i, p)

\* The one-shot loop comes to its head with i symbols decoded.
Reached(f, i, p) ==
    /\ i = 0 \/ Kind(f, i) = "data"
    /\ f.ends[i] <= p
    /\ \A j \in 0..(i - 1) : ~Leaves(f, j, p)

\* The one-shot loop leaves without an error after i symbols: at its head, or
\* because symbol i is an end marker with nothing behind it.
EndsWith(f, i, p) ==
    \/ Reached(f, i, p) /\ Leaves(f, i, p)
    \/ /\ i > 0 /\ Kind(f, i) = "eos" /\ AtCleanEnd(f, i, p)
       /\ Reached(f, i - 1, p) /\ ~Leaves(f, i - 1, p)

\* The one-shot decoder accepts the first n bytes of f, with i symbols:
\* the header and the range decoder could be read, the loop left without an
\* error and the size it was told, if any, is the size it produced.
AcceptsWith(f, n, i) ==
    /\ f.props /\ n >= Prefix
    /\ EndsWith(f, i, n - Prefix)
    /\ f.size = NoSize \/ f.outs[i] = f.size

OneShotOk(f, n) == \E i \in 0..f.count : AcceptsWith(f, n, i)

\* The n first bytes are enough to produce the size that was announced.
Satisfied(f, n) ==
    /\ f.props /\ n >= Prefix
    /\ \E i \in 0..f.count : Reached(f, i, n - Prefix) /\ SizeMet(f, i)

\* No input that starts with the n first bytes of f is accepted.
Hopeless(f, n) == \A m \in n..f.len : ~OneShotOk(f, m)

=============================================================================
