----------------------------- MODULE XzRoundTrip -----------------------------
(***************************************************************************)
(* The XZ decoder on a stream the XZ encoder has written, or on any other. *)
(***************************************************************************)
EXTENDS XzDecoder

VARIABLE sent   \* <<the stream>> if the encoder has written it, or <<>>

FromEncoder == sent # <<>>

RTInit == Init /\ sent \in Maybe(EncodedStreams)

\* The decoder finds the fields of the stream, in their order.
Reads(stream) ==
    \/ Header(stream.header)
    \/ seen.blocks = <<>> /\ BlockHeader(stream.block.header)
    \/ BlockData(stream.block.data)
    \/ BlockEnd(stream.block.padding, TRUE)
    \/ seen.blocks # <<>> /\ Index(stream.index)
    \/ Footer(stream.footer)
    \/ Ended

DecodesEncoded == FromEncoder /\ Reads(sent[1]) /\ UNCHANGED sent

DecodesAny == ~FromEncoder /\ Next /\ UNCHANGED sent

RTNext == DecodesEncoded \/ DecodesAny

RTSpec == RTInit /\ [][RTNext]_<<vars, sent>>

-----------------------------------------------------------------------------
(* Properties *)

\* The decoder accepts what the encoder writes, however the input comes and
\* the output is taken, and yields the bytes that were compressed (unless its
\* own sink fails).
RoundTrip ==
    FromEncoder =>
        /\ pc = "failed" => Len(output) > Len(records)
        /\ pc = "ok" =>
               output = <<[size |-> sent[1].block.data.unpacked, verified |-> TRUE]>>

=============================================================================
