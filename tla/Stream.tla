------------------------------- MODULE Stream -------------------------------
(***************************************************************************)
(* decode::stream::Stream, the decoder behind the io::Write interface:     *)
(* the caller pushes chunks of any size, and the decoder keeps what it     *)
(* cannot decode yet in two small buffers, tmp (while the header is read)  *)
(* and partial_input_buf (once symbols are decoded).  The loop of          *)
(* DecoderState::process_mode is modelled step by step, one symbol a step. *)
(*                                                                         *)
(* A byte of the input is represented by its offset, so that a buffer is a *)
(* sequence of offsets and a byte lost, repeated or moved shows.           *)
(***************************************************************************)
EXTENDS LzmaInput, Sequences

CONSTANTS
    Files,            \* the inputs considered
    MaxHeaderLen,     \* MAX_HEADER_LEN
    MaxChunk,         \* bound: the longest chunk offered to write
    AllowIncomplete,  \* Options.allow_incomplete
    SinkMayFail       \* the output sink may return an error

ASSUME FilesAssumption == \A f \in Files : WellFormed(f)
ASSUME MaxHeaderAssumption == MaxHeaderLen \in Nat /\ HeaderLen <= MaxHeaderLen
ASSUME MaxChunkAssumption == MaxChunk \in Nat
ASSUME OptionsAssumption == AllowIncomplete \in BOOLEAN /\ SinkMayFail \in BOOLEAN

\* MAX_TMP_LEN, the capacity of tmp.
MaxTmp == MaxHeaderLen + StartBytes

VARIABLES
    file,     \* the input the caller has, fixed at the start
    sent,     \* bytes of it that write has accepted
    state,    \* Stream.state: Some(Header), Some(Data) or None
    tmp,      \* Stream.tmp, up to its position
    partial,  \* DecoderState.partial_input_buf, up to its position
    done,     \* symbols decoded
    pc,       \* the call under way, and how far it is
    chunk,    \* the data argument of the write under way
    rest,     \* what is unread of the reader being decoded
    result    \* what the last call answered

vars == <<file, sent, state, tmp, partial, done, pc, chunk, rest, result>>

-----------------------------------------------------------------------------
(* Sequences of bytes *)

\* The bytes at offsets a + 1 .. b.
Run(a, b) == [i \in 1..(b - a) |-> a + i]

Least(a, b) == IF a <= b THEN a ELSE b

First(s, n) == SubSeq(s, 1, n)
Skip(s, n)  == SubSeq(s, n + 1, Len(s))

-----------------------------------------------------------------------------
(* Results of calls *)

None      == [call |-> "none"]
Wrote(k)  == [call |-> "write", ok |-> TRUE, n |-> k]
WriteErr  == [call |-> "write", ok |-> FALSE]
Done(n)   == [call |-> "finish", ok |-> TRUE, out |-> n]
FinishErr == [call |-> "finish", ok |-> FALSE]

Init ==
    /\ file \in Files
    /\ sent = 0 /\ state = "Header"
    /\ tmp = <<>> /\ partial = <<>> /\ done = 0
    /\ pc = "idle" /\ chunk = <<>> /\ rest = <<>>
    /\ result = None

\* Ok(n) from write.
WriteReturns(n) ==
    /\ sent' = sent + n
    /\ result' = Wrote(n)
    /\ pc' = "idle" /\ chunk' = <<>> /\ rest' = <<>>

\* An error from write: the state was taken and is not put back.
WriteFails ==
    /\ state' = "None"
    /\ result' = WriteErr
    /\ pc' = "idle" /\ chunk' = <<>> /\ rest' = <<>>
    /\ UNCHANGED sent

\* An answer of finish, which consumed the stream.
FinishReturns(r) ==
    /\ result' = r
    /\ pc' = "closed" /\ chunk' = <<>> /\ rest' = <<>>
    /\ UNCHANGED <<sent, state>>

-----------------------------------------------------------------------------
(* The caller *)

\* write(data), with data the next n bytes.
Write(n) ==
    /\ pc = "idle"
    /\ sent + n <= file.len
    /\ chunk' = Run(sent, sent + n)
    /\ pc' = "write"
    /\ UNCHANGED <<file, sent, state, tmp, partial, done, rest, result>>

\* finish(): the stream is consumed.
Finish ==
    /\ pc = "idle"
    /\ pc' = "finish"
    /\ UNCHANGED <<file, sent, state, tmp, partial, done, chunk, rest, result>>

-----------------------------------------------------------------------------
(* write while the header is read *)

\* What read_header makes of the bytes of b.
HeaderBad(b)  == Len(b) > 0 /\ ~file.props
HeaderRead(b) == file.props /\ Len(b) >= Prefix

\* The bytes write moves from the chunk to tmp.
Moved == First(chunk, Least(MaxTmp - Len(tmp), Len(chunk)))

\* The bytes the header is read from: the chunk itself, or tmp filled up with
\* the chunk as soon as tmp holds something.
HeaderInput == IF tmp = <<>> THEN chunk ELSE tmp \o Moved

WriteHeader ==
    /\ pc = "write" /\ state = "Header"
    /\ \/ /\ HeaderBad(HeaderInput)
          /\ WriteFails
          /\ tmp' = IF tmp = <<>> THEN tmp ELSE HeaderInput
       \/ /\ HeaderRead(HeaderInput)
          /\ state' = "Data"
          /\ IF tmp = <<>> THEN tmp' = tmp /\ WriteReturns(Prefix)
                           ELSE /\ tmp' = Skip(HeaderInput, Prefix)
                                /\ WriteReturns(Len(Moved))
       \/ /\ ~HeaderBad(HeaderInput) /\ ~HeaderRead(HeaderInput)
          /\ tmp' = tmp \o Moved
          /\ WriteReturns(Len(Moved))
          /\ UNCHANGED state
    /\ UNCHANGED <<file, partial, done>>

\* write after a write that failed: nothing is accepted.
WriteDead ==
    /\ pc = "write" /\ state = "None"
    /\ WriteReturns(0)
    /\ UNCHANGED <<file, state, tmp, partial, done>>

\* write once the header is read: what is left in tmp first, then the chunk.
WriteData ==
    /\ pc = "write" /\ state = "Data"
    /\ IF tmp # <<>> THEN pc' = "tmp" /\ rest' = tmp
                     ELSE pc' = "input" /\ rest' = chunk
    /\ UNCHANGED <<file, sent, state, tmp, partial, done, chunk, result>>

-----------------------------------------------------------------------------
(* process_mode: the loop, in mode Partial or Finish *)

Looping   == pc \in {"tmp", "input", "flush"}
Finishing == pc = "flush"

\* A slip for LoopEnds: partial_input_buf is not looked at.
LoopEndsAtEof ==
    IF file.size # NoSize
    THEN file.outs[done] >= file.size
    ELSE rest = <<>> /\ (Finishing => done \in file.zero)

\* The condition of the break at the head of the loop.
LoopEnds ==
    IF file.size # NoSize
    THEN file.outs[done] >= file.size
    ELSE /\ rest = <<>> /\ partial = <<>>
         /\ Finishing => done \in file.zero

\* A slip for Refill: the room left in partial_input_buf is not looked at.
RefillWithAll == rest

\* What the next symbol is decoded from: the rest of the reader, or
\* partial_input_buf once it holds something, filled up from the reader.
Refill == First(rest, Least(MaxReq - Len(partial), Len(rest)))
Buf    == IF partial = <<>> THEN rest ELSE partial \o Refill

\* The bytes of the next symbol, if the input has one.
NextLen == file.ends[done + 1] - file.ends[done]

\* Decoding the next symbol runs out of bytes.  After an end marker the code
\* is 0, so the next symbol is a literal; it needs the byte at distance
\* rep[0] + 1 = 2^32, which no window holds, and fails as well.
Short == done < file.count => NextLen > Len(Buf)

\* A slip for MustWait: a full buffer is waited on too (<= for <).
MustWaitWhenFull == ~Finishing /\ Len(Buf) <= MaxReq /\ Short

\* try_process_next fails on a buffer too small for an arbitrary symbol.
MustWait == ~Finishing /\ Len(Buf) < MaxReq /\ Short

NextKind == Kind(file, done + 1)

\* A slip for Consume: partial_input_buf is emptied instead of shifted.
ConsumeAll ==
    /\ done' = done + 1
    /\ IF partial = <<>>
       THEN partial' = <<>> /\ rest' = Skip(rest, NextLen)
       ELSE partial' = <<>> /\ rest' = Skip(rest, Len(Refill))

\* The symbol is decoded: its bytes leave the buffer it was read from.
Consume ==
    /\ done' = done + 1
    /\ IF partial = <<>>
       THEN partial' = <<>> /\ rest' = Skip(rest, NextLen)
       ELSE partial' = Skip(Buf, NextLen) /\ rest' = Skip(rest, Len(Refill))

\* process_mode returns Ok with d symbols decoded, leaving r unread.
LoopReturns(d, r) ==
    \/ /\ pc = "tmp"
       /\ tmp' = <<>> /\ pc' = "input" /\ rest' = chunk
       /\ UNCHANGED <<sent, state, chunk, result>>
    \/ /\ pc = "input"
       /\ WriteReturns(Len(chunk) - Len(r))
       /\ UNCHANGED <<state, tmp>>
    \/ /\ pc = "flush"
       /\ IF file.size # NoSize /\ file.outs[d] # file.size
          THEN FinishReturns(FinishErr)
          ELSE \/ FinishReturns(Done(file.outs[d]))
               \/ SinkMayFail /\ FinishReturns(FinishErr)
       /\ UNCHANGED tmp

\* process_mode returns an error.
LoopFails ==
    /\ IF Finishing THEN FinishReturns(FinishErr) ELSE WriteFails
    /\ UNCHANGED tmp

\* The loop breaks at its head.
LoopStops ==
    /\ Looping /\ LoopEnds
    /\ LoopReturns(done, rest)
    /\ UNCHANGED <<file, partial, done>>

\* More bytes are needed: they are kept in partial_input_buf until then.
WaitForInput ==
    /\ Looping /\ ~LoopEnds /\ MustWait
    /\ partial' = Buf
    /\ LoopReturns(done, Skip(rest, Len(Buf) - Len(partial)))
    /\ UNCHANGED <<file, done>>

\* process_next decodes an ordinary symbol and appends its output.
DecodeSymbol ==
    /\ Looping /\ ~LoopEnds /\ ~Short
    /\ NextKind = "data"
    /\ \/ Consume /\ UNCHANGED <<sent, state, tmp, pc, chunk, result>>
       \/ SinkMayFail /\ LoopFails /\ UNCHANGED <<partial, done>>
    /\ UNCHANGED file

\* process_next decodes an end-of-stream marker with nothing behind it.
DecodeMarker ==
    /\ Looping /\ ~LoopEnds /\ ~Short
    /\ NextKind = "eos" /\ done + 1 \in file.zero /\ NextLen = Len(Buf)
    /\ done' = done + 1 /\ partial' = <<>>
    /\ LoopReturns(done + 1, IF partial = <<>> THEN <<>> ELSE Skip(rest, Len(Refill)))
    /\ UNCHANGED file

\* process_next fails: the bytes end inside the symbol, a match reaches
\* before the start of the output, or a marker is not the end of the input.
DecodeFails ==
    /\ Looping /\ ~LoopEnds /\ ~MustWait
    /\ \/ Short
       \/ NextKind = "bad"
       \/ NextKind = "eos" /\ ~(done + 1 \in file.zero /\ NextLen = Len(Buf))
    /\ LoopFails
    /\ UNCHANGED <<file, partial, done>>

-----------------------------------------------------------------------------
(* finish *)

\* A slip for FinishEarly: a header cut short is taken for an empty stream.
FinishEarlyUnchecked ==
    /\ pc = "finish" /\ state # "Data"
    /\ IF state = "Header"
       THEN FinishReturns(Done(0))
       ELSE FinishReturns(FinishErr)
    /\ UNCHANGED <<file, tmp, partial, done>>

\* finish before the header is read, or after a write that failed.
FinishEarly ==
    /\ pc = "finish" /\ state # "Data"
    /\ IF state = "Header" /\ tmp = <<>>
       THEN FinishReturns(Done(0))
       ELSE FinishReturns(FinishErr)
    /\ UNCHANGED <<file, tmp, partial, done>>

\* finish with end-of-stream checks: what is left in tmp is decoded first.
FinishChecked ==
    /\ pc = "finish" /\ state = "Data" /\ ~AllowIncomplete
    /\ pc' = "flush" /\ rest' = tmp
    /\ UNCHANGED <<file, sent, state, tmp, partial, done, chunk, result>>

\* finish without them: the output is delivered as it is.
FinishUnchecked ==
    /\ pc = "finish" /\ state = "Data" /\ AllowIncomplete
    /\ \/ FinishReturns(Done(file.outs[done]))
       \/ SinkMayFail /\ FinishReturns(FinishErr)
    /\ UNCHANGED <<file, tmp, partial, done>>

-----------------------------------------------------------------------------

Step ==
    \/ WriteHeader \/ WriteDead \/ WriteData
    \/ LoopStops \/ WaitForInput \/ DecodeSymbol \/ DecodeMarker \/ DecodeFails
    \/ FinishEarly \/ FinishChecked \/ FinishUnchecked

Next == (\E n \in 0..MaxChunk : Write(n)) \/ Finish \/ Step

\* A call is never interrupted: the decoder goes on until it returns.
Fairness == WF_vars(Step)

Spec == Init /\ [][Next]_vars /\ Fairness

\* A caller that, unless it finishes the stream, always comes back with some
\* of the bytes that were not accepted, as write_all does.
WriteAll == \E n \in 1..MaxChunk : Write(n)
FairCaller == Spec /\ SF_vars(WriteAll)

-----------------------------------------------------------------------------
(* Properties *)

Results ==
    {None, WriteErr, FinishErr}
        \cup [call : {"write"}, ok : {TRUE}, n : Nat]
        \cup [call : {"finish"}, ok : {TRUE}, out : Nat]

\* Type invariant: both buffers stay within their fixed capacity.
TypeOK ==
    /\ WellFormed(file)
    /\ sent \in 0..file.len
    /\ state \in {"Header", "Data", "None"}
    /\ tmp \in Seq(Nat) /\ Len(tmp) <= MaxTmp
    /\ partial \in Seq(Nat) /\ Len(partial) <= MaxReq
    /\ done \in 0..file.count
    /\ pc \in {"idle", "write", "tmp", "input", "finish", "flush", "closed"}
    /\ chunk \in Seq(Nat) /\ Len(chunk) <= MaxChunk
    /\ rest \in Seq(Nat)
    /\ result \in Results

\* The bytes that are held but not decoded: partial_input_buf first, then
\* what is unread of the reader, or what waits in tmp for the next call.
Held == partial \o (IF Looping THEN rest ELSE tmp)

\* How far the input has been handed over, the chunk included once its turn
\* has come.
Horizon == IF pc = "input" THEN sent + Len(chunk) ELSE sent

\* No accepted byte is lost, repeated or reordered on its way through the
\* two buffers.  What is held is exactly what follows the last symbol, up to
\* the last byte accepted, and a write that returns counts as accepted what
\* it took out of the chunk.  (Once the announced size is there, the rest of
\* the input is dropped on purpose; a failed write keeps nothing.)
NoByteLost ==
    /\ state = "Header" => tmp = Run(0, sent) /\ partial = <<>>
    /\ state = "Data" /\ pc # "closed" /\ ~SizeMet(file, done)
          => Held = Run(Prefix + file.ends[done], Horizon)
    /\ pc \in {"write", "tmp", "input"}
          => /\ sent + Len(chunk) <= file.len
             /\ chunk = Run(sent, sent + Len(chunk))
    /\ pc = "input"
          => /\ tmp = <<>> /\ Len(rest) <= Len(chunk)
             /\ rest = Run(sent + Len(chunk) - Len(rest), sent + Len(chunk))

\* partial_input_buf has room when a call begins, so that the next nonempty
\* chunk makes the decoder advance, as long as there is something to decode.
RoomToRefill ==
    state = "Data" /\ pc \in {"idle", "write"} /\ Len(partial) = MaxReq
        => SizeMet(file, done)

\* Where the caller stands in a call.
Phase == CASE pc = "idle" -> "ready"
           [] pc \in {"write", "tmp", "input"} -> "writing"
           [] pc \in {"finish", "flush"} -> "finishing"
           [] pc = "closed" -> "closed"

Contract == INSTANCE StreamContract WITH
    accepted <- sent, offered <- Len(chunk), phase <- Phase,
    dead <- (state = "None"), result <- result

\* Every step of the decoder is one the contract allows, or none: chunking
\* is invisible, a write fails only on a hopeless input and accepts nothing
\* only when it needs nothing, and finish answers as lzma_decompress would.
KeepsContract == Contract!Init /\ [][Contract!Next]_(Contract!vars)

\* The decoder behind write is the contract of StreamContract: it also returns
\* from each call to write or finish.
ImplementsContract == Contract!Spec

\* A caller that keeps offering the bytes that were not accepted, as
\* write_all does, gets rid of them all, unless the stream fails, is
\* finished, or has produced all it was announced.
WriteAllEnds ==
    <>(\/ sent = file.len \/ state = "None" \/ pc = "closed"
       \/ state = "Data" /\ SizeMet(file, done))

\* The next symbol is tried as soon as its bytes are there.  One that takes
\* no byte is tried only if the loop goes on at the end of the reader, as it
\* does when the size is known (the call that reads the header has no loop).
Tried == NextLen > 0 \/ (file.size # NoSize /\ done > 0)

\* With allow_incomplete, finish delivers the output of every symbol whose
\* bytes were accepted, except those that take no byte when no size is known:
\* at the end of a chunk the loop leaves before such a symbol, and no later
\* call decodes it unless it brings more bytes (BypassesOnlyChecks).
IncompleteKeepsAll ==
    pc = "closed" /\ state = "Data" /\ result # FinishErr
       /\ ~SizeMet(file, done) /\ done < file.count
       /\ Kind(file, done + 1) = "data"
       /\ Tried
    => Prefix + file.ends[done + 1] > sent

\* allow_incomplete bypasses the validation of the end and nothing else: where
\* the validation would succeed, finish delivers all that it delivers without
\* the option.  (Options.allow_incomplete, "Determines whether to bypass end
\* of stream validation".)
BypassesOnlyChecks ==
    pc = "closed" /\ state = "Data" /\ result # FinishErr =>
        \A i \in 0..file.count :
            AcceptsWith(file, sent, i) => result = Done(file.outs[i])

=============================================================================
