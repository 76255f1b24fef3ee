---------------------------- MODULE Lzma2Decoder ----------------------------
(***************************************************************************)
(* decode::lzma2::Lzma2Decoder: chunks, uncompressed or compressed, each   *)
(* saying what is kept of those before: the dictionary (the accumulating   *)
(* window, LzAccumBuffer), the state of the symbol decoder, its            *)
(* properties.  The input is arbitrary: a field is chosen when it is read, *)
(* and the input may end at any read.                                      *)
(*                                                                         *)
(* The symbol decoder is a function of its properties and of the symbols   *)
(* decoded since it was reset: these stand for its probabilities, its      *)
(* state and its LRU.                                                      *)
(***************************************************************************)
EXTENDS Sums

CONSTANTS
    Byte,         \* the values of a byte of output
    Statuses,     \* the status bytes considered
    Props,        \* the properties bytes considered
    Sizes,        \* the values of a 16-bit unpacked_size considered
    MaxLen,       \* bound: the longest match
    MaxOut,       \* bound: bytes of output of a call
    MaxLog,       \* bound: chunks and symbols since the decoder was reset
    SinkMayFail   \* the output sink may return an error

ASSUME FieldAssumption == Statuses \subseteq 0..255 /\ Props \subseteq 0..255
ASSUME SizeAssumption == Sizes \subseteq 0..(2^16 - 1)
ASSUME BoundAssumption == MaxLen \in Nat \ {0} /\ MaxLog \in Nat /\ MaxOut \in Nat
ASSUME ByteAssumption == Byte \subseteq Nat
ASSUME SinkAssumption == SinkMayFail \in BOOLEAN

VARIABLES
    sink, buf, len, window, out, base,  \* the window: see LzAccumBuffer
    pc,        \* what is read next, "idle" between two calls, or "failed"
    status,    \* the status byte of the chunk
    unpacked,  \* its unpacked_size
    lzma,      \* lzma_state: lzma_props, rows of literal_probs, symbols since
               \* the last reset, unpacked_size
    log        \* history: calls, chunks and symbols since the decoder was
               \* made or reset

accum == <<sink, buf, len, window, out, base>>
vars  == <<accum, pc, status, unpacked, lzma, log>>

\* The window is created without a limit (usize::MAX).
Accum == INSTANCE LzAccumBuffer WITH status <- window, MemLimit <- MaxOut

-----------------------------------------------------------------------------
(* The symbol decoder, as far as it outlives a chunk *)

Zero == [lc |-> 0, lp |-> 0, pb |-> 0]

Rows(p) == 2 ^ (p.lc + p.lp)

New == [props |-> Zero, rows |-> Rows(Zero), symbols |-> <<>>, target |-> 0]

\* A slip for reset_state: literal_probs is kept if lp is.
reset_state_lp(p) ==
    [lzma EXCEPT !.props = p, !.symbols = <<>>,
                 !.rows = IF lzma.props.lp = p.lp THEN @ ELSE Rows(p)]

\* literal_probs is kept if it has as many rows as needed.
reset_state(p) ==
    [lzma EXCEPT !.props = p, !.symbols = <<>>,
                 !.rows = IF lzma.props.lc + lzma.props.lp = p.lc + p.lp
                          THEN @ ELSE Rows(p)]

\* The last of these positions, or 0.
LastOf(at) == IF at = {} THEN 0 ELSE CHOOSE i \in at : \A j \in at : j <= i

\* rep[0] + 1: the last distance among the symbols.
LastDist ==
    LET far == {i \in 1..Len(lzma.symbols) : lzma.symbols[i] > 0}
    IN  IF far = {} THEN 1 ELSE lzma.symbols[LastOf(far)]

\* state >= 7: the last symbol is a match.
AfterMatch == lzma.symbols # <<>> /\ lzma.symbols[Len(lzma.symbols)] > 0

-----------------------------------------------------------------------------
(* decompress *)

Init ==
    /\ Accum!Init
    /\ pc = "idle" /\ status = 0 /\ unpacked = 0
    /\ lzma = New /\ log = <<>>

Logs(event) == log' = Append(log, event)

\* decompress is called, with an empty window.
Decompress ==
    /\ pc = "idle" /\ Len(log) < MaxLog
    /\ sink' = <<>> /\ buf' = <<>> /\ len' = 0 /\ window' = "open"
    /\ out' = <<>> /\ base' = 0
    /\ pc' = "status" /\ Logs([kind |-> "call"])
    /\ UNCHANGED <<status, unpacked, lzma>>

\* reset; a decoder that failed is not used without it.
Reset ==
    /\ pc \in {"idle", "failed"}
    /\ lzma' = reset_state(Zero) /\ log' = <<>> /\ pc' = "idle"
    /\ UNCHANGED <<accum, status, unpacked>>

Fails == pc' = "failed"

\* The input ends before what is read (the five bytes of RangeDecoder::new
\* may not be in the chunk either).
Truncated ==
    /\ pc \in {"status", "raw", "raw_data", "header", "props", "rc"}
    /\ Fails /\ UNCHANGED <<accum, status, unpacked, lzma, log>>

Status ==
    /\ pc = "status" /\ status' \in Statuses
    /\ pc' = CASE status' = 0                  -> "finish"
               [] status' \in {1, 2}           -> "raw"
               [] status' > 2 /\ status' < 128 -> "failed"
               [] OTHER                        -> "header"
    /\ UNCHANGED <<accum, unpacked, lzma, log>>

\* A slip for Finish: the window is dropped.
FinishDropped ==
    /\ pc = "finish" /\ window' = "closed" /\ pc' = "idle"
    /\ UNCHANGED <<sink, buf, len, out, base, status, unpacked, lzma, log>>

Finish ==
    /\ pc = "finish" /\ Accum!Finish
    /\ IF window' = "closed" THEN pc' = "idle" ELSE Fails
    /\ UNCHANGED <<status, unpacked, lzma, log>>

\* Bounds on the chunk that begins, of n bytes in so many symbols (a match may
\* exceed its size before that is noticed).
Bounded(n, symbols) ==
    /\ Len(out) + n + MaxLen - 1 <= MaxOut
    /\ Len(log) + 1 + symbols <= MaxLog

\* The dictionary is reset if the chunk says so.
ResetDict(says, next) ==
    IF says THEN Accum!Reset /\ IF window' = "open" THEN pc' = next ELSE Fails
            ELSE pc' = next /\ UNCHANGED accum

Chunk(props) == [kind |-> "chunk", status |-> status, size |-> unpacked, props |-> props]

-----------------------------------------------------------------------------
(* parse_uncompressed *)

Raw ==
    /\ pc = "raw" /\ \E u \in Sizes : unpacked' = u + 1
    /\ Bounded(unpacked', 0)
    /\ ResetDict(status = 1, "raw_data")
    /\ UNCHANGED <<status, lzma, log>>

RawData ==
    /\ pc = "raw_data" /\ Logs(Chunk(0))
    /\ \E s \in [1..unpacked -> Byte] : Accum!AppendBytes(s)
    /\ pc' = "status"
    /\ UNCHANGED <<status, unpacked, lzma>>

-----------------------------------------------------------------------------
(* parse_lzma *)

\* What is reset: 0 nothing, 1 the state, 2 and the properties, 3 and the
\* dictionary.
resets == (status \div 32) % 4

\* A slip for Header: the dictionary is reset with the properties.
HeaderAll ==
    /\ pc = "header"
    /\ \E u \in Sizes : unpacked' = (status % 32) * 65536 + u + 1
    /\ Bounded(unpacked', unpacked')
    /\ ResetDict(resets >= 2, IF resets >= 1 THEN "props" ELSE "target")
    /\ UNCHANGED <<status, lzma, log>>

\* The sizes are read, and the dictionary is reset.
Header ==
    /\ pc = "header"
    /\ \E u \in Sizes : unpacked' = (status % 32) * 65536 + u + 1
    /\ Bounded(unpacked', unpacked')
    /\ ResetDict(resets = 3, IF resets >= 1 THEN "props" ELSE "target")
    /\ UNCHANGED <<status, lzma, log>>

Decoded(b) == [lc |-> b % 9, lp |-> (b \div 9) % 5, pb |-> b \div 45]

\* A slip for StateReset: new properties do not reset the state.
StateKept ==
    /\ pc = "props"
    /\ \/ resets = 1 /\ lzma' = reset_state(lzma.props)
          /\ Logs(Chunk(0)) /\ pc' = "target"
       \/ /\ resets \in {2, 3}
          /\ \E b \in Props :
                IF b >= 225 \/ Decoded(b).lc + Decoded(b).lp > 4
                THEN Fails /\ UNCHANGED <<lzma, log>>
                ELSE /\ lzma' = [reset_state(Decoded(b)) EXCEPT !.symbols = lzma.symbols]
                     /\ Logs(Chunk(b)) /\ pc' = "target"
    /\ UNCHANGED <<accum, status, unpacked>>

\* The state is reset, to the properties there are or to new ones.
StateReset ==
    /\ pc = "props"
    /\ \/ resets = 1 /\ lzma' = reset_state(lzma.props)
          /\ Logs(Chunk(0)) /\ pc' = "target"
       \/ /\ resets \in {2, 3}
          /\ \E b \in Props :
                IF b >= 225 \/ Decoded(b).lc + Decoded(b).lp > 4
                THEN Fails /\ UNCHANGED <<lzma, log>>
                ELSE /\ lzma' = reset_state(Decoded(b))
                     /\ Logs(Chunk(b)) /\ pc' = "target"
    /\ UNCHANGED <<accum, status, unpacked>>

\* A slip for Target: the bytes the window has are forgotten.
TargetAlone ==
    /\ pc = "target"
    /\ lzma' = [lzma EXCEPT !.target = unpacked]
    /\ IF resets = 0 THEN Logs(Chunk(0)) ELSE UNCHANGED log
    /\ pc' = "rc"
    /\ UNCHANGED <<accum, status, unpacked>>

\* set_unpacked_size
Target ==
    /\ pc = "target"
    /\ lzma' = [lzma EXCEPT !.target = unpacked + len]
    /\ IF resets = 0 THEN Logs(Chunk(0)) ELSE UNCHANGED log
    /\ pc' = "rc"
    /\ UNCHANGED <<accum, status, unpacked>>

RangeDecoderNew ==
    /\ pc = "rc" /\ pc' = "symbols"
    /\ UNCHANGED <<accum, status, unpacked, lzma, log>>

\* A literal (dist is 0) or a match at dist is decoded in earnest.
Decodes(dist) ==
    /\ pc = "symbols" /\ len < lzma.target
    /\ lzma' = [lzma EXCEPT !.symbols = Append(@, dist)]
    /\ Logs([kind |-> "symbol", dist |-> dist])
    /\ UNCHANGED <<pc, status, unpacked>>

\* After a match, a literal looks at the byte the match would go on with.
Literal ==
    /\ ~(AfterMatch /\ Accum!TooFar(LastDist))
    /\ \E b \in Byte : Decodes(0) /\ Accum!AppendLiteral(b)

\* A match at a new distance, or at the last one.
Match ==
    \E n \in 1..MaxLen, d \in (1..MaxOut) \cup {LastDist} :
       ~Accum!TooFar(d) /\ Decodes(d) /\ Accum!AppendLz(n, d)

\* A symbol fails: on its distance, or at the end of the chunk, or as an end
\* marker, which a chunk does not allow for (either bytes or symbols are left).
SymbolFails ==
    /\ pc = "symbols" /\ len < lzma.target
    /\ Fails /\ UNCHANGED <<accum, status, unpacked, lzma, log>>

\* The loop of process_mode ends, and compares.
ChunkEnds ==
    /\ pc = "symbols" /\ len >= lzma.target
    /\ IF len = lzma.target THEN pc' = "status" ELSE Fails
    /\ UNCHANGED <<accum, status, unpacked, lzma, log>>

Next ==
    \/ Decompress \/ Reset \/ Truncated \/ Status \/ Finish
    \/ Raw \/ RawData
    \/ Header \/ StateReset \/ Target \/ RangeDecoderNew
    \/ Literal \/ Match \/ SymbolFails \/ ChunkEnds

Spec == Init /\ [][Next]_vars

-----------------------------------------------------------------------------
(* Properties *)

\* Type invariant: literal_probs has a row for every context of a literal,
\* whichever properties the chunks have passed through.
TypeOK ==
    /\ pc \in {"idle", "failed", "status", "finish", "raw", "raw_data", "header",
               "props", "target", "rc", "symbols"}
    /\ status \in Statuses \cup {0} /\ unpacked \in Nat
    /\ lzma.symbols \in Seq(Nat) /\ lzma.target \in Nat
    /\ lzma.rows = Rows(lzma.props)
    /\ lzma.props.lc + lzma.props.lp <= 4 /\ lzma.props.pb <= 4

\* The last event of this kind.
Since(Is(_)) == LastOf({i \in 1..Len(log) : Is(log[i])})

IsCall(e)   == e.kind = "call"
IsChunk(e)  == e.kind = "chunk"
IsSymbol(e) == e.kind = "symbol"
NewState(e) == e.kind = "chunk" /\ e.status >= 160
NewProps(e) == e.kind = "chunk" /\ e.status >= 192
NewDict(e)  == e.kind = "call" \/ (e.kind = "chunk" /\ (e.status = 1 \/ e.status >= 224))

\* The distances of the symbols among these events.
Symbols(events) ==
    LET seen[i \in 0..Len(events)] ==
            IF i = 0 THEN <<>>
            ELSE IF IsSymbol(events[i]) THEN Append(seen[i - 1], events[i].dist)
            ELSE seen[i - 1]
    IN  seen[Len(events)]

\* The decoder is where an encoder that follows the format is: its properties
\* are those of the last chunk that has new ones, and its probabilities, state
\* and LRU have seen the symbols since the last chunk that resets them, over
\* uncompressed chunks, dictionary resets and calls; after reset it is new.
InStep ==
    /\ lzma.symbols = Symbols(SubSeq(log, Since(NewState) + 1, Len(log)))
    /\ lzma.props = IF Since(NewProps) = 0 THEN Zero ELSE Decoded(log[Since(NewProps)].props)

\* The sizes of the chunks from the k-th event on.
Announced(k) ==
    Total([i \in 1..Len(log) |->
              IF i >= k /\ IsChunk(log[i]) THEN log[i].size ELSE 0])

\* Every chunk adds the bytes it announces, no more and no fewer, although the
\* window counts from the last dictionary reset.
ChunksExact ==
    /\ pc = "status" => Len(out) = Announced(Since(IsCall))
    /\ pc = "symbols" => (len >= lzma.target <=> Len(out) >= Announced(Since(IsCall)))

\* Matches reach back to the first byte of the last chunk that resets the
\* dictionary (or of the call), and no further.
DictionaryExact ==
    pc = "status" => Len(buf) = Announced(Since(NewDict))

\* Everything decoded is in the sink or in the dictionary, once and in order,
\* and all of it in the sink when a call returns Ok.
Delivered ==
    /\ window = "open" => sink \o buf = out
    /\ pc = "idle" /\ window = "closed" => sink = out

=============================================================================
