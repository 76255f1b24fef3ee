# lzma-rs in TLA+

A verification project for `lzma-rs` (`src/`), a pure-Rust codec for the
`.lzma`, LZMA2 and `.xz` formats.  It models the decoders and encoders,
model-checks them with TLC on small instances, and proves the invariants that
matter most with TLAPS for every value of the parameters.

Paths below are relative to the crate's `src/`; line numbers are in
`PROJECT.json` (`map` for definitions, `hazards` for the places where things
may go wrong).

## 1. The system

| component | source | state | operations |
|---|---|---|---|
| streaming decoder | `decode/stream.rs` | `tmp` (18 bytes), `state` (header, data, or taken by a failed write) | `write`, `finish`, `flush` |
| symbol loop | `decode/lzma.rs`, `process_mode` | `partial_input_buf` (20 bytes), range and code between calls | one iteration: stop, wait for input, decode a symbol, fail |
| symbol decoder | `decode/lzma.rs`, `process_next_inner` | symbol history `state`, the last four distances `rep`, the probabilities | one symbol, or a dry run of one; `reset_state` |
| circular window | `decode/lzbuffer.rs` | ring, cursor, total length | literal, match, finish |
| accumulating window | `decode/lzbuffer.rs` | bytes since the last reset | bytes, literal, match, reset, finish |
| range decoder | `decode/rangecoder.rs` | range, code | a modelled bit, a direct bit, bit trees, lengths |
| range encoder, LZMA encoder | `encode/rangecoder.rs`, `encode/dumbencoder.rs` | range, low, cache chain | a bit, a literal, the end marker, flush |
| LZMA2 decoder, encoder | `decode/lzma2.rs`, `encode/lzma2.rs` | the symbol decoder across chunks | a chunk of each kind; reset |
| XZ decoder, encoder | `decode/xz.rs`, `encode/xz.rs`, `xz/` | the records of the blocks seen | header, block, index, footer |
| entry points, options | `lib.rs`, `*/options.rs` | none | say where the unpacked size is; raw decoders are reset and used again |
| two-dimensional vector | `util/vec2d.rs` | fixed shape | indexing, fill |
| errors, macros | `error.rs`, `macros.rs` | none | conversions, logging |

The caller pushes chunks of any size into a `Stream` (an `io::Write`), which
feeds the symbol loop; the loop asks the symbol decoder for a symbol at a time,
which reads the input through the range decoder and appends to a window, which
writes to the caller's sink.  The one-shot decoder runs the same loop over the
whole input.  The LZMA2 decoder runs it once per compressed chunk over an
accumulating window, and the XZ decoder runs the LZMA2 decoder once per filter
and block.  There are no threads: what interleaves is the caller's chunking,
the two input buffers, the window's flushes and the failures of the sink.

What is hard, and what makes each part correct:

* **Streaming.**  A symbol may be cut anywhere, the header too; bytes wait in
  `tmp` while the header is incomplete and in `partial_input_buf` while a
  symbol is.  Correct: chunking is invisible.  No byte is lost or reordered,
  `finish` answers what the one-shot decoder would, `write` fails only when
  nothing that may follow can help, and accepts nothing only when it needs
  nothing.
* **Dry runs.**  Near the end of the input a symbol is first decoded without
  updating anything, by the code that decodes it in earnest.  Correct: the dry
  run leaves no trace and foretells the real run.
* **Symbol state.**  `state` packs the kinds of the last symbols in 12 values
  by tables of jumps, the LRU of distances is shifted before a symbol is
  complete, several arrays share cells by offsets.  Correct: `state` means what
  the format defines, every distance in the LRU is one the window serves (until
  the window is emptied with the state kept, as LZMA2 may do), every context is
  inside its array.
* **Range coder.**  The encoder keeps bytes back as long as a carry may still
  reach them, normalises in a loop where the decoder does so once, and codes
  the direct bits of its end marker as if they had a probability.  Correct:
  encoder and decoder stay in step, a carry always finds room, the input ends
  with the last bit.
* **Windows.**  The ring flushes and wraps in the middle of a match, the
  accumulating buffer forgets its dictionary on reset, the sink may fail, the
  memory limit may be hit.  Correct: both are the same abstract window, that
  never shows more than an append-only text and a sink that lags behind it.
* **Cells and bytes of a symbol.**  When 20 bytes are buffered a symbol is decoded
  without a dry run.  Correct: no symbol takes more, whatever the probabilities
  and the range, and no two places in a tree or an array share a cell.
* **Header, options, reset.**  The size may be in the header, there and ignored,
  or not there; it may be wrong; a decoder that failed is reset and used again.
  Correct: with a size or a marker the text comes back; with a wrong size
  nothing is invented but zeros behind the text.
* **LZMA2.**  Each chunk says what is kept of those before: dictionary, state,
  properties.  Correct: what is kept and dropped is what the chunks say, and a
  chunk adds as many bytes as it announces.
* **XZ.**  Sizes are counted by several counters, padded, recorded, written to
  an index, pointed to by a footer.  Correct: an accepted stream can be read
  from its end as well, only verified blocks are output, what the encoder
  writes is accepted.

## 2. Modules

| module | models | uses |
|---|---|---|
| `LzmaInput` | a `.lzma` input as what decoding it yields, and the one-shot decoder on its prefixes | |
| `StreamContract` | what `Stream` promises its caller, without any decoder state | `LzmaInput` |
| `Stream` | `decode/stream.rs` and the loop `process_mode`, both buffers | refines `StreamContract` |
| `LzWindow` | what the trait `LzBuffer` promises (`Spec`); with the accumulating buffer's `append_bytes` and `reset` too (`SpecWithRaw`) | |
| `LzCircularBuffer` | the ring | refines `LzWindow!Spec` |
| `LzCopy` | the loop of `append_lz`, as a function | |
| `LzAccumBuffer` | the accumulating buffer | refines `LzWindow!SpecWithRaw`; `LzCopy` |
| `Sums` | a sum, term by term | |
| `SymbolDecoder` | `process_next_inner`, literals, distances, lengths, dry runs | `Powers` |
| `Powers` | powers of two, as shifts give them | |
| `RangeCoder` | `encode/rangecoder.rs`, `decode/rangecoder.rs`: what a bit does to the fields | `Powers` |
| `LzmaHeader` | the header's fields and the options of both sides | |
| `Vec2D` | `util/vec2d.rs`: a grid in one array | |
| `LzmaRoundTrip` | `encode/dumbencoder.rs`, and the decoder on what it writes, with header, options and `reset` | `RangeCoder`, `LzmaHeader`, `Vec2D` |
| `SymbolBits` | one symbol bit by bit at the real sizes: range, bytes, cells; the trees and the lengths with their encoders | `Powers`, `Vec2D` |
| `Lzma2Decoder` | `decode/lzma2.rs` and `reset_state` | composed with `LzAccumBuffer` (`INSTANCE`); `Sums` |
| `Lzma2Encoder` | `encode/lzma2.rs`, with its contents | |
| `Lzma2RoundTrip` | the decoder on anything, then on what the encoder wrote | composes the two |
| `XzEncoder` | the fields `encode/xz.rs` and `encode/lzma2.rs` write | |
| `XzDecoder` | `decode/xz.rs` | `XzEncoder` for the fields |
| `XzRoundTrip` | the decoder on the encoder's streams or any others | composes the two |
| `RecursionLemmas` | lemmas about `Sums`, `LzCopy`, `Powers` and recursive functions | |
| `StreamProofs`, `LzCircularBufferProofs`, `LzAccumBufferProofs`, `SymbolProofs`, `Lzma2Proofs`, `XzProofs`, `LzmaRoundTripProofs` | theorems | TLAPS |
| `MC*` | finite instances | |

How states correspond:

* `Stream`: `tmp` and `partial` are the two buffers up to their positions, as
  sequences of *offsets* in the input, so that losing, repeating or moving a
  byte shows.  `chunk` and `rest` are the argument of the `write` under way and
  what is unread of the reader being decoded, `done` counts the symbols
  decoded.  One action is one call's header handling or one iteration of the
  loop; `LoopReturns` continues from `tmp` to the chunk as `read_data` does.
  The input is not a string of bytes but a record saying where each symbol
  ends, what it outputs and when the range coder's code is 0: the range decoder
  decides that, and nothing in `Stream` depends on how.
* `LzCircularBuffer`: `buf`, `cursor`, `len`, `memlimit` as in the code; a match is copied a
  byte a step so that flushes and failures fall inside it.  `out` is a history
  of the bytes appended.  In `LzWindow` a match is asked for (`AskLz`, if its
  distance is served) and then answered (`AppendLz`, or `FailLz`), with `asked`
  in between; the ring's `asked` is read off `copy`.  While a match is asked for
  the window can do nothing else but drain to the sink, so that the bytes of a
  match are fixed by its length and distance: no other step of the ring's
  window appends more than one byte.
* `SymbolDecoder`: `state`, `rep` (1-based) and `len` (of the window) are the
  code's.  `pc` says what is read next, `trace` the bits read so far, each with
  the cell (array and index) of its probability.  What a bit is comes from the
  input and is arbitrary; but a real run after a dry run on the same bytes
  reads the same bit as long as it has read the same bits in the same cells and
  has not updated the cell meanwhile (`Determined`): that is how a trace left
  by the dry run would show.  `hist` is a history of the last four symbols,
  against which the meaning of `state` is stated.  Literals take several bits,
  but one action: nothing else can happen between them.  Between two symbols
  the state may be reset, with the dictionary or without, an uncompressed chunk
  may come, with or without a dictionary reset, and a raw decoder may be given
  another input; `stale` says that the window was emptied and the state not
  reset since.  `text` is the output from the first byte of the window on, so
  that emptying the window drops what was before.  Dry runs are allowed
  everywhere, though only a stream makes any.
* `RangeCoder`: the records `enc` and `dec` have the fields of the structs, `out`
  for the stream and `pos` for the place in it; words have `WordBytes` bytes of
  `ByteBits` bits.  `LzmaRoundTrip` encodes a text, a bit a step, then decodes
  what was written; `trail` is a history of where the encoder was before and
  after every bit, which the decoder is compared with bit by bit.  The decoder reads the header the encoder
  wrote (a field a step of the sequence), takes its properties from there,
  keeps the probabilities of literals in a `Vec2D`, and may be reset after any
  call, whether it succeeded, failed on the input or on its reader.
* `SymbolBits`: `odds` has a probability for each bit that is still to come, of
  that bit's own value: any that a cell can have adapted to.  `range` is split
  in two words as TLC's
  integers have 32 bits.  `call` and `done` are histories of what the tree or
  length decoder at work has read, which its encoder is applied to.  Its names are
  not those of `SymbolDecoder`, so that one module can prove about both.
* `Lzma2Decoder`: the symbol decoder is represented by the symbols it has seen
  since it was reset (`lzma.symbols`), as its probabilities, `state` and LRU are
  a function of them; `log` is the history of chunks and symbols that the
  format's rules are applied to.  The window is `LzAccumBuffer`, whose actions
  are conjoined.  In `Lzma2RoundTrip` its actions are conjoined once more with
  the fields found in `stream`.
* `XzDecoder`: a handler takes all fields of its part of the stream at once;
  `count` is `CountBufRead::count`, started anew for each part, `pos` a history
  of the true position.  Checksums are right or wrong; what LZMA2 makes of a
  block is arbitrary.

## 3. Runs

| run | module, bounds | shows |
|---|---|---|
| `stream_short` | header 1 byte of at most 3, 1 start byte, `MAX_REQUIRED_INPUT` 3, chunks to 5, 3 symbols | both buffers keep their bounds and every byte, and `Stream` implements `StreamContract` (liveness included) |
| `stream_full` | header of full length, `allow_incomplete`, failing sink, a caller in `write_all` | every step is one of the same contract with the other options; `finish` delivers every symbol accepted, but for those of no byte when no size is known; the caller always gets rid of its input |
| `stream_incomplete` | short header with `allow_incomplete` | **violated**: see findings |
| `stream_zerobytes` | full header with `allow_incomplete`, 2 symbols, the first of a byte at least | **violated**: see findings |
| `ring` | ring of 3, limits 0, 2 and the size of the ring, matches longer than the ring, failing sink | the ring is the window, byte for byte; it wraps inside matches and between them; the limit refuses exactly the byte that outgrows it |
| `accum` | 6 bytes over any number of resets | the accumulating buffer is the window |
| `symbol` | bytes of 3 bits, 6 bytes in any number of windows, distances to 4 bits | `state`, LRU, contexts and dry runs, over resets, uncompressed data and further inputs |
| `symbol_bits` | the real sizes; the extremes of contexts and of range; bits as improbable as they get, even, or improbable by turns | a symbol takes at most 20 bytes; every cell is one of its own, in its array; what encoders of trees and lengths write is what was read |
| `lzma_roundtrip` | bytes of 3 bits, words of 4 bytes, up to 4 symbols of 2 bits, sizes right, too small, too large, all ones | the LZMA encoder's output comes back through header and options, after failures and resets; wrong sizes invent nothing; carries fit; encoder and decoder are in step after every bit |
| `lzma2` | 6 chunks and symbols, all kinds of status byte, valid and invalid properties; inputs of up to 3 bytes in chunks of 1 or 2 | chunks keep and reset what they say; the encoder's streams come back, whatever was decoded before |
| `xz` | 2 blocks, every field right or wrong, sizes around every limit | accepted streams are readable from the end; round trip |
| `xz_shortwrites` | a sink that takes one byte of two | **violated**: see findings |

**Why the bounds are enough.**  In `stream_short` a symbol takes 0 to 3 bytes
and the loop's buffer holds 3, so that it can be empty, part full, filled by
one symbol or by several; the header's buffer holds two bytes more than it
has to take, so payload lands in it as with the real 18 and 10; a
chunk may be longer than everything buffered; an input may end by size,
by a marker or by neither, with bytes behind.  In the ring, 9 bytes over 3
cells reach each cell three times and matches are longer than the ring.  In
`symbol`, 6 bytes allow for histories of more than the four symbols that
`state` looks back, with three literals that end in state 0, and for a window
that is emptied and filled again; the longest lengths are read, though what is
copied is at most 5 bytes.  `symbol_bits`
does one symbol at full width: odds of 31 in 2048 are the least a
probability adapts to, 2017 the most, and 1024 what it begins with; the smallest range a
symbol can begin with is the worst, the largest the other extreme; 20 is
reached, and 19 would be violated.  Of the 256 leaves of a long length's tree, 3
stand for all when a match goes on to a distance, which looks at
lengths up to 3 only.  In `lzma_roundtrip` the widths keep the proportions the code relies on: the least
probable bit still leaves the range above `Top / Base` (3 of 16 times
`Top / 16`, as 31 of 2048 in the code), a `Half` halves a range exactly
`ByteBits` times between two normalisations, and more halvings than that come
before the direct bits; carries over three bytes that wait do occur, and a
context sees as many equal bits as it takes to stop adapting; the sizes told
include one beyond any text, and all ones, which the encoder can be made to
write and the decoder takes for none.  In `lzma2`, six events
hold a properties change, symbols, an uncompressed chunk, a dictionary reset
and a second call at once; `BufSize` and `SizeWord` are both 2 for 65536, so
that a full chunk has the largest size the field holds.  In `xz`, sizes 107 to 131, 16382 to 16385,
65535 to 65537 and 2^21 are the places where a multi-byte number or the number
of chunks changes, and 0 to 8 give every padding.  `Word` is 256 for 2^32: only
that bits shifted out are lost is used of it.

**Fairness.**  `WF(Step)` in `Stream`: a call, once made, runs to its return;
the code has no blocking or yielding inside.  `FairCaller` adds strong
fairness of offering some bytes: a caller in `write_all`, unless it finishes,
always comes back with what was not accepted (strong, as a call is made only
between two calls, and an empty one may come in between); `WriteAllEnds` is only
about such callers.  No other run needs fairness.

**Deadlock** is checked for `lzma2`, `xz` and `xz_shortwrites`.  Elsewhere the
system really stops: `finish` consumes the stream and the window, and a decoder
that returned an error is not called again.

## 4. Findings

* `allow_incomplete` (`decode/stream.rs`, `finish`): with a header of 5 bytes,
  payload bytes that `write` accepted may still wait in `tmp` when `finish` is
  called; the call to `process` that would decode them is the one that
  `allow_incomplete` skips.  Their output is missing and `finish` returns `Ok`,
  while the option is described as bypassing validation only
  (`stream_incomplete`).
* The same option with a header of any length, when no size is known
  (`decode/lzma.rs`, `process_mode`): at the end of a chunk, with nothing in
  `partial_input_buf`, the loop leaves before it tries a symbol that takes no
  byte.  Such a symbol at the end of what was written is decoded by the call
  that `allow_incomplete` skips, or not at all: where `finish` succeeds without
  the option, it succeeds with it and delivers less (`stream_zerobytes`).  The
  claim of `IncompleteKeepsAll` therefore leaves these symbols out (`Tried`).
* `StreamFlags::serialize` (`xz/mod.rs`) uses `write`, not `write_all`, and
  `encode/xz.rs` ignores the count.  With a sink that takes one byte of the two
  the stream written cannot be decoded, and `xz_compress` returns `Ok`
  (`xz_shortwrites`).

Observations that are no findings, and that the models keep as they are: an
empty stream is accepted by `finish` though `lzma_decompress` rejects an empty
input; the footer's `backward_size` loses its two top bits
(`FoundFromEnd` is stated modulo `Word`); packed bytes of an LZMA2 chunk that its
symbols do not need are read as the next status byte; `LzAccumBuffer` looks at
its limit for literals only (its users pass no limit); its `len` starts again at
0 on reset although its comment says "Total number of bytes".

## 5. Proofs

TLAPS checks eight modules of theorems, for all values of the constants that
satisfy the named assumptions.  Those about a component are about its `Spec`,
or, for LZMA2 and XZ, about the composition with the encoder (`RTSpec`).

**`StreamProofs`** — `TypeCorrect`, `NothingLost`, `AlwaysRoom`,
`IncompleteDecodesAll`, `StreamKeepsContract`.  From `FilesAssumption` (inputs are well formed: symbols
in order, none longer than `MaxReq`) and the sizes of header and buffers.  The
inductive invariant is `TypeOK /\ NoByteLost /\ RoomToRefill /\ Tidy`.
`NoByteLost` alone is not inductive: that refilling `partial` never overflows it
needs `TypeOK`, that a write returns the right count needs `Tidy`: the two
buffers never both hold bytes and no symbol is counted before its bytes have
come.  The argument is about runs of consecutive offsets: what is held is one
run, and each step cuts it at the front by a symbol or extends it at the back by
a chunk.  `IncompleteDecodesAll` is about `finish` with `allow_incomplete`; it
assumes a header of full length (the size is read from it, or read and ignored),
as with a provided size the same property fails (§4).  Its statement excludes a
symbol that takes no byte when no size is known, for which it fails too (§4), or
when it is the first of all, as the call that reads the header decodes none.  What it adds to the
invariant is that `tmp` is empty once the header is read (`KeepsUp`), and that a
call that returns leaves no symbol that could be decoded (`Exhausted`).
`StreamKeepsContract` is the refinement of `StreamContract`, but for its
fairness, under all options.  It needs to know that the stream has decoded what the
one-shot decoder decodes of all that was handed over (`Passed`, `Follows`).  That
survives more input, as the one-shot decoder stops earlier only where a prefix
ends (`PassedWithMore`); and where the stream gives up, no longer prefix of
the input is accepted (`Stuck`, `FailsForever`).

**`LzCircularBufferProofs`** — `TypeCorrect`, `SinkInOrder`, `ReadsRight`,
`RefusedOnlyAtLimit`, `RingImplementsWindow`.  From `DictSizeAssumption` and the
other bounds.  The invariant says which byte of the text each cell of the ring
holds (`Ring`), and for a match under way, where its source and destination are
(`Copying`); it holds while the window is open.  The refinement maps the text to
the bytes of completed operations: a byte of a match stutters, or drains the
ring to the sink, and the last one is the abstract match.  As the window the ring
implements has the operations of the trait only, that step appends the bytes at
the match's distance or it is no step of the window.

**`LzAccumBufferProofs`** — `TypeCorrect`, `MatchesAlwaysRepeat`,
`AccumImplementsWindow`.  A match is one step here, and what it appends is
computed by a loop that may read what it wrote: `RepeatedRepeats`
(`RecursionLemmas`) says what comes out of the loop, byte by byte, and the
refinement compares it with the window's definition.  The window here is the one with
`append_bytes` and `reset`, which this buffer does have.  The invariant relates the
buffer to the end of the text.

**`SymbolProofs`** — of `SymbolDecoder`: `Inductive`, `TypeCorrect`,
`StateIsMeaning`, `RepsAlwaysServed`, `MarkerLast`, `DryRunAlwaysTells`.  From the
widths of the trees, a nonzero
dictionary, and `MarkerAssumption` (a dictionary is no larger than the largest
distance).  Three lemmas show that the jumps of `state` follow the format's
definition `Meaning` for every history.  The invariant must also cover the
middle of a symbol: once the length of a new match is read, `state` is ahead of
the history by that match (`Midway`), and after the end marker the first
distance is one that no window serves (`Over`), which is why nothing can be
output then.  `RepsAlwaysServed` is restricted to a decoder that is not
`stale`: after a dictionary reset with the state kept (an uncompressed chunk with
status 1, then one of 0x80) the LRU reaches behind the window, and `last_n`
and `append_lz` refuse it.  The invariant says nothing of the LRU there, and
all the rest; a window that only grows serves what it served, and a reset of
the state makes the distances 0.  In a stream, which resets nothing, a
dry run that fails thus lacks input.

`DryRunAlwaysTells` is about two runs of the same code, which branches on what
it has read.  `Options` is what can be read at a stage of a symbol, and where
it leads, as a function of only the few values that decide it (`Now`), and
`Rests` all that can be read from a stage to the end.  The invariant `DryInv`
has three parts.

* What has been read keeps to the arrays of the stages that are past
  (`ReadBefore`), and no cell comes twice on a way through a tree
  (`WellFormed`, `InTree`); so no cell is read twice in a symbol, and what a run
  updates cannot be read by the same run.
* A dry run changes nothing of `Now`, and what it has read has a rest of a symbol
  behind it (`Trying`, `Tried`).
* The real run has read a prefix of what the dry run read, and the rest of
  that is one of its own `Rests` (`Retracing`).  That is inductive because the
  options of a stage branch on bits only: as long as two have the same bits they
  go on in the same cell (`Branch`), and there the bit is `Determined`, as the
  cell is not yet updated.

The same module proves about `SymbolBits`: `BitsTypeCorrect`, `CellsAlwaysOwn`,
`AlwaysFits`, `EncodersAlwaysAgree`.  Its sizes are the code's; the theorems are
for every range, all properties, states and bytes before the symbol, and every
sequence of probabilities in `Adapted`; `RangesAssumption`,
`OddsAssumption` and `ContextsAssumption` say no more than that.  `Longs`, a bound
for TLC, is any set, all 256 leaves too.  That a
bit leaves a probability in these bounds is `AdaptedUsable` of
`LzmaRoundTripProofs`.

* `WalkInv` is the inductive invariant the others start from: the types, the
  node the walk is at with the bits that are left (`Placed`), and how many bits
  with a context may still come (`Owed`), for which there must be probabilities.
  That range stays at 2^24 or above with one byte a bit is arithmetic on its two words
  (`ScaledIs`): the least probability leaves 31/2048 of it, and that is more
  than 1/256.
* For `CellsOwn` the row of a literal has to be followed through the literal
  (`ColumnFits`).  That the ten slots share 115 cells without sharing any is
  the place of a tree, `PosOffset`, for each slot in turn.
* `AlwaysFits` needs an order: fewer bytes taken, or as many and a range at least
  as large (`NoWorse`).  A bit keeps it, whatever its probability is, if the
  worst case makes the least probable bit (`CodedWorse`), and so does a direct bit
  (`HalvedWorse`).  `CodedWorst`, `DirectWorst` and `AlignWorst` are such worst
  cases from the smallest range on, a row for each number of bits still to
  come; the steps of these tables are checked one by one, and the last rows
  have 20 bytes.  `WorstInv` says that the walk is no worse than its row.
* `EncodersAlwaysAgree` compares two directions: the decoder has the bits and builds
  the value, the encoder has the value and takes it apart.  The invariant
  `TrailInv` says that what has been read in a tree is the path to the node
  (`TreeReads`), with `choice` and `choice2` before it in a length; `EncodesTree` and
  `EncodesReverse` say the encoder's is the path to the leaf of its value.
  The sum of a reverse tree's bits is a recursive function of up to five
  terms, which `RecursionLemmas` gives.

**`Lzma2Proofs`** — `DecoderConsistent`, `TypeCorrect`, `AlwaysInStep`,
`ChunksAlwaysExact`, `DictionaryAlwaysExact`, `AlwaysDelivered`,
`EncodedIsDecoded`.  The properties are about the history of chunks and symbols:
the last chunk that set the properties, the symbols since the last that reset
the state, what a chunk announced against what the symbols of it yield.  The
inductive invariant says the same with a position for each of these, and each
step extends the history by one event, which moves such a position to the end
or leaves it.  Of the sums only that they grow by the term appended is used.
`EncodedIsDecoded` is the round trip, for every input and every way the reader
cuts it: there is a set of marks, pairs of a place in the stream and one in the
input, which has the first and with each the one a chunk later (`Marks`);
the encoder adds a mark, and the decoder is always at one or inside the chunk
between two (`Reads`), whatever was decoded before.  So it needs no induction over
the number of chunks.

**`XzProofs`** — `DecoderConsistent`, `TypeCorrect`, `OutputAlwaysVerified`,
`RecordsAlwaysTrue`, `AlwaysAligned`, `AlwaysFoundFromEnd`, `EncodedIsAccepted`.
The invariant relates the decoder's counters, started anew for each part of the
stream, to the true position, and each record to its block; that parts begin at
multiples of four then follows from the paddings, and that the footer leads to
the index from the index being as long as it is counted.  `EncodedIsAccepted`
assumes `ShortWrites = FALSE`: with a sink that takes less than it is given the
round trip fails (§4).

**`LzmaRoundTripProofs`** — `InvariantHolds`, `TypeCorrect`, `CarryAlwaysFits`,
`DecoderAlwaysInStep`, `EncodedIsDecoded`: the LZMA encoder and decoder are
inverse to each other, for words, bytes, probabilities and symbols of all
widths, texts of all lengths and all options.  The assumptions relate the
widths as the code's do.  `ShiftAssumption`: the least probability that adapting
leads to (31 of 2048 in the code) leaves a range that one shift makes large
enough; the decoder shifts no more than once.
`DirectAssumption`: more bits with a context come before the direct bits of the
end marker than it takes to shift the range; without it the encoder, which
codes them as even bits, and the decoder, which halves its range, may differ
(`DirectExact`).  The argument:

* The bytes the encoder has written or keeps back, and `low` behind them, are a
  number, its `Place`.  Writing a byte moves the place by a digit and nothing
  else, whether the byte waits or a carry goes through all that wait
  (`WriteLowPlace`); `finish` writes just that number.
* A bit moves the place up by a part of the range and leaves the rest of it; so
  the finished bytes, as a number (`Value`), lie within the range of every bit
  before (`Inside`; it is followed backwards from the end of the history, whose
  last range begins where the bytes do).  That there is room for a carry,
  `Fits`, is kept by every bit.
* The difference of the two is the decoder's `code` (`AsDecoder`): a decoder
  that has read as far as the encoder could still change sees the bit that was
  coded (`DecodeStep`), and is again the difference.
* The inductive invariant, `IndInv`, says that the history is a chain of such
  bits, each from where the encoder stands to where it goes (`Trail`, `Linked`), and
  that the decoder is at a link of the chain, with the same probabilities
  (`InStep`, `Agree`), or has gone past it (`Beyond`).  The second is what a size
  larger than the text leads to: the code is 0, and every bit is 0 until a byte
  is needed that is not there.  A decoder that takes a code of 0 at the end of
  the input for the end of the text without having seen all of it has only
  missed zeros (`NothingBehind`).

`PropertiesReadBack`, `HeaderReadsBack`, `SetAlone` and `AllTheSame` are about the
header and the grid: the properties' byte is a number in mixed radix (`Digits`),
and a row of a `Vec2D` ends before the next begins (`OwnPlace`).

**`RecursionLemmas`** — `StepByStep` and what follows from it.  The library's
induction takes an operator for the property, which the provers here cannot
instantiate; taken as a *set* of numbers, the property can be: a set of numbers that holds 0 and with
each number the next holds them all (`InductionUpTo`, from the existence of a
least element).  With that, a function defined by recursion on a number exists
and satisfies its definition (`StepByStep`), which makes sums, copied
matches, powers of two and the numbers that bytes stand for something to reason
about.

Of the properties of the runs two have no theorem, and both are
temporal: `WriteAllEnds` (liveness), and `ImplementsContract`, whose safety
half `StreamKeepsContract` proves step by step and whose fairness needs `ENABLED`.  TLAPS does
neither here, and TLC checks them.

## 6. Assumptions of the models

* Of the range decoder's arithmetic: a symbol takes at most
  `MAX_REQUIRED_INPUT` bytes (`LzmaInput`; `AlwaysFits` proves it) and none if
  no renormalisation is due; a bit is a function of the bytes, the range, the code and the
  cell's probability (`SymbolDecoder`).
* After an end marker `code` is 0, as `is_finished_ok` requires, and a code of 0
  decodes bits 0.
* A decoder that failed is not used again without a reset.  `LzmaRoundTrip` resets
  a raw LZMA decoder after every call; `SymbolDecoder` also lets it go on
  with another input.
* The two sides agree on whether there is a size field in the header.
* The multi-byte numbers of an XZ stream are their values, and `Multibyte` the
  bytes they take, for the encoder and the decoder alike: that `get_multibyte` undoes
  `write_multibyte` is assumed, and so is that no number needs more than the 9
  bytes `get_multibyte` reads (a size of 2^63 or more).
* Checksums tell right from wrong; CRC and SHA are libraries.
* Distances and lengths do not overflow `usize` (64 bits).
* `dict_size` is not 0: the `.lzma` header reader raises it to 4096.

## 7. Not modelled

In `LzmaRoundTrip` a reset is of the probabilities its symbols use, those of
`is_match` and of literals; the encoder writes no match but the end marker, for
which the other arrays are read at their first values, once between two resets.  Errors and logging: conversions and formatting with no state.  `flush` and the
accessors of `Stream`: they change nothing in it.  Parameters of a raw decoder
that no header yields (`dict_size` 0 divides by zero in the ring).  A 32-bit
`usize`.  What the decoder makes of a symbol whose packed bytes are left over
in an LZMA2 chunk is arbitrary input to it.  Of the LZMA encoder's streams the
decoder gets no corrupted version: `LzmaInput`, `SymbolDecoder` and
`Lzma2Decoder` take arbitrary input instead, above the level of bits.

## 8. Plan

Built in this order: `Stream` and its contract, the windows, the symbol
decoder, LZMA2, XZ, the range coder, the bits of a symbol, the LZMA2 round
trip, the header and options; proofs of each as its runs passed.  What comes
next:

* **Malformed input**: the range decoder on arbitrary bytes, where `code` may
  not be below `range`.
* **Symbols of any encoder**: `LzmaRoundTrip` has literals and the end marker, as the
  crate's encoder writes no others; `EncoderAgrees` compares the trees, not yet a
  stream with matches.

## 9. Running

    tlc -config MCStream_short.cfg MCStream     # one run of PROJECT.json
    tlapm StreamProofs.tla                      # one module of proofs
