------------------------------ MODULE MCStream ------------------------------
(***************************************************************************)
(* Small inputs for Stream: up to three symbols of zero to MaxReq bytes    *)
(* each.  A symbol outputs one byte (a literal) or two (a match), so that  *)
(* a match can step over the announced size.                               *)
(***************************************************************************)
EXTENDS Stream

CONSTANT MaxSymbols

\* Where the symbols end.
Ends(n) ==
    {f \in [0..n -> 0..(n * MaxReq)] :
        /\ f[0] = 0
        /\ \A i \in 0..(n - 1) : f[i] <= f[i + 1] /\ f[i + 1] <= f[i] + MaxReq}

\* What they output: symbol 2 is a match of out bytes.
Outs(n, last, out) ==
    [i \in 0..n |-> LET m == IF i = n /\ last # "data" THEN i - 1 ELSE i
                    IN  IF m >= 2 THEN m + out - 1 ELSE m]

\* With a size the code only matters at a marker, without one anywhere.
ZeroSets(n, size) ==
    IF size # NoSize THEN {{}, {n}} ELSE {{}} \cup {{i} : i \in 0..n}

File(n, ends, out, last, size, zero, extra) ==
    [props |-> TRUE, size |-> size, count |-> n, ends |-> ends,
     outs |-> Outs(n, last, out), zero |-> zero, last |-> last,
     len |-> Prefix + ends[n] + extra]

\* A file whose first byte is not a valid properties byte.
BadHeader == [File(0, [i \in 0..0 |-> 0], 1, "data", NoSize, {}, 1) EXCEPT !.props = FALSE]

\* Trailing bytes: after a marker, more than an arbitrary symbol needs.
Extra(last) == IF last = "eos" THEN MaxReq + 1 ELSE 1

\* All inputs of n symbols.
FilesOf(n, sizes) ==
    UNION {{File(n, ends, out, last, size, zero, Extra(last)) :
               ends \in Ends(n), out \in IF n < 2 THEN {1} ELSE {1, 2},
               last \in IF n = 0 THEN {"data"} ELSE Kinds,
               zero \in ZeroSets(n, size)} : size \in sizes}

MCFiles == {BadHeader}
             \cup UNION {FilesOf(n, {NoSize, 0, 2}) : n \in 0..MaxSymbols}

\* Those whose first symbol takes bytes, as it does with the probabilities a
\* decoder starts from.
MCStarting == {f \in MCFiles : f.count > 0 => f.ends[1] > 0}

=============================================================================
