---------------------------- MODULE MCSymbolBits ----------------------------
(* The corners of the contexts and of range, rare and even bits. *)
EXTENDS SymbolBits

MCContexts ==
    {[state |-> 0, pos_state |-> 0, lc |-> 0, lp |-> 0, len |-> 0,
      prev_byte |-> 0, match_byte |-> 0],
     [state |-> 11, pos_state |-> 15, lc |-> 8, lp |-> 4, len |-> 31,
      prev_byte |-> 255, match_byte |-> 165]}

\* As improbable as can be, even, or by turns.
MCOdds ==
    {[i \in 1..MaxBits |-> 31], [i \in 1..MaxBits |-> 1024],
     [i \in 1..MaxBits |-> IF i % 2 = 0 THEN 31 ELSE 2017]}

MCRanges == {[hi |-> 65536, lo |-> 0], [hi |-> 16777215, lo |-> 255]}

=============================================================================
