--------------------------- MODULE MCSymbolDecoder ---------------------------
(* The texts of the instances: a constant one, which any match continues, and *)
(* ones whose bytes part, in the first bit or in the middle one, from those a *)
(* match would copy.                                                          *)
EXTENDS SymbolDecoder

CONSTANT MaxOut     \* bound: bytes of output, in all windows

Top == Pow2(LitBits) - 1

MCTexts ==
    {[i \in 1..MaxOut |-> 0],
     [i \in 1..MaxOut |-> IF i % 2 = 1 THEN Top ELSE 1],
     [i \in 1..MaxOut |-> IF i % 3 = 0 THEN Top - 2 ELSE Top]}

=============================================================================
