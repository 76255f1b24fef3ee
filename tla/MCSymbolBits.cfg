\* Symbols at their real sizes: bits at the smallest probability there is, at
\* one half, or improbable ones by turns, from the smallest and the largest range.
SPECIFICATION BitSpec
CONSTANTS
    Contexts <- MCContexts
    Odds <- MCOdds
    Ranges <- MCRanges
    Longs = {0, 85, 255}
INVARIANTS BitsTypeOK FitsRequired CellsOwn EncoderAgrees
\* The symbol is complete.
CHECK_DEADLOCK FALSE
