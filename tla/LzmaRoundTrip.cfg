\* Words of four bytes of three bits, symbols of two bits, up to four of them.
SPECIFICATION Spec
CONSTANTS
    ByteBits = 3
    WordBytes = 4
    TotalBits = 4
    MoveBits = 2
    LitBits = 2
    Lc = 1
    Pb = 1
    LenBits = 1
    SlotBits = 2
    DirectBits = 4
    AlignBits = 1
    MaxText = 4
    Sizes = {2, 6, 7}
    SizeWord = 8
    DictSize = 8
    MinDict = 4
    NoSize = NoSize
INVARIANTS TypeOK CarryFits DecoderInStep RoundTrip
\* The encoder has finished, and the decoder after it.
CHECK_DEADLOCK FALSE
