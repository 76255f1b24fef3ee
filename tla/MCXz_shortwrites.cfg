\* The sink of the encoder may take one byte of a write of two.
SPECIFICATION RTSpec
CONSTANTS
    InputSizes <- MCInputSizes
    ShortReads = TRUE
    ShortWrites = TRUE
    Word = 256
    Methods <- MCMethods
    HeaderSizes <- MCHeaderSizes
    PackedSizes <- MCPackedSizes
    Sizes <- MCSizes
    DeclaredSizes <- MCDeclaredSizes
    MaxBlocks = 2
    SinkMayFail = TRUE
INVARIANT RoundTrip
