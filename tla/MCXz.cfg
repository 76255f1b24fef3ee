\* Streams of up to two blocks, and what the encoder writes.
SPECIFICATION RTSpec
CONSTANTS
    InputSizes <- MCInputSizes
    ShortReads = TRUE
    ShortWrites = FALSE
    Word = 256
    Methods <- MCMethods
    HeaderSizes <- MCHeaderSizes
    PackedSizes <- MCPackedSizes
    Sizes <- MCSizes
    DeclaredSizes <- MCDeclaredSizes
    MaxBlocks = 2
    SinkMayFail = TRUE
INVARIANTS TypeOK Aligned RecordsTrue FoundFromEnd OutputVerified RoundTrip
