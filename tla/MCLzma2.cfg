\* Up to six chunks and symbols over two calls, the last on an encoder's stream.
SPECIFICATION RTSpec
CONSTANTS
    Byte <- MCByte
    Statuses <- MCStatuses
    Props <- MCProps
    Sizes <- MCSizes
    MaxLen = 2
    MaxOut = 4
    MaxLog = 6
    SinkMayFail = TRUE
    Inputs <- MCInputs
    BufSize = 2
    SizeWord = 2
INVARIANTS TypeOK InStep ChunksExact DictionaryExact Delivered RoundTrip
