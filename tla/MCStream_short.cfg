\* Options with a provided size: the header has 5 of its 13 bytes and tmp can
\* hold payload bytes too.  Scaled down: header 1 of 3, MAX_REQUIRED_INPUT 3.
CONSTANTS
    HeaderLen = 1
    MaxHeaderLen = 3
    StartBytes = 1
    MaxReq = 3
    MaxChunk = 5
    MaxSymbols = 3
    NoSize = NoSize
    AllowIncomplete = FALSE
    SinkMayFail = FALSE
    Files <- MCFiles
SPECIFICATION Spec
INVARIANTS TypeOK NoByteLost RoomToRefill
PROPERTY ImplementsContract
\* finish consumes the stream.
CHECK_DEADLOCK FALSE
