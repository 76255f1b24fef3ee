\* The 5-byte header with allow_incomplete: tmp may hold payload at finish.
CONSTANTS
    HeaderLen = 1
    MaxHeaderLen = 3
    StartBytes = 1
    MaxReq = 3
    MaxChunk = 4
    MaxSymbols = 1
    NoSize = NoSize
    AllowIncomplete = TRUE
    SinkMayFail = FALSE
    Files <- MCFiles
SPECIFICATION Spec
INVARIANTS IncompleteKeepsAll
\* finish consumes the stream.
CHECK_DEADLOCK FALSE
