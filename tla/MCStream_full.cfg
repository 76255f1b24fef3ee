\* The default options, except that incomplete streams are accepted: the
\* header has all its bytes and tmp never holds payload.  The sink may fail.
CONSTANTS
    HeaderLen = 2
    MaxHeaderLen = 2
    StartBytes = 1
    MaxReq = 3
    MaxChunk = 4
    MaxSymbols = 2
    NoSize = NoSize
    AllowIncomplete = TRUE
    SinkMayFail = TRUE
    Files <- MCFiles
SPECIFICATION FairCaller
INVARIANTS IncompleteKeepsAll
PROPERTIES KeepsContract WriteAllEnds
\* finish consumes the stream.
CHECK_DEADLOCK FALSE
