\* allow_incomplete with the whole header, so that tmp never holds payload:
\* the symbols that take no byte are what is left.
CONSTANTS
    HeaderLen = 2
    MaxHeaderLen = 2
    StartBytes = 1
    MaxReq = 3
    MaxChunk = 4
    MaxSymbols = 2
    NoSize = NoSize
    AllowIncomplete = TRUE
    SinkMayFail = FALSE
    Files <- MCStarting
SPECIFICATION Spec
INVARIANTS BypassesOnlyChecks
\* finish consumes the stream.
CHECK_DEADLOCK FALSE
