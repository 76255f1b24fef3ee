\* Bytes, literals and matches over several dictionary resets.
SPECIFICATION Spec
CONSTANTS
    Byte <- MCByte
    MemLimit = 4
    MaxLen = 4
    MaxOut = 6
    SinkMayFail = TRUE
INVARIANTS TypeOK
PROPERTIES ImplementsWindow MatchesRepeat
CHECK_DEADLOCK FALSE
