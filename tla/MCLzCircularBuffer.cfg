\* Rings that stop growing below the dictionary size, and rings that are filled
\* and wrapped several times.
SPECIFICATION Spec
CONSTANTS
    Byte <- MCByte
    DictSize = 3
    MemLimits = {0, 2, 3}
    MaxLen = 5
    MaxOut = 9
    SinkMayFail = TRUE
INVARIANTS TypeOK InOrder ReadsBack RefusedAtLimit
PROPERTY ImplementsWindow
CHECK_DEADLOCK FALSE
