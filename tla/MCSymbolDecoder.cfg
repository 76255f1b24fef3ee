\* Bytes of three bits and distances of four: all kinds of symbols, dry and real.
SPECIFICATION Spec
CONSTANTS
    Lc = 1
    Lp = 1
    Pb = 1
    LitBits = 3
    PosBits = 1
    LowBits = 1
    HighBits = 1
    SlotBits = 3
    EndSlot = 6
    AlignBits = 1
    DictSize = 3
    MaxOut = 6
    Texts <- MCTexts
    WindowMayFail = TRUE
INVARIANTS TypeOK StateMeaning DryRunTells RepsServed
PROPERTY MarkerIsLast
\* A run that failed is not continued.
CHECK_DEADLOCK FALSE
