\* A table of three slots, an array of two and a buffer of eight bytes.
CONSTANTS
    HashSize = 3
    ListSize = 2
    BufSize = 8
    Keys <- FourKeys
    Hashes <- SomeHashes
    Of <- SomeValues
    MaxIdx = 4
    Uses <- SomeUses
SPECIFICATION Spec
CHECK_DEADLOCK FALSE
INVARIANTS
    CountsReferences
    HangNeedsDeletions
    OverrunNeedsGap
    BufferInBounds
    PrintedTextParsesBack
PROPERTY
    ImplementsStore
