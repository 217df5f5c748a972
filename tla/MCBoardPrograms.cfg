SPECIFICATION Spec
CONSTANTS
    MaxKernel = 2
    MaxImage = 3
    MaxBss = 2
    RamSize = 8
    LGMEMTEST = 3
    WordBits = 4
    TAPS = 5
    Half = 4
    SignedOperands <- MCSignedOperands
    UnsignedOperands <- MCUnsignedOperands
    Faults <- MCOneLine
    Files <- MCFiles
    Acts <- MCActs
    StatusValues = 4
    BombWait = 2
    BlockBytes = 6
    RspLen = 8
    BlockDelay = 2
    tRESET = 30
    DevBlocks = 2
    MaxRestarts = 1
INVARIANTS ProgramInPlace
PROPERTIES SimEnds TestTells DivisionExact CardWorks
CHECK_DEADLOCK FALSE
