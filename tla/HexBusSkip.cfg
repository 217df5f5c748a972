CONSTANTS
    Calls <- WriteThenRead
    MaxCalls = 2
    LowAddr = 4
    AddrSpace = 12
    Bad <- MCBad
    InitMem <- MCInitMem
    ConsoleInput = {}
    MaxOf <- NoEvent
    MaxEvents = 0
SPECIFICATION Spec
INVARIANTS AccessesAsAsked
CHECK_DEADLOCK FALSE
