CONSTANTS
    Calls <- MCCalls
    MaxCalls = 2
    LowAddr = 4
    AddrSpace = 12
    Bad <- MCBad
    InitMem <- MCInitMem
    ConsoleInput = {}
    MaxOf <- QuietOrPrinted
    MaxEvents = 1
SPECIFICATION Spec
INVARIANTS AccessesAsAsked ResponseTaken
PROPERTIES KeepsPromise
CHECK_DEADLOCK FALSE
