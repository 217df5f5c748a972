CONSTANTS
    Calls <- OneWordReads
    MaxCalls = 1
    LowAddr = 4
    AddrSpace = 12
    Bad <- MCBad
    InitMem <- MCInitMem
    ConsoleInput <- Typed
    MaxOf <- InputOrQuiet
    MaxEvents = 1
SPECIFICATION FairSpec
PROPERTIES CallReturns InterruptAnswered
CHECK_DEADLOCK FALSE
