CONSTANTS
    Decode <- MCDecode
    AddrSpace = 10
    NoWord = NoWord
    ExitData = "exit"
    FirstDelay = 4
    PipeDelay = 3
    UserDelay = 3
    FlashSize = 2
    CpuRequests <- MCCpuRequests
    HostCommands <- MCHostCommands
    MaxOutstanding = 4
    PipelinedConfig = FALSE
SPECIFICATION Spec
INVARIANTS TypeOK AnswersOldest NoneDropped OnlyOwnerWaits
PROPERTIES ErrorsAreOwn OwnerKeepsCycle StalledRequestHeld
