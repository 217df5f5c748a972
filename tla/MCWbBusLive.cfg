CONSTANTS
    Decode <- MCDecode
    AddrSpace = 10
    NoWord = NoWord
    ExitData = "exit"
    FirstDelay = 4
    PipeDelay = 3
    UserDelay = 3
    FlashSize = 2
    CpuRequests <- LiveCpuRequests
    HostCommands <- LiveHostCommands
    MaxOutstanding = 2
    PipelinedConfig = FALSE
SPECIFICATION FairSpec
PROPERTIES CpuServed HostServed
