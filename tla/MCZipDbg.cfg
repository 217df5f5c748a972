CONSTANTS
    Code <- MCCode
    StartHalted = TRUE
    Peripherals = 1
    Timers = 1
    RowLength = 2
    Values = {3}
    Editable <- MCEditable
    MaxErr = 1
    MaxLook = 2
    MinGap = 3
    MaxKeys = 3
    MaxSessions = 2
SPECIFICATION FairSpec
INVARIANTS ShowsTheCpu NeverStalls RunsAsShown StepsOne GoneIsRunning
PROPERTIES KeyAnswered
CHECK_DEADLOCK FALSE
