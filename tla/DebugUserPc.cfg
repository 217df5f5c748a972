CONSTANTS
    Code <- MCCode
    StartHalted = TRUE
    Peripherals = 1
    Timers = 1
    RowLength = 2
    Values = {1, 3}
    Editable <- EveryCell
    MaxErr = 2
    MaxLook = 2
    MinGap = 3
    MaxKeys = 3
    MaxSessions = 2
SPECIFICATION Spec
INVARIANTS RunsAsShown
CHECK_DEADLOCK FALSE
