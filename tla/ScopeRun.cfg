SPECIFICATION Spec
CONSTANTS
    LGMEM = 3
    HOLDOFFBITS = 2
    Holdoffs = {0,2}
    MaxStep = 3
    Window = 9
    MaxMoves = 2
INVARIANTS ShowsTheSignal MarksTheTrigger
