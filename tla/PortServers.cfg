SPECIFICATION Spec
CONSTANTS
    MaxSessions = 2
    MaxBytes = 2
    SockRoom = 1
    LineRoom = 1
    Typed = {"nul", "hi"}
    DblPipeBufLen = 4
INVARIANTS OnlyCommandsMarked GivenAll
PROPERTIES TypedArrives
CHECK_DEADLOCK FALSE
