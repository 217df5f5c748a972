SPECIFICATION FairSpec
CONSTANTS
    MemBytes = 16
    PageBytes = 4
    SectorBytes = 8
    Bits = {0, 1}
    WordBytes = 2
    FlashBase = 32
    UserCommands = {"WREN"}
    StaleLengths = {0, 20}
    Programs <- MCPrograms
    Flashes <- MCFlashes
    Chips = {"chip", "flashsim"}
    BkramBase = 16
    BkramBytes = 2
    MaxPrograms = 2
INVARIANTS RunsReadable CommandsAccepted
PROPERTIES DoneAsSaid OnlyItsSectors LoaderEnds
CHECK_DEADLOCK FALSE
