CONSTANTS
    FifoLengthsBuilt = {0, 4}
    Ints = {"uarttxf"}
    Calls <- CallsTried
    MaxWritten = 4
    MaxTyped = 4
SPECIFICATION FairSpec
INVARIANTS TypeOK FifosSound InOrder
PROPERTIES CallReturns WrittenIsSent
