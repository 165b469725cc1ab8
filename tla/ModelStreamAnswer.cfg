SPECIFICATION FairSpec
CONSTANTS
    Capacity = 2
    MaxRetries = 2
    MaxLines = 3
INVARIANTS TypeOK DoneIsWhole
PROPERTIES TurnGetsVerdict
CHECK_DEADLOCK FALSE
