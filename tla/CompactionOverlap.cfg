SPECIFICATION Spec
CONSTANTS
    Manual <- MCManual
    MaxItems = 4
    MaxLines = 3
INVARIANTS TypeOK OneSummaryFirst
PROPERTIES PendingStays
CHECK_DEADLOCK FALSE
