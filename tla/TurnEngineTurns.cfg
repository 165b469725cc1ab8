CONSTANTS
    Tools <- MCTools
    Registered <- MCRegistered
    EndTurnTools <- MCEndTurn
    LongRunning <- MCLongRunning
    Budget = 2
    HasWindow = TRUE
    HasToolTimeout = TRUE
    MaxTurns = 2
    MaxCalls = 3
SPECIFICATION FairSpec
INVARIANTS TypeOK StartedIsRecorded CancelLatency BudgetExact RequestWellFormed OrphansOnlyFromCutTurns SilentOnlyOnStoreError
PROPERTIES EndTurnEndsTurn CancelConverges HungToolReleased
