CONSTANTS
    Tools <- MCTools
    Registered <- MCRegistered
    EndTurnTools <- MCEndTurn
    LongRunning <- MCLongRunning
    Budget <- NoBudget
    HasWindow = TRUE
    HasToolTimeout = TRUE
    MaxTurns = 1
    MaxCalls = 2
SPECIFICATION Spec
INVARIANT OneTurnFinished
