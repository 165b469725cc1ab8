CONSTANTS
    desktop = desktop
    Clients <- MCClients
    MaxLoops = 2
    MaxMessages = 2
    MaxStops = 1
    MaxPromotes = 1
SPECIFICATION FairSpec
INVARIANTS TypeOK MessagesConserved OverlapPaidByStops RunningIsOwned AbortSettles
PROPERTIES FailureKeepsQueue LoopExits
CHECK_DEADLOCK FALSE
