SPECIFICATION FairBroadcast
CONSTANTS
    Handlers <- MCHandlers
    Timer = Timer
    Cards <- MCCards
    MaxOps = 3
INVARIANTS BroadcastTypeOK QuietShowsStore
PROPERTIES PageCatchesUp
CHECK_DEADLOCK FALSE
