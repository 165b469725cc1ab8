SPECIFICATION FairSpec
CONSTANTS
    Keys <- MCKeys
    NoKey = NoKey
    Clients <- MCClients
    Relays <- MCRelays
    IdleAge = 1
    EvictAge = 1
    MaxLive = 0
    MaxProcs = 2
    MaxLeft = 1
    MaxCount = 1
INVARIANTS TypeOK OneProcess ClientsAreCounted
PROPERTIES PoolDrains
CHECK_DEADLOCK FALSE
