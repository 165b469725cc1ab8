SPECIFICATION FairSpec
CONSTANTS
    Threads <- MCThreads
    Children <- MCChildren
    ParentOf <- MCParentOf
    Syncers <- MCSyncers
    Mortal <- MCMortal
    MaxEntries = 1
    MaxWrites = 3
INVARIANTS TypeOK OnlyResendMakesGhosts
PROPERTIES StreamingUntouched 
CHECK_DEADLOCK FALSE
