SPECIFICATION FairSpec
CONSTANTS
    MaxFrames = 1
    MaxTaken = 2
PROPERTIES  AskedIsAnswered
CHECK_DEADLOCK FALSE
