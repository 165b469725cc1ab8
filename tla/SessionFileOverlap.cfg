SPECIFICATION FileSpec
CONSTANTS
    Appenders = {engine, drain}
    Rewriters = {request, sync}
    MaxEntries = 3
    MaxRewrites = 2
    MaxCrashes = 1
SYMMETRY Symmetry
INVARIANTS FileTypeOK UnexposedSurvives
CHECK_DEADLOCK FALSE
