SPECIFICATION CodeFairSpec
CONSTANTS
    Capacity = 1
    MaxRetries = 1
    MaxLines = 3
PROPERTIES CancelEndsStream
CHECK_DEADLOCK FALSE
