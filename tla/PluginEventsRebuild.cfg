SPECIFICATION Spec
CONSTANTS
    call1 = call1
    call2 = call2
    toggle1 = toggle1
    toggle2 = toggle2
    Calls <- MCCalls
    Requests <- MCRequests
    Order <- MCOrder
    Listens <- MCListens
    Deniers <- MCDeniers
    Capacity = 1
SYMMETRY MCSymmetry
INVARIANTS TypeOK HooksFollowConfig
CHECK_DEADLOCK FALSE
