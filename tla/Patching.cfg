SPECIFICATION Spec
CONSTANTS
    Callers <- MCCallers
    Main <- MCMain
    Status <- MCStatus
    Values = {0, 1}
    MaxFaults = 1
INVARIANTS IndInv ChangesAreStored FailureComesBack
PROPERTIES OnlyOwnChanges
CHECK_DEADLOCK FALSE
