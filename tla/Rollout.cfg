SPECIFICATION FairSpec
CONSTANTS
    None = None
    NotReady = NotReady
    Specs <- MCSpecs
    MaxEdits = 1
    MaxFaults = 1
INVARIANTS IndInv ReadyIsRolledOut SecretReachesKorifi
PROPERTIES RolloutCompletes
CHECK_DEADLOCK FALSE
