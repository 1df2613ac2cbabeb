SPECIFICATION FairSpec
CONSTANTS
    r1 = r1
    r2 = r2
    p1 = p1
    p2 = p2
    NoParams = NoParams
    Requests <- TwoRequests
    Params <- TwoParams
    MaxRequests = 4
    MaxFailures = 1
INVARIANTS SucceededIsReal DeletedIsGone FailureIsFresh IndInv
PROPERTIES CreationConcludes DeletionConcludes
CHECK_DEADLOCK FALSE
