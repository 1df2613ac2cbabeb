SPECIFICATION FairSpec
CONSTANTS
    v1 = v1
    v2 = v2
    Values <- MCValues
    NoValues = NoValues
    MaxChanges = 3
    MaxCrashes = 2
    MaxInstallFailures = 2
    MaxDeleteFailures = 2
INVARIANTS IndInv CleanUnlessHidden InstallSuccessIsComplete
PROPERTIES GoalIsReached ImplementsInstallable
