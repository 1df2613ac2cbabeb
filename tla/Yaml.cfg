SPECIFICATION FairSpec
CONSTANTS
    ns = ns
    crd = crd
    Blank = Blank
    Malformed = Malformed
    Objects <- MCObjects
    Manifests <- MCManifests
    MaxChanges = 3
    MaxOthers = 1
    MaxFaults = 2
INVARIANTS IndInv
PROPERTIES BadManifestTouchesNothing NoBlindOverwrite WantedIsReached ImplementsInstallable
