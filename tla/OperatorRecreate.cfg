SPECIFICATION FairSpec
CONSTANTS
    YamlModules <- MCYaml
    HelmModules <- MCHelm
    Orgs = "orgs"
    CfRootNs = "cfRootNs"
    Contour = "contour"
    Korifi = "korifi"
    InstallOrder <- MCInstallOrder
    UninstallOrder <- MCUninstallOrder
    Names <- MCNames
    Specs <- DefaultOnly
    MaxGeneration = 1
    MaxCreates = 2
    MaxOrgs = 1
    MaxFaults = 1
INVARIANTS IndInv OrgsNeverStranded
PROPERTIES ReleasedUnlessHidden FinalizerHeld DeletionCompletes
CHECK_DEADLOCK FALSE
