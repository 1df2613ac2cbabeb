SPECIFICATION FairSpec
CONSTANTS
    YamlModules <- MCYaml
    HelmModules <- MCHelm
    Orgs = "orgs"
    CfRootNs = "cfRootNs"
    Contour = "contour"
    Korifi = "korifi"
    InstallOrder <- MCInstallOrder
    UninstallOrder <- MCUninstallOrder
    Names <- MCNames
    Specs <- AllGateways
    MaxGeneration = 2
    MaxCreates = 1
    MaxOrgs = 0
    MaxFaults = 1
INVARIANTS SettledIsFinished
PROPERTIES Converges
CHECK_DEADLOCK FALSE
