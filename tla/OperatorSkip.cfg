SPECIFICATION Spec
CONSTANTS
    YamlModules <- MCYaml
    HelmModules <- MCHelm
    Orgs = "orgs"
    CfRootNs = "cfRootNs"
    Contour = "contour"
    Korifi = "korifi"
    InstallOrder <- MCInstallOrder
    UninstallOrder <- MCUninstallOrder
    Names <- MCNames
    Specs <- DefaultOnly
    MaxGeneration = 1
    MaxCreates = 1
    MaxOrgs = 0
    MaxFaults = 1
INVARIANTS SkippedOnlyIfNotStarted
CHECK_DEADLOCK FALSE
