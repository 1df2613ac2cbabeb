SPECIFICATION FairSpec
CONSTANTS
    YamlModules <- MCYaml
    HelmModules <- MCHelm
    Orgs = "orgs"
    CfRootNs = "cfRootNs"
    Contour = "contour"
    Korifi = "korifi"
    InstallOrder <- MCInstallOrder
    UninstallOrder <- MCUninstallOrder
    Names <- MCNames
    Specs <- CustomRoot
    MaxGeneration = 1
    MaxCreates = 1
    MaxOrgs = 1
    MaxFaults = 0
PROPERTIES DeletionCompletes
CHECK_DEADLOCK FALSE
