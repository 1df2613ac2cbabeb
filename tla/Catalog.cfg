SPECIFICATION FairCatalogSpec
CONSTANTS
    Offerings <- MCOfferings
    Plans <- MCPlans
    OfferingOf <- MCOfferingOf
    Absent = Absent
    MaxChanges = 2
    MaxRotations = 1
    MaxFaults = 2
INVARIANTS CatalogInv
PROPERTIES OfferedPairsExist AnswerIsWhole CatalogIsServed
