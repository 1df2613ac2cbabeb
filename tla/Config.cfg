SPECIFICATION FairSpec
CONSTANTS
    Texts <- MCTexts
    Nil = Nil
    Absent = Absent
    Garbled = Garbled
    Specs <- MCSpecs
    Worlds <- MCWorlds
    MaxChanges = 2
INVARIANTS IndInv
PROPERTIES StatusFollowsKyma ConfigIsNeverLost ReinstallIsNoop
