SPECIFICATION FairSpec
CONSTANTS
    k1 = k1
    k2 = k2
    old = old
    new = new
    Caller <- Callers
    Plist <- Plists
    NoPlist = NoPlist
    Torn = Torn
    MaxPolls = 2
    PrintMayFail = FALSE
INVARIANT
    TypeOK
PROPERTIES
    InstallRetiresOldJob
    EveryVerbEnds
    EveryStepCounts
