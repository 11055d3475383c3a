SPECIFICATION Spec
CONSTANTS
    k1 = k1
    k2 = k2
    old = old
    new = new
    Caller = {k1}
    Plist <- Plists
    NoPlist = NoPlist
    Torn = Torn
    MaxPolls = 2
    PrintMayFail = FALSE
PROPERTIES
    UnchangedMeansCurrent
