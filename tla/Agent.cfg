SPECIFICATION AgentFairSpec
CONSTANTS
    k1 = k1
    old = old
    new = new
    Caller = {k1}
    Plist = {old, new}
    NoPlist = NoPlist
    Torn = Torn
    MaxPolls = 2
    PrintMayFail = FALSE
    Configs = {"bad", "good", "crashing"}
INVARIANTS
    AgentTypeOK
    NeverForgotten
    NoOrphan
PROPERTIES
    SuccessMeansDone
    StopIsReal
    RepairBringsBack
