SPECIFICATION Spec
CONSTANTS
    tmp = tmp
    corp = corp
    lab = lab
    http = http
    CCacheAPI = CCacheAPI
    Path = {tmp}
    Profiles <- MCProfiles
    Realm = {corp, lab}
    Server = {corp, lab, http}
    Before = 4
    After = 2
    Change = 4
    Lifetime = 3
    Horizon = 5
INVARIANTS
    TypeOK
    SuccessMeansValid
    ReadBack
