SPECIFICATION Spec
CONSTANTS
    corp = corp
    lab = lab
    a = a
    b = b
    c = c
    tmp = tmp
    Nobody = Nobody
    none = none
    CCacheAPI = CCacheAPI
    Blank = Blank
    Name = {corp, lab}
    Credential = {a}
    Steady = {a}
    Path = {tmp}
    Stranger = Stranger
    Misread = 1
    ZoneShift = 1
    Shared = {}
    Wanted <- MCWanted
    DefaultPoll = 1
    DefaultLifetime = 6
    PolicyLifetime = 7
    StatusTimeout = 0
    AcquireTimeout = 1
    Files <- UpkeepFiles
INVARIANTS
    NoSilentLapse
    SteadyNeverBlocked
PROPERTIES
    FreshIsNotDue
    CycleIsBounded
