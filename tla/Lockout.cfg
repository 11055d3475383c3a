SPECIFICATION Spec
CONSTANTS
    corp = corp
    lab = lab
    a = a
    b = b
    c = c
    tmp = tmp
    Nobody = Nobody
    none = none
    CCacheAPI = CCacheAPI
    Blank = Blank
    Name = {corp}
    Credential = {b, c}
    Steady = {}
    Path = {tmp}
    Stranger = Stranger
    Misread = 0
    ZoneShift = 0
    Shared = {}
    Wanted <- MCWanted
    DefaultPoll = 1
    DefaultLifetime = 1
    PolicyLifetime = 1
    StatusTimeout = 1
    AcquireTimeout = 1
    Files <- LockoutFiles
INVARIANTS
    TypeOK
    NoSecondStrike
    StruckIsBlocked
PROPERTIES
    CycleIsBounded
