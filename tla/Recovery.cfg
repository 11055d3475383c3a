SPECIFICATION FairSpec
CONSTANTS
    corp = corp
    lab = lab
    a = a
    b = b
    c = c
    tmp = tmp
    Nobody = Nobody
    none = none
    CCacheAPI = CCacheAPI
    Blank = Blank
    Name = {corp}
    Credential = {a, b}
    Steady = {a}
    Path = {tmp}
    Stranger = Stranger
    Misread = 0
    ZoneShift = 0
    Shared = {CCacheAPI}
    Wanted <- MCWanted
    DefaultPoll = 1
    DefaultLifetime = 1
    PolicyLifetime = 1
    StatusTimeout = 0
    AcquireTimeout = 0
    Files <- RecoveryFiles
PROPERTIES
    UpkeepResumes
    EditTakesEffect
    ShutdownCompletes
    ImplementsProcess
