SPECIFICATION FairSpec
CONSTANTS
    Sids = {x, y}
    NoSid = NoSid
    MaxSessions = 2
    Clients = {c1, c2}
    Requests = {}
    Stopper = stopper
    MaxConcurrent = 1
    MaxStops = 1
    MaxUnheard = 0
    MaxTalk = 0
CHECK_DEADLOCK FALSE
INVARIANTS
    CloseReleases
PROPERTIES
    IdleIsClosed
    JoinReturns
