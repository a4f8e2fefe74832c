SPECIFICATION Spec
CONSTANTS
    Sids = {x}
    NoSid = NoSid
    MaxSessions = 2
    Clients = {c1}
    Requests = {q1, q2}
    Stopper = stopper
    MaxConcurrent = 1
    MaxStops = 0
    MaxUnheard = 1
    MaxTalk = 2
SYMMETRY Symmetry
CHECK_DEADLOCK FALSE
INVARIANTS
    UsedIsOpen

    
