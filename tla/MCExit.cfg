SPECIFICATION Spec
CONSTANTS
    c1 = c1
    c2 = c2
    p1 = p1
    Copies = {c1, c2}
    Profiles = {p1}
    Nobody = Nobody
    QueueCap = 2
    MaxClicks = 2
INVARIANTS
    RecoversTheDead
    WindowReachable
    
PROPERTIES
    
    ExitEnds
CHECK_DEADLOCK FALSE
