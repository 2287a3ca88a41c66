SPECIFICATION Spec
CONSTANTS
    Profiles = {a, b}
    Proxies = {x}
    Direct = Direct
    QueueCap = 1
    MaxClicks = 4
INVARIANTS
    LeaseMatchesWork
PROPERTIES
    ReadingFits
    StartEnds
CHECK_DEADLOCK FALSE
