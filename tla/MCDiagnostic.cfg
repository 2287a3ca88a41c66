SPECIFICATION Spec
CONSTANTS
    Tests = {t, u}
    Ports = {p}
    None = None
    Profile = Profile
    Stranger = Stranger
    Markers = {"auth"}
    RemovalFails = TRUE
    Budget = 1
INVARIANTS
    EngineEndsWithCall
    OwnWords
PROPERTIES
    TestEnds
CHECK_DEADLOCK FALSE
