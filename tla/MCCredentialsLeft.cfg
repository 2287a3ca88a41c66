SPECIFICATION Spec
CONSTANTS
    Tests = {t, u}
    Ports = {p}
    None = None
    Profile = Profile
    Stranger = Stranger
    Markers = {"auth"}
    RemovalFails = FALSE
    Budget = 1
INVARIANT
    CredentialsGo
CHECK_DEADLOCK FALSE
