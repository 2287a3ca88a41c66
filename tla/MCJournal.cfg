SPECIFICATION Spec
CONSTANTS
    p1 = p1
    p2 = p2
    Profiles = {p1}
    Proxied = {p1}
    Pids = {1, 2, 3}
    Somebody = Somebody
    Nobody = Nobody
    Worlds = {"clear", "unix", "windows"}
    WritesFail = TRUE
    Most <- Few
INVARIANTS
    CustodyKept
    PurposeHonoured
PROPERTIES
    RecordOutlivesProcess
    RecoveryEnds
CHECK_DEADLOCK FALSE
