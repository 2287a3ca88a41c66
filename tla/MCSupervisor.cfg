\* Two profiles, one behind Xray, either possibly adopted at the start.
SPECIFICATION Spec
CONSTANTS
    p1 = p1
    p2 = p2
    NoProfile = NoProfile
    LeftRunning <- OneProxied
    Profiles <- TwoProfiles
    Proxied <- OneProxied
    QueueCap = 2
    Batch = 2
    Rounds = 1
    MaxCommands = 3
INVARIANTS
    NothingStray
    DirectoryFree
    SnapshotTells
    AckIsFinal
    StopWins
    ExitLeavesNothing
CHECK_DEADLOCK FALSE
