\* The same instance with two commands, for the leads-to properties.
SPECIFICATION Spec
CONSTANTS
    p1 = p1
    p2 = p2
    NoProfile = NoProfile
    LeftRunning <- OneProxied
    Profiles <- TwoProfiles
    Proxied <- OneProxied
    QueueCap = 2
    Batch = 2
    Rounds = 1
    MaxCommands = 2
PROPERTIES
    DeadTunnelEndsBrowser
    StartIsDecided
    ThreadEnds
CHECK_DEADLOCK FALSE
