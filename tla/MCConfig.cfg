SPECIFICATION Spec
CONSTANTS
    c1 = c1
    c2 = c2
    x = x
    p = p
    q = q
    CoreIds = {c1, c2}
    ProxyIds = {x}
    ProfileIds = {p, q}
    Binaries = {chrome, other}
    Direct = Direct
    Edited <- Files
    Beginnings <- Starts
    MaxEdits = 2
    MaxTasks = 2
INVARIANTS
    NeverDangles
    SilenceMeansAll
    RestoreLands
PROPERTIES
    ImportKeeps
CHECK_DEADLOCK FALSE
