\* One profile over two runs and two kills; every operation but renaming a
\* profile's own directory back may fail.
SPECIFICATION Spec
CONSTANTS
    p1 = p1
    p2 = p2
    Profiles <- OneProfile
    NoDir = NoDir
    PutBackFails = {"backup"}
    MaxRuns = 2
    MaxCrashes = 2
INVARIANTS
    DataIsInPlace
PROPERTIES
    ReplacesAtomically
    ForeignIsKept
    WorkEnds
CHECK_DEADLOCK FALSE
