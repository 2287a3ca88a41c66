SPECIFICATION Spec
CONSTANTS
    Words <- MCWords
    Documents <- MCDocuments
    Environments <- MCEnvironments
    Typed = {"b"}
    MaxStarts = 2
    MaxEdits = 1
    MaxSaves = 2
    MaxClicks = 5
INVARIANTS
    PageTellsNextStart
    FormIsAnswered
PROPERTIES
    NothingIsLost
CHECK_DEADLOCK FALSE
