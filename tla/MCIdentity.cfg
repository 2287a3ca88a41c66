SPECIFICATION IdentitySpec
CONSTANTS
    Savable <- SomeProfiles
    Layouts <- SomeLayouts
    Exits = {A, B}
    None = None
    MaxChanges = 1
INVARIANTS
    SilenceIsProof
    WarningsAreRight
PROPERTIES
    NothingHangs
CHECK_DEADLOCK FALSE
