SPECIFICATION DownloadsSpec
CONSTANTS
    Releases = {r, s}
    None = None
    MaxDownloads = 3
INVARIANTS
    RecordedWhole
PROPERTIES
    DownloadsEnd
CHECK_DEADLOCK FALSE
