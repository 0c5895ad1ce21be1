\* Two io threads, two tasks of ACTION 1.
SPECIFICATION Spec
CONSTANTS
    IoThreads = {h1, h2}
    Photos <- TwoPhotos
    Servers <- AllServers
    Numeric <- NumericServers
    Junk = 7
    Unreadable = Unreadable
    Lacking = Lacking
    Whole = Whole
    NoRow = NoRow
    FirstServer <- S1
    FirstPhoto <- P3
    MaxUploads = 0
    MaxCrashes = 0
INVARIANTS TableMatchesParam
\* A start that failed is not repeated.
CHECK_DEADLOCK FALSE
