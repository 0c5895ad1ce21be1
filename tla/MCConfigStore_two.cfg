\* Two io threads, uploads that may meet, and a restart.
SPECIFICATION Spec
CONSTANTS
    IoThreads = {h1, h2}
    Photos <- OnePhoto
    Servers <- AllServers
    Numeric <- NumericServers
    Junk = 7
    Unreadable = Unreadable
    Lacking = Lacking
    Whole = Whole
    NoRow = NoRow
    FirstServer <- S1
    FirstPhoto <- P1
    MaxUploads = 2
    MaxCrashes = 1
SYMMETRY Sym
INVARIANTS TableMatchesUnlessMet TaskReadsWholeConfig StartFailsOnlyWhenSpoiled
\* A start that failed is not repeated.
CHECK_DEADLOCK FALSE
