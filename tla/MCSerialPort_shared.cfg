\* Objects that may hold one port, and direct calls of the library.
SPECIFICATION FairSpec
CONSTANTS
    Ports = {1, 2}
    Objs = {a, b, d}
    Few = {a, b}
    NoObj = NoObj
    Params <- FiveParams
    Speeds <- OneSpeed
    Timeouts <- ShortOrNone
    Chunk = 2
    MaxBytes = 4
INVARIANTS SettingsAsAsked ClosesItsOwn ReadIsOneRun CopiesWhatWasRead
PROPERTIES ReadEnds
\* The process may die.
CHECK_DEADLOCK FALSE
