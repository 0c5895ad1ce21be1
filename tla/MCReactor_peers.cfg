\* An acceptor with one client at a time, or a connector; delays of a tick.
SPECIFICATION Spec
CONSTANTS
    RecvTimeout = 1
    ReconnectDelay = 1
    MaxUnits = 3
    MaxTimers = 2
    MaxLag = 1
    MaxReasons = 2
INVARIANTS UsedAfterDeleteOnlyWhere StreamInOrder OneTimerEach EndIsNoticed RoomIsAwaited DialsAgain
\* Without a timer and a peer run() waits for ever.
CHECK_DEADLOCK FALSE
