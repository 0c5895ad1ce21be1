\* An io thread and the poll thread share the connection, three lines.
SPECIFICATION FairSpec
CONSTANTS
    Threads = {h1, q1}
    Lines = {l1, l2, l3}
    NoThread = NoThread
    NoLine = NoLine
INVARIANTS RowsInCallOrder TwiceOnlyIfLost
PROPERTIES EveryCallReturns
\* All lines are recorded.
CHECK_DEADLOCK FALSE
