\* Two io threads, two poll threads (one more than main makes), two tasks
\* and a restart.
SPECIFICATION FairSpec
CONSTANTS
    IoThreads = {h1, h2}
    Pollers = {q1, q2}
    Tasks = {k1, k2}
    Free = Free
    NoTask = NoTask
    MaxCrashes = 1
INVARIANTS OneHolder RunsOnce RunsInPutOrder
PROPERTIES ImplementsService EveryTaskEnds EveryRequestAnswered
