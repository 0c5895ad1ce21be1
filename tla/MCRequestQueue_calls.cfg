\* A producer, a consumer that keeps calling Get and a thread that makes every
\* call.  Three items: one can be taken out between two others.
SPECIFICATION FairSpec
CONSTANTS
    p = p
    g = g
    x = x
    Threads = {p, g, x}
    Items = {i1, i2, i3}
    Role <- RoleCalls
    NoThread = NoThread
    NoItem = NoItem
    Garbage = Garbage
INVARIANTS NoLostWakeup InOrderLessDropped
PROPERTIES ImplementsFifo EveryItemLeaves
