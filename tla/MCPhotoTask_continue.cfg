\* The shipped addresses.
SPECIFICATION Spec
CONSTANTS
    CnValues = {0, 1, 2}
    Bodies = {b1, b2}
    Faults = {}
    EaIp <- ShippedIp
    EaPort <- ShippedPort
    Listening <- ShippedListening
    MaxReloads = 0
INVARIANTS ContinueReachesRobot
\* The run of a task is over.
CHECK_DEADLOCK FALSE
