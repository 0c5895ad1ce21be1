\* Addresses under which the continue can be delivered, every fault, and a
\* reload of the configuration.
SPECIFICATION FairSpec
CONSTANTS
    CnValues = {0, 1, 2}
    Bodies = {b1, b2}
    Faults = {"unreached", "lost", "thrown", "malformed"}
    EaIp <- InOneIp
    EaPort <- InOnePort
    Listening <- InOneListening
    MaxReloads = 1
INVARIANTS AttemptsWithinLimit RunLogNeverOverstates ContinueOnlyConfirmed
PROPERTIES RunEnds
\* The run of a task is over.
CHECK_DEADLOCK FALSE
