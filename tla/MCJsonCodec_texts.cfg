\* Every answer of up to four pieces, every small configuration.
SPECIFICATION Spec
CONSTANTS
    MaxPieces = 4
    Answers <- Texts
    Values <- TheValues
INVARIANTS BodyIsRead RelayKeepsAnswer
\* One call each.
CHECK_DEADLOCK FALSE
