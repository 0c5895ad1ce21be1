\* Every way to cut an answer of each kind, two calls of one client.
SPECIFICATION ClientSpec
CONSTANTS
    Answers <- OneEach
    JunkSizes = {0, 1, 9}
    HeadLimit = 2
    MaxCalls = 2
INVARIANTS BodyIsWhole NoWaitForMore
\* The last call is over.
CHECK_DEADLOCK FALSE
