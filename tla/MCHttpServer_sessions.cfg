\* Two connections on one io thread, a client that may pipeline two requests.
SPECIFICATION FairSpec
CONSTANTS
    c1 = c1
    c2 = c2
    Conns = {c1, c2}
    Threads = 1
    MaxRequests <- TwoAndOne
INVARIANTS AnsweredInOrder CloseIsObeyed UnansweredOnlyIfCut
PROPERTIES EveryRequestAnswered EveryClientAccepted
\* The process may die.
CHECK_DEADLOCK FALSE
