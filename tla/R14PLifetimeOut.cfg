\* An outbound client that reconnects twice, each time with a registration.
SPECIFICATION FairSpec
CONSTANTS
    w1 = w1
    w2 = w2
    r1 = r1
    r2 = r2
    Routers = {w1, w2}
    RegThreads = {r1, r2}
    WORD = 10
    Outbound = TRUE
    PromptCount = TRUE
    LateAccept = FALSE
    LastSent = TRUE
    DestinationAll = FALSE
    SameType = FALSE
PROPERTIES
    InactiveIsFreed
CHECK_DEADLOCK FALSE
