\* An inbound client, to the end of the session.
SPECIFICATION FairSpec
CONSTANTS
    w1 = w1
    w2 = w2
    r1 = r1
    r2 = r2
    Routers = {w1, w2}
    RegThreads = {}
    WORD = 10
    Outbound = FALSE
    PromptCount = TRUE
    LateAccept = FALSE
    LastSent = TRUE
    DestinationAll = FALSE
    SameType = FALSE
INVARIANTS
    NoRouteOutlives
    SessionOutlives
PROPERTIES
    InactiveIsFreed
    DestroyEnds
CHECK_DEADLOCK FALSE
