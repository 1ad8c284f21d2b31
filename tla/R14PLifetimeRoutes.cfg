\* Packets to every daemon of a type and back to their sender, lost registrations.
SPECIFICATION Spec
CONSTANTS
    w1 = w1
    w2 = w2
    r1 = r1
    r2 = r2
    Routers = {w1, w2}
    RegThreads = {r1, r2}
    WORD = 10
    Outbound = TRUE
    PromptCount = TRUE
    LateAccept = FALSE
    LastSent = FALSE
    DestinationAll = TRUE
    SameType = TRUE
SYMMETRY Symmetry
INVARIANTS
    TypeOK
    NoThreadOutlives
CHECK_DEADLOCK FALSE
