\* An inbound client, with fairness.
SPECIFICATION FairSpec
CONSTANTS
    s1 = s1
    s2 = s2
    Nil = Nil
    Streams = {s1, s2}
    InternalRoom = 2
    Outbound = FALSE
    AppCalls = {"stream"}
    Loopback = FALSE
    Overtake = FALSE
    PromptSend = TRUE
    PromptQueue = FALSE
PROPERTIES ExpiredEnds
