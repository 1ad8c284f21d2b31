\* An outbound client as the daemons use it: streams, and datagrams without reply.
SPECIFICATION Spec
CONSTANTS
    s1 = s1
    s2 = s2
    Nil = Nil
    Streams = {s1, s2}
    InternalRoom = 2
    Outbound = TRUE
    AppCalls = {"stream", "datagram"}
    Loopback = FALSE
    Overtake = FALSE
    PromptSend = TRUE
    PromptQueue = FALSE
SYMMETRY Symmetry
INVARIANTS
    TypeOK
    
    OneOwner
    NoLeak
    OutIsQueued
    ToldOnce
