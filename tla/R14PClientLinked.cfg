\* Streams that come back to their own client, and datagrams with a reply; none is
\* timed out while it is queued.
SPECIFICATION Spec
CONSTANTS
    s1 = s1
    s2 = s2
    Nil = Nil
    Streams = {s1, s2}
    InternalRoom = 2
    Outbound = TRUE
    AppCalls = {"stream", "datagram_reply"}
    Loopback = TRUE
    Overtake = FALSE
    PromptSend = TRUE
    PromptQueue = TRUE
SYMMETRY Symmetry
INVARIANTS
    OneOwner
