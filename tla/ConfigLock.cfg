\* An inbound connection and one to a routing daemon, two requests.
SPECIFICATION FairSpec
CONSTANTS
    a = a
    r = r
    s1 = s1
    s2 = s2
    Sweeper = Sweeper
    None = None
    Conns = {a, r}
    Inbound = {a}
    Streams = {s1, s2}
    MaxResults = 1
INVARIANTS
    TypeOK
    LockIsHeldForAStream
    AloneIsExclusive
PROPERTIES
    Served
CHECK_DEADLOCK FALSE
