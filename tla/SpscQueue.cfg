\* Pushes that flush, as every caller's do, and pushes that leave publication to
\* the watermark.  A producer that does not flush may leave both sides waiting,
\* so the system may stop.
SPECIFICATION FairSpec
CONSTANTS
    a = a
    b = b
    Items = {a, b}
    NoItem = NoItem
    FlushItems = {TRUE, FALSE}
    QSIZE = 8
    QUEUE_WATERMARK = 4
INVARIANTS
    NoSlotShared
    RefusedOnlyWhenLoaded
PROPERTIES
    ImplementsFifo
    AcceptedIsTaken
CHECK_DEADLOCK FALSE
