\* Every race between can_bus_send(), the handler and the mailboxes, and no queued
\* frame is stranded.
SPECIFICATION FairSpec
CONSTANTS
    Priorities = {0, 1, 2}
    Capacity = 2
    Mailboxes = 2
    MaxDropped = 2
    MaxSends = 7
INVARIANTS
    TypeOK
    EveryFrameAccounted
PROPERTIES
    PriorityThenFifo
    NewestLowestIsLost
    QueueDrains
CHECK_DEADLOCK FALSE
