\* The ring refines a bounded FIFO, with the indices wrapping, and the sleeping
\* main loop leaves no frame in it.
SPECIFICATION FairSpec
CONSTANTS
    Word = {1, 2}
    Capacity = 2
    IndexMod = 6
    FifoDepth = 2
    MaxDropped = 2
INVARIANT
    TypeOK
PROPERTIES
    QueueIsFifo
    FrameKeptOrCounted
    QueuedFrameServed
