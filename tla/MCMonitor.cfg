\* The dashboard's streams, the health of two nodes found by scanning, and the end
\* of the polling thread.
SPECIFICATION FairSpec
CONSTANTS
    Targets = 2
    Configured = FALSE
INVARIANTS
    StreamIsCurrent
    CycleReported
PROPERTY
    Stops
