\* The service and the command-line tool at once; frames are never stale.
SPECIFICATION Spec
CONSTANTS
    Processes = {beamd, beamctl}
    SeqCount = 3
    Retries = 1
    Values = {8, 23}
    Safe = 23
    Capacity = 2
    Timely = TRUE
INVARIANTS
    AckIsMine
