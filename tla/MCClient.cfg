\* Two attenuations tell commands apart; two retries; numbers wrap after three.
SPECIFICATION FairSpec
CONSTANTS
    Processes = {beamd}
    SeqCount = 3
    Retries = 2
    Values = {8, 23}
    Safe = 23
    Capacity = 3
    Timely = TRUE
INVARIANTS
    TypeOK
    AckIsMine
    AckedStateStands
    CarriedOutOnce
    NumbersSuffice
PROPERTY
    CallEnds
