\* Every interleaving of frames, write faults and resets; with the fairness of
\* the main loop, accepted commands are answered and boots end.
SPECIFICATION FairSpec
CONSTANTS
    Seqs = {1, 2}
    Byte = {0, 1, 2, 3}
    MaxAttenuation = 2
    OperationalPhase = 1
    MaxInvalid = 1
    Traffic <- MCTraffic
INVARIANTS
    TypeOK
    AttenuationKnown
    CacheDescribesState
    DivergenceIsRecorded
    LockoutHoldsSafe
PROPERTIES
    PhaseMovesOnlyMuted
    CachedKeyNeverExecuted
    FreshAckMeansLatched
    OutputSpec
    NodeSpec
    CommandAnswered
    ComesUp
