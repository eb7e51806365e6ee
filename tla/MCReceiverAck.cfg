\* Is every ACK, replayed ones included, true of the outputs?
SPECIFICATION Spec
CONSTANTS
    Seqs = {1, 2}
    Byte = {0, 1}
    MaxAttenuation = 1
    OperationalPhase = 1
    MaxInvalid = 1
    Traffic <- MCTraffic
INVARIANT
    AckMeansLatched
