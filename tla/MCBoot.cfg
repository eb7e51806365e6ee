\* Two images of the firmware; the streak saturates just above the threshold.
SPECIFICATION Spec
CONSTANTS
    Builds = {b1, b2}
    NoBuild = none
    Threshold = 3
    MaxStreak = 4
INVARIANTS
    TypeOK
    LockoutExact
    ClockAsReported
PROPERTIES
    FaultHandedOver
