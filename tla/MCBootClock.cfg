\* One claim of the validation checklist about the clock-security interrupt.
SPECIFICATION Spec
CONSTANTS
    Builds = {b1, b2}
    NoBuild = none
    Threshold = 3
    MaxStreak = 4
PROPERTIES
    ClockFailureRecorded
