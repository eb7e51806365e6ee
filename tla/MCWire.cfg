\* A frame ends in the devices, in a refusal or in the filter.
SPECIFICATION Spec
CONSTANTS
    Self = 5
    Sent <- MCSent
    Angles <- MCAngles
INVARIANTS
    FramesReachTheirNode
    DevicesAsAsked
    NearestPhase
CHECK_DEADLOCK FALSE
