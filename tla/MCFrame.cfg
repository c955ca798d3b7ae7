CONSTANTS
    Base = 2
    PrefixDigits = 2
    Bodies <- MCBodies
    Limits <- MCLimits
    Capacity = 3
    FrameMax = 2
SPECIFICATION FrameFairSpec
CHECK_DEADLOCK FALSE
INVARIANT BodiesInOrder
PROPERTIES EveryBodyArrives
