SPECIFICATION ReadingSpec
CONSTANTS
    Records = {1, 2, 3}
    Domains = {1, 2}
    Limits <- EdgeLimits
    MaxClock = 2
    MaxTouches = 2
INVARIANTS WalkIsComplete WalkGoesForward RoundRobinIsFair
CHECK_DEADLOCK FALSE
