CONSTANTS
    MaxTotal = 2
    MaxMerges = 3
SPECIFICATION Spec
INVARIANT
    RateBetweenParts
CHECK_DEADLOCK FALSE
