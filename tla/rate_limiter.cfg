\* Two keys and two requests over nearly two windows, so that a third bucket begins.
SPECIFICATION Spec
CONSTANTS
    k1 = k1  k2 = k2
    r1 = r1  r2 = r2
    Key <- TwoKeys
    Requests <- TwoRequests
    Limit = 2
    Window = 3
    MaxStall = 1
    MaxTime = 5
SYMMETRY Symmetric
INVARIANTS
    AtMostTwoWindows
PROPERTIES
    RefusedWhenUsedUp
    RetryAfterIsNear
    BucketsAreRecent
