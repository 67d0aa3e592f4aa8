SPECIFICATION Spec
CONSTANTS
    c1 = c1
    c2 = c2
    c3 = c3
    Calls <- ThreeCalls
    MaxTime = 1
    Times <- Moments
    Overrides <- Doorways
    None = None
INVARIANT NewestTouchWins
INVARIANT ReplayAgrees
PROPERTY LogSpec
CHECK_DEADLOCK FALSE
