\* A ring of one point and a channel of one capture: points are dropped when the
\* channel is full, trimmed, invalidated twice, and outlive a power cycle.
SPECIFICATION FairSpec
CONSTANTS
    Interval = 1
    RingSize = 1
    Depth = 1
    a = a
    b = b
    Inputs <- MCInputs
    StepsWhileHeld = FALSE
    MaxPast = 3
    MaxGeneration = 2
INVARIANT RingIsPast
PROPERTIES RewindGoesBack CapturesArrive
