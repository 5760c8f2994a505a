\* A ring of six frames, two of them needed to start.
SPECIFICATION FairSpec
CONSTANTS
    Capacity = 6
    Target = 2
    FadeFrames = 3
    Pushes <- MCPushes
    Periods <- MCPeriods
INVARIANTS RingIsShared SoundStartsClean
PROPERTY SoundReturns
