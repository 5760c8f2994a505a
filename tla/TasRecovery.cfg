\* A poked console against a movie with hashes.
SPECIFICATION Spec
CONSTANTS
    r0 = r0
    r1 = r1
    Inputs <- MCInputs
    Clips <- MCClips
    Blank = r0
    Intervals <- MCFirst
    StaleHash = StaleHash
    Event = Event
    Wrap = 1
    MaxRows = 2
    MaxAge = 3
    MarkFrames = {}
    MaxDrifts = 1
PROPERTY NoSilentDivergence
CHECK_DEADLOCK FALSE
