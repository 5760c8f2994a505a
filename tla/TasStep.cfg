\* Two rows, a checkpoint at every frame or at every second one.
SPECIFICATION Spec
CONSTANTS
    r0 = r0
    r1 = r1
    Inputs <- MCInputs
    Clips <- MCClips
    Blank = r0
    Intervals <- MCIntervals
    StaleHash = StaleHash
    Event = Event
    Wrap = 2
    MaxRows = 2
    MaxAge = 2
    MarkFrames = {1}
    MaxDrifts = 1
PROPERTIES KeepsAgreement Recovers RowsAreKept
CHECK_DEADLOCK FALSE
