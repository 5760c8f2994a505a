SPECIFICATION Spec
CONSTANTS
    Period = 3
    BitsPerByte = 3
    Lengths <- MCLengths
    MaxRate = TRUE
    OamSize = 2
    PadIndices <- MCPadIndices
    MaxWrites = 3
    MaxShift = 4
    Ntsc = TRUE
    FceuxCompat = FALSE
INVARIANTS
    TypeOK
    ReaderAndBusAgree
    BufferFreeForFetch
    TransfersStartWithHalt
    StallsAsOnTheChip
PROPERTIES
    OamCopiedBeforeRead
