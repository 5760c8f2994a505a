SPECIFICATION FairSpec
CONSTANTS
    Period = 2
    BitsPerByte = 3
    Lengths <- MCLengths
    MaxRate = TRUE
    OamSize = 2
    PadIndices = {}
    MaxWrites = 2
    MaxShift = 1
    Ntsc = FALSE
    FceuxCompat = TRUE
PROPERTIES
    TransfersEnd
    ReaderFed
