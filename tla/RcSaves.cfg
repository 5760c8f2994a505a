SPECIFICATION Spec
CONSTANTS
  ByteBits = 2
  Games <- MCGames
  Memories <- MCMemories
  Lost = {1}
  MaxFrames = 4
  MaxOther = 1
PROPERTIES LoadRestores LoadStartsOver EventsTellState
CHECK_DEADLOCK FALSE
