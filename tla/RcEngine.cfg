SPECIFICATION Spec
CONSTANTS
  ByteBits = 2
  Texts <- MCTexts
  Memories <- MCMemories
  MaxFrames = 3
  MaxErrors = 2
  MaxAddress = 1
PROPERTIES Refines ToldIsSo VerdictsHold
CHECK_DEADLOCK FALSE
