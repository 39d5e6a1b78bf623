SPECIFICATION MCSpec
CONSTANTS
  Texts <- MCTexts
  MoreText <- MCMoreText
  StackRoom = 4
INVARIANT ReprintRestores
CHECK_DEADLOCK FALSE
