SPECIFICATION MCSpec
CONSTANTS
  Texts <- MCTexts
  MoreText <- MCMoreText
  StackRoom = 4
INVARIANTS
  TypeOK
  ParsesGrammar
  ExpectedTokensFit
  ReprintParsesAgain
CHECK_DEADLOCK FALSE
