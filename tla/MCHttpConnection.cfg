SPECIFICATION Spec
CONSTANTS
  MaxPieces = 2
  SizeMod = 32
  Messages <- MCMessages
INVARIANTS
  PiecesDoNotMatter
  AnswersOneCompleteRequest
  TwoWaysToEnd
PROPERTY CompleteIsServed
CHECK_DEADLOCK FALSE
