SPECIFICATION FairSpec
CONSTANTS
  Frames <- MCFrames
  Responses = {"switches", "refuses", "endless"}
  MaxSent = 3
  MaxTexts = 1
  MaxFrame = 2
  MaxMessage = 3
  MaxControl = 1
  Short = 1
  Chunk = 2
  CompactAt = 2
  MaxUpgrade = 2
INVARIANTS MessagesAreSound ControlAnswered
PROPERTIES StaysRefused RecvReturns
CHECK_DEADLOCK FALSE
