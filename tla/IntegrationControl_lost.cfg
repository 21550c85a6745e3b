SPECIFICATION Spec
CONSTANTS
  a = a
  c = c
  Action = {a, c}
  Waits <- LoopWaits
  TwoWay = {a}
  Replies <- LoopReplies
  MaxSent <- Sent
  Troubles <- OneConflict
  None = None
PROPERTIES
  ReceivesBlock
CHECK_DEADLOCK FALSE
