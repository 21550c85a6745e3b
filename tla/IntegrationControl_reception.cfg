SPECIFICATION Spec
CONSTANTS
  a = a
  c = c
  Action = {a, c}
  Waits <- LoopWaits
  TwoWay = {a}
  Replies <- LoopReplies
  MaxSent <- Sent
  Troubles <- ConflictOrFailureAndCrash
  None = None
INVARIANTS
  TypeOK
  WaitingTokenIsReachable
  RequestsMoveOnce
PROPERTIES
  MovesInOrder
  RepliesToAccepted
  RequestsAreServed
CHECK_DEADLOCK FALSE
