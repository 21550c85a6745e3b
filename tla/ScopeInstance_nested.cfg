SPECIFICATION FairSpec
CONSTANTS
  g = g
  a = a
  b = b
  c = c
  d = d
  e = e
  k = k
  n = n
  m = m
  None = None
  Global = g
  Scope = {g, a, b, c, d}
  Event = {}
  Body <- NestedBody
  OnEvents <- NoEvents
  Flow = {}
  FaultHandlers = {g, b}
  CompensationHandlers = {b, c, d}
  TerminationHandlers = {}
  HandlerActivity <- GlobalCompensates
CHECK_DEADLOCK FALSE
INVARIANTS
  TypeOK
  NoTransactionFails
PROPERTIES
  ReverseOrder
  FaultedScopesFinish
