SPECIFICATION Spec
CONSTANTS
  g = g
  a = a
  b = b
  c = c
  d = d
  e = e
  k = k
  n = n
  m = m
  None = None
  Global = g
  Scope = {g, a, b, c, d, n}
  Event = {}
  Body <- WideBody
  OnEvents <- NoEvents
  Flow = {a}
  FaultHandlers = {g, c}
  CompensationHandlers = {c, d, n}
  TerminationHandlers = {}
  HandlerActivity <- GlobalCompensates
CHECK_DEADLOCK FALSE
INVARIANTS
  NothingRunsInEndedScopes
PROPERTIES
  ReverseOrder
