SPECIFICATION Spec
CONSTANTS
  g = g
  a = a
  b = b
  c = c
  d = d
  e = e
  k = k
  n = n
  m = m
  None = None
  Global = g
  Scope = {g, a, b, c}
  Event = {}
  Body <- FlowBody
  OnEvents <- NoEvents
  Flow = {a}
  FaultHandlers = {}
  CompensationHandlers = {}
  TerminationHandlers = {}
  HandlerActivity <- GlobalCompensates
CHECK_DEADLOCK FALSE
INVARIANTS
  FaultTerminatesChildren
