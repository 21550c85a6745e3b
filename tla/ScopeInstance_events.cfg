SPECIFICATION Spec
CONSTANTS
  g = g
  a = a
  b = b
  c = c
  d = d
  e = e
  k = k
  n = n
  m = m
  None = None
  Global = g
  Scope = {g, a, n, m, k}
  Event = {e}
  Body <- EventBody
  OnEvents <- EventsOfGlobal
  Flow = {}
  FaultHandlers = {g}
  CompensationHandlers = {a, m, k}
  TerminationHandlers = {n}
  HandlerActivity <- EventHandlers
CHECK_DEADLOCK FALSE
INVARIANTS
  NothingRunsInEndedScopes
  ReceptionsHaveTokens
