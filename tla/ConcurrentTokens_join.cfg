SPECIFICATION Spec
CONSTANTS
  p1 = p1
  p2 = p2
  p3 = p3
  Path = {p1, p2, p3}
  Parent = Parent
  None = None
  Kinds = {"join", "tasks", "flow", "end"}
  NOutOfM = 2
  MaxFailures = 1
CHECK_DEADLOCK FALSE
INVARIANTS
  TypeOK
  DecisionIsCurrent
PROPERTIES
  ArrivalsAreAtomic
  EveryPathCompletes
