SPECIFICATION Spec
CONSTANTS
  p1 = p1
  p2 = p2
  p3 = p3
  Path = {p1, p2, p3}
  Parent = Parent
  None = None
  Kinds = {"links"}
  NOutOfM = 2
  MaxFailures = 1
CHECK_DEADLOCK FALSE
PROPERTIES
  ArrivalsAreAtomic
