CONSTANTS
  n1 = n1  a1 = a1  t1 = t1  r1 = r1
  k1 = k1  k2 = k2  p1 = p1  p2 = p2  e1 = e1  e2 = e2
  None = None
  Job = {n1, a1}
  Token = {k1}
  ProcessInstance = {p1}
  Executor = {e1, e2}
  Exclusive = {n1, a1}
  Kind <- MCKind
  TokenOf <- MCTokenOf
  NodeOf <- MCNodeOf
  InstanceOf <- MCInstanceOf
  DueIn <- MCDueIn
  Repeat = 1
  NbrOfThreads = 1
  GroupName <- MCGroupName
  Joins = FALSE
  LastNode = 1
  MaxLockTime = 1
  MaxTime = 0
  MaxStarts = 2
  MaxDeaths = 1
  MaxAdmin = 1
SPECIFICATION Spec
SYMMETRY MCSymmetry
INVARIANTS LockDiscipline MutualExclusion
PROPERTIES AtMostOnce
CHECK_DEADLOCK FALSE
