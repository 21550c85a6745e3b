CONSTANTS
  n1 = n1  a1 = a1  t1 = t1  r1 = r1
  k1 = k1  k2 = k2  p1 = p1  p2 = p2  e1 = e1  e2 = e2
  None = None
  Job = {n1, t1}
  Token = {k1}
  ProcessInstance = {p1}
  Executor = {e1, e2}
  Exclusive = {}
  Kind <- MCKind
  TokenOf <- MCTokenOf
  NodeOf <- MCNodeOf
  InstanceOf <- MCInstanceOf
  DueIn <- MCDueIn
  Repeat = 1
  NbrOfThreads = 1
  GroupName <- MCGroupName
  Joins = TRUE
  LastNode = 3
  MaxLockTime = 1
  MaxTime = 2
  MaxStarts = 2
  MaxDeaths = 0
  MaxAdmin = 1
SPECIFICATION Spec
INVARIANTS SuspendedJobsAreHidden
CHECK_DEADLOCK FALSE
