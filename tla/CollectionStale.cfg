\* A request whose collection fails in part, after the samples went stale.
SPECIFICATION Spec
CONSTANTS
  w1 = w1
  r1 = r1
  Workloads = {w1}
  Answers <- One
  Requests = {r1}
  Selections <- OneStep
  MaxId = 2
  MaxTime = 3
  Ttl = 1
PROPERTIES
  SurfacesStale
CHECK_DEADLOCK FALSE
