\* Two jobs that collect the same edge.
SPECIFICATION Spec
CONSTANTS
  w1 = w1
  r1 = r1
  Workloads = {w1}
  Answers <- OneOrNothing
  Requests = {r1}
  Selections <- EdgesOnly
  MaxId = 2
  MaxTime = 2
  Ttl = 0
INVARIANTS
  EdgesCountOnce
CHECK_DEADLOCK FALSE
