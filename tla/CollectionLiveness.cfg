\* One request and two collections, at one moment, under fairness.
SPECIFICATION FairSpec
CONSTANTS
  w1 = w1
  r1 = r1
  Workloads = {w1}
  Answers <- One
  Requests = {r1}
  Selections <- EdgesOnly
  MaxId = 2
  MaxTime = 1
  Ttl = 0
PROPERTIES
  EverythingEnds
CHECK_DEADLOCK FALSE
