\* Two runs and the collector compete for the one writer of sqlite.
SPECIFICATION FairSpec
CONSTANTS
  q1 = q1
  q2 = q2
  Requests = {q1, q2}
  NClusters = 1
  Workloads = {w1, w2}
  ClusterOf <- OneCluster
  ByName = {q2}
  Scope <- OneEach
  Resources = {"cpu", "memory"}
  Ranked <- OnCpu
  Dialect = "sqlite"
  Deletable = {1}
  MayCrash = FALSE
  MayFault = FALSE
  Details = {}
  MaxGroups = 1
  MaxStamp = 1
INVARIANTS
  LoadIsSnapshot
PROPERTIES
  EveryRequestAnswered
  EveryRunSettles
CHECK_DEADLOCK FALSE
