\* sqlite hands the id of a deleted run to the next one.
SPECIFICATION Spec
CONSTANTS
  q1 = q1
  q2 = q2
  Requests = {q1, q2}
  NClusters = 2
  Workloads = {w1, w2}
  ClusterOf <- TwoClusters
  ByName = {}
  Scope <- AllWorkloads
  Resources = {"cpu"}
  Ranked <- OnCpu
  Dialect = "sqlite"
  Deletable = {1}
  MayCrash = FALSE
  MayFault = FALSE
  Details = {}
  MaxGroups = 2
  MaxStamp = 2
SYMMETRY WorkloadSymmetry
INVARIANTS
  CascadeIsComplete
CHECK_DEADLOCK FALSE
