\* Two requests on one cluster, the second by name; the cluster may be deleted
\* and made again, the engine may die.
SPECIFICATION Spec
CONSTANTS
  q1 = q1
  q2 = q2
  Requests = {q1, q2}
  NClusters = 1
  Workloads = {w1, w2}
  ClusterOf <- OneCluster
  ByName = {q2}
  Scope <- AllWorkloads
  Resources = {"cpu", "memory"}
  Ranked <- OnCpu
  Dialect = "postgres"
  Deletable = {1}
  MayCrash = TRUE
  MayFault = TRUE
  Details = {}
  MaxGroups = 2
  MaxStamp = 1
SYMMETRY WorkloadSymmetry
INVARIANTS
  TypeOK
  CompletedIsComplete
  ReadersSeeAPrefix
  NoOrphanRun
  ReplyMatchesStore
  
  CascadeIsComplete
PROPERTIES
  ImplementsRunResults
CHECK_DEADLOCK FALSE
