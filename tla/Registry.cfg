\* Three requests, on either database, with the engine in a cluster or not.
SPECIFICATION Spec
CONSTANTS
  Requests = {q1, q2, q3}
  Seed = seed
  Names = {m, n}
  Configs <- SomeConfigs
  Dialects <- Both
  Mixes <- SameRows
SYMMETRY RequestSymmetry
INVARIANTS
  TypeOK
  OneWinnerPerName
  SourcesFollowTheirCluster
  OutcomesWereProbed
PROPERTIES
  UpdatesKeepEachOther
CHECK_DEADLOCK FALSE
