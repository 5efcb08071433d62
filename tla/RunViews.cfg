\* One run and one reader, on postgres; the cluster may be deleted.
SPECIFICATION ViewSpec
CONSTANTS
  q1 = q1
  q2 = q2
  c1 = c1
  Requests = {q1}
  NClusters = 1
  Workloads = {w1, w2, w3}
  ClusterOf <- OneCluster
  ByName = {}
  Scope <- AllWorkloads
  Resources = {"cpu"}
  Ranked <- OnCpu
  Dialect = "postgres"
  Deletable = {1}
  MayCrash = TRUE
  MayFault = FALSE
  Details = {"peers"}
  MaxGroups = 2
  MaxStamp = 1
  Clients = {c1}
  Views <- AllViews
SYMMETRY WorkloadSymmetry
INVARIANTS
  NothingReadIsDropped
  CompletedViewsAreWhole
  WhatWasShownStays
CHECK_DEADLOCK FALSE
