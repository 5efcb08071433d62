\* One request and two collections, its own or jobs of one step.
SPECIFICATION Spec
CONSTANTS
  w1 = w1
  r1 = r1
  Workloads = {w1}
  Answers <- OneOrNothing
  Requests = {r1}
  Selections <- OneStep
  MaxId = 2
  MaxTime = 2
  Ttl = 0
INVARIANTS
  TypeOK
  SuccessIsComplete
  SamplesHaveIdentity
  FreshAfterOwnCollection
PROPERTIES
  JobsNeverAgeTheData
CHECK_DEADLOCK FALSE
