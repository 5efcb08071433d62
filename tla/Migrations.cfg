\* Two collectors and the engine, on a database that any release left.
SPECIFICATION FairSpec
CONSTANTS
  Collectors = {c1, c2}
  Engines = {e1}
  Dialects <- Both
  MaxFaults = 2
INVARIANTS
  TypeOK
  DoneMeansComplete
  RecordsTellTheSchema
PROPERTIES
  NoSampleLost
  CollectorsGetDone
CHECK_DEADLOCK FALSE
