\* Groups of one to four, under two configurations.
SPECIFICATION Spec
CONSTANTS
  Uids = {1, 2, 3, 4}
  Values = {0, 1}
  Configs <- AnyConfig
INVARIANTS
  TypeOK
  AdviceIsConsistent
  DominanceIsRewarded
  SlicesAreFair
  ConfidenceIsEarned
PROPERTIES
  RaisingHelps
