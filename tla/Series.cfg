\* Eight hours of samples, in whatever order they are collected.
SPECIFICATION Spec
CONSTANTS
  Instants <- SomeInstants
  PerHour = 2
  Values = {0, 7}
  Amounts = {1, 2}
  Unit = 840
  Grain = 2
  Window = 10
  MaxPoints = 3
INVARIANTS
  TypeOK
  GapsStayWithinSamples
  HintsAreOrdered
PROPERTIES
  MoreIsMore
