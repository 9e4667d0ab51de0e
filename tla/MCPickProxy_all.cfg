CONSTANTS
  MaxMembers = 4
  Settings <- SomeSettings
  Unit = 2
  Rounding = 1
  Lowest <- FarBelow
  NaN = NaN
SPECIFICATION PickSpec
INVARIANT PickedByWeight
INVARIANT PickedWithinCapacity
CHECK_DEADLOCK FALSE
