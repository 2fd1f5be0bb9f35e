SPECIFICATION FairSpec
CONSTANTS
  Supplies <- MCSupplies
  ManualLevels <- MCLevels
  TouchPresent = TRUE
  HealthyCap = 22
  MaxUnplugs = 1
INVARIANTS TypeOK WithinCeiling InSync FloorWhenStale
PROPERTIES LearnsFromFailure Converges ReachesGoal
