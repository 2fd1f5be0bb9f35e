SPECIFICATION FairSpec
CONSTANTS
  Callers = {console}
  V1Casters <- MCFirst
  V2Casters <- MCSecond
  MaxSets = 2
  FailsCap = 5
PROPERTIES V2CasterReached
