SPECIFICATION FairSpec
CONSTANTS
  home = home
  field = field
  guest = guest
  Nets <- MCNets
  Size <- MCSize
  FormSize <- MCFormSize
  Typed <- MCTyped
  FaultSets <- MCFaultSets
  ReachSets <- MCReachSets
  MaxCommands = 2
  MaxCuts = 1
  MaxFlaps = 1
INVARIANTS TypeOK NeverStranded StoredWhole
PROPERTIES CoreComesUp StatusCatchesUp SavedIsJoined
CHECK_DEADLOCK FALSE
