SPECIFICATION FairSpec
CONSTANTS
  Callers = {console, httpd}
  V1Casters <- MCBoth
  V2Casters <- MCSecond
  MaxSets = 2
  FailsCap = 5
INVARIANTS BackoffSchedule StatusHonest
PROPERTIES SettledStreams DropHonoured ForgottenIdles
