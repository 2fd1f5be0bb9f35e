SPECIFICATION FairSpec
CONSTANTS
  RtcmItf = 2
  CmdItfs <- MCCmdItfs
  ChatterItfs <- MCChatterItfs
  ShortDwell = 1
  LongDwell = 2
  MaxPlugs = 1
  MaxPend = 1
PROPERTIES SweepFindsStream
