SPECIFICATION Spec
CONSTANTS
  s1 = s1
  s2 = s2
  s3 = s3
  Sats <- MCSats
  NMEA_MAX_SATS = 2
  LineMax = 3
  MaxReports = 3
  BAR_ROW_W = 18
INVARIANTS TypeOK LineIsSentence BarsFit
PROPERTIES TableTracksSky
