SPECIFICATION FairSpec
CONSTANTS
  Callers <- MCCallers
  RxBytes = 2
  ReplyMax = 2
INVARIANTS TypeOK CaptureQuiet ReplyIsRecent
PROPERTIES CallsReturn
