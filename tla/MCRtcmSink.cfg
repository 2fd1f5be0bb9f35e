SPECIFICATION FairSpec
CONSTANTS
  SinkBytes = 3
  CasterBytes = 3
  UpstreamBytes = 3
  UsbChunk = 2
  FeedMax = 2
  CasterMax = 2
  UpstreamMax = 2
  FrameLen = 2
  MaxBytes = 6
INVARIANTS FreshLink
PROPERTIES NothingStallsFeed ConsumersAreFifos
