SPECIFICATION Spec
CONSTANTS
  Byte <- MCByte
  Preamble = 2
  MaxPayload = 2
  PARSE_BUF_LEN = 8
  RTCM_MON_RAW_BYTES = 2
  RTCM_MON_SNAP_BYTES = 3
  RTCM_MON_MAX_TYPES = 1
  ChunkMax = 4
  MaxBytes = 10
INVARIANTS ChunksDoNotMatter HoldsOnlyUnfinished RawIsLatest LastFrameIsLatest TypesAddUp
CHECK_DEADLOCK FALSE
