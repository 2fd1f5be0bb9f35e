SPECIFICATION TSpec
CONSTANTS
  TOUCH_WIN = 5
  TOUCH_MIN = 2
  HistBits = 8
  BL_IDLE_OFF = 2
  TickPolls = 2
  TickMax = 3
  Word = 5
  MaxTime = 11
INVARIANTS ActivityIsTouch
PROPERTIES DarkOnce
CHECK_DEADLOCK FALSE
