SPECIFICATION Spec
CONSTANTS
  None = None
  Ids = {"e1", "e2"}
  Readable = {"e1", "e2"}
  Timers = {"t1", "t2"}
  Match <- OneEach
  Recurring = FALSE
  Phases = 7
  Cap = 3
  MaxArrivals = 2
  MaxQueue = 2
PROPERTY PlayedInFull
CHECK_DEADLOCK FALSE
