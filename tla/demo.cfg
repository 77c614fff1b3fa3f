SPECIFICATION ShowSpec
CONSTANTS
  None = None
  Ids = {"e1", "e2"}
  Readable = {"e1", "e2"}
  Timers = {"t1", "t2"}
  Match <- AnyEnvelope
  Recurring = TRUE
  Phases = 3
  Cap = 2
  MaxArrivals = 3
  MaxQueue = 2
  Events = {"received", "acked"}
  Connections = {"c1", "c2"}
  Tokens = {"configured", "other"}
  EventsToken = "configured"
  MaxBeats = 1
  Scenarios <- FirstThree
  Modes = {"hermetic", "on-chain", "against-prod"}
  Keyed = {"alice", "bob"}
  Unit = 4000
  Faults = 1
  MaxTime = 8
  Slots = 3
  MaxDraws = 3
  MaxCuts = 2
INVARIANTS Serialized StatusAgrees HeardInOrder InOrder RevealsOwn KeysNotNewer
PROPERTIES QueuedFires Ends KeptUntilDone
CHECK_DEADLOCK FALSE
