SPECIFICATION FairSpec
PROPERTY AtLeastOnce
CONSTANTS
  r1 = r1
  r2 = r2
  Relays = {r1, r2}
  None = None
  Ids = {"e1", "e2"}
  Lists <- Both
  Own <- OwnBoth
  Watch = TRUE
  Ttl = 2
  Faults = 0
  MaxTime = 1
