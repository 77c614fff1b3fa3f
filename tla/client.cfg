SPECIFICATION FairSpec
INVARIANTS SentIsHeld OncePerCall CallIsComplete AckClears
CONSTANTS
  r1 = r1
  r2 = r2
  Relays = {r1, r2}
  None = None
  Ids = {"e1"}
  Lists <- BothOrOne
  Own <- NoOwn
  Watch = TRUE
  Ttl = 2
  Faults = 2
  MaxTime = 2
PROPERTY NothingWaits
