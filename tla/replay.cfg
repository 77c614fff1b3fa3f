SPECIFICATION KeptKeysSpec
INVARIANT HonouredOnce
CONSTANTS
  Agents = {"alice", "bob"}
  Ids = {"e1"}
  Drafts <- Crossing
  Asks <- BobAll
  Nonces = {"n1"}
  Sinces = {0}
  Drifts <- Both
  Handlers = {h1}
  Subscribers = {"m1"}
  Skew = 1
  NonceWindow = 1
  CacheTtl = 5
  MaxTtl = 2
  EvictEvery = 1
  Stale = 0
  Latency = 0
  MaxKey = 1
  MaxTime = 2
