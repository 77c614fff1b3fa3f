SPECIFICATION KeptKeysSpec
SYMMETRY HandlerSymmetry
INVARIANTS HonouredSeldom OneRowPerId RetentionBounded ViewAgrees
PROPERTY IsMailbox
CONSTANTS
  Agents = {"alice", "bob"}
  Ids = {"e1"}
  Drafts <- Crossing
  Asks <- BobAll
  Nonces = {"n1"}
  Sinces <- Typed
  Drifts <- Ahead
  Handlers = {h1, h2}
  Subscribers = {"m1"}
  Skew = 1
  NonceWindow = 1
  CacheTtl = 5
  MaxTtl = 2
  EvictEvery = 1
  Stale = 0
  Latency = 1
  MaxKey = 1
  MaxTime = 2
