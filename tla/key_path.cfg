SPECIFICATION PathSpec
SYMMETRY HandlerSymmetry
VIEW PathView
INVARIANT KeysFresh
PROPERTY IsRelay
CONSTANTS
  Agents = {"alice"}
  Ids = {"e1"}
  Drafts <- OneDraft
  Asks <- NoAsks
  Sinces = {0}
  Nonces = {}
  Drifts <- Synchronised
  Handlers = {h1, h2}
  Subscribers = {}
  Skew = 1
  NonceWindow = 1
  CacheTtl = 1
  MaxTtl = 2
  EvictEvery = 8
  Stale = 2
  ResolverTtl = 1
  RegistryAge = 1
  None = None
  Latency = 1
  MaxKey = 2
  MaxTime = 6
