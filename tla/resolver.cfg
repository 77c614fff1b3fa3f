SPECIFICATION ResolveSpec
SYMMETRY LookupSymmetry
CONSTANTS
  Refs = {"alice"}
  Docs = {d1, d2}
  None = None
  Names = {"upper", "lower"}
  Foreign = {}
  RefOf <- OneAgent
  RegistryAge = 1
  Sure = FALSE
  Ttl = 2
  Handlers = {h1, h2}
  MaxPublish = 2
  MaxTime = 4
  alice = alice
  bob = bob
  SiiRefs = {alice, bob}
  SiiDocs <- Papers
  NoSii = NoSii
  Hosts = {https}
  Lag = 1
  CallTime = 1
  Calls = {l1, l2}
  MaxChange = 2
  SiiTime = 3
  JsonRefs = {"alice", "bob"}
  JsonDocs = {"old", "new"}
  NoDoc = "no document"
  Broken = Broken
  Files <- Contents
  Edits <- WithBroken
  ReloadEvery = 1
  ReadTime = 1
  Reloads = {r1, r2}
  MaxEdits = 2
  JsonTime = 5
INVARIANTS FetchedAtHonest PointedAndHosted WholeContents StaleOnlyWhileBroken
PROPERTY IsDirectory
CHECK_DEADLOCK FALSE
