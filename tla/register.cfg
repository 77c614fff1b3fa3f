SPECIFICATION Spec
INVARIANTS RowsDocumented CapBounded KeysWerePublished CustodyRecorded EveryTokenDocumented WalletsUntouched
PROPERTY GrantedOnce
CONSTANTS
  Service = Service
  User = User
  Accounts <- MCAccounts
  Contracts = {User}
  Uris <- MCUris
  Empty = Empty
  Nobody = Nobody
  Placeholder = Placeholder
  s1 = s1
  s2 = s2
  NoKey = NoKey
  Names = {"n1"}
  Anonymous = Anonymous
  NewOwners <- MCAccounts
  Keys = {s1, s2}
  Backends = {"b1"}
  Handlers = {h1, h2}
  MaxTokens = 3
  MaxDepth = 2
  PerDay = 1
  DayLength = 1
  MaxStops = 1
  MaxRequests = 3
  MaxTime = 1
SYMMETRY Symmetry
CHECK_DEADLOCK FALSE
