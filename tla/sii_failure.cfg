SPECIFICATION SiiSpec
CONSTANTS
  SiiRefs = {alice, bob}
  SiiDocs <- Papers
  NoSii = NoSii
  alice = alice
  bob = bob
  Hosts = {https}
  Lag = 1
  CallTime = 1
  Calls = {l1, l2}
  MaxChange = 2
  SiiTime = 4
INVARIANT NotFoundIsUnminted
