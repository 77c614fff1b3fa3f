SPECIFICATION ScutSpec
CONSTANTS
  Procs = {p1, p2}
  Hosts = {h1, h2}
  Priorities = {1, 2}
  Uses = {"send", "identity"}
  MaxRuns = 4
  Faults = 1
  Agents = {"alice", "bob"}
  Spellings = {"canonical", "mixed"}
  Known = {"canonical", "mixed"}
  Texts <- OddTexts
  Ttls = {"days", "zero", "half"}
  Rewrites = {"none", "ttl", "address", "field"}
  MaxPairs = 2
  MaxLetters = 1
SYMMETRY Symmetry
INVARIANTS OpensIffIntact OnePair ListKept KeysNotOlder
PROPERTIES UnforcedKeepsKeys Served
CHECK_DEADLOCK FALSE
