SPECIFICATION WireSpec
CONSTANTS
  Agents = {"alice", "bob"}
  Spellings = {"canonical", "mixed"}
  Known = {"canonical", "mixed"}
  Texts <- PlainTexts
  Ttls = {"days"}
  Rewrites = {"none"}
  MaxPairs = 1
  MaxLetters = 1
INVARIANT AddressedIsPickedUp
CHECK_DEADLOCK FALSE
