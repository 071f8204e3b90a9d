SPECIFICATION Spec
CONSTANTS
  NoValue = NoValue
  Listings <- ControlListings
  Sessions <- StreamSessions
  Offsets <- MCOffsets
  Word <- MCWord
INVARIANTS
  LastWritesKept
CHECK_DEADLOCK FALSE
