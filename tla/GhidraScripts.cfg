SPECIFICATION Spec
CONSTANTS
  NoValue = NoValue
  Listings <- MCListings
  Sessions <- MCSessions
  Offsets <- MCOffsets
  Word <- MCWord
INVARIANTS
  TypeOK
  SearchedOffsetsFound
  PartialScanIsPrefix
  ValuesComeFromStores
  ReplayFaithful
CHECK_DEADLOCK FALSE
