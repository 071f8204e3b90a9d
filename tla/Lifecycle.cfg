SPECIFICATION Spec
CONSTANTS
  PerPage = 4
  Cards = 2
  BufferBytes = {1, 97, 192}
  SegmentSizes = {0, 2, 3, 4}
  Rates = {44100, 48000, 96000}
  MaxLate = 2
INVARIANTS
  TypeOK
  HandlerFindsAll
  MemoryOutlivesDma
  NothingLeaks
  TablesReachBuffer
  RateIsKnown
  RulesMatchProfiles
PROPERTIES CallsEnd RateMovesWithoutTables
CHECK_DEADLOCK FALSE
