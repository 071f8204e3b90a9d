SPECIFICATION FairSpec
CONSTANTS
  Slots = 3
  TidSpace = 4
  Codes = {"get", "set"}
  MaxPending = 1
INVARIANTS
  TypeOK
  RequestsKept
  OwnAnswer
  SlotsOutliveDma
PROPERTY OperationsEnd
