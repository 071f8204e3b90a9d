SPECIFICATION FairSpec
CONSTANTS
  Playback = Playback
  Capture = Capture
  None = None
  Geometries <- OneGeometry
  Overlapping <- AnyTime
  Faults = {}
  ParamStates = {"open"}
INVARIANTS
  TypeOK
  Bookkeeping
  NoOrphanEngine
  PreparedMeansProgrammed
PROPERTIES
  CallbacksReturn
