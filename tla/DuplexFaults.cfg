SPECIFICATION Spec
CONSTANTS
  Playback = Playback
  Capture = Capture
  None = None
  Geometries <- ThreeGeometries
  Overlapping = {}
  Faults = {"stop", "fetch", "nomem", "nobuf", "tci"}
  ParamStates = {"open", "setup", "prepared"}
INVARIANTS
  FlagsMatchDevice
  DmaThroughLiveTables
  QuietRebuild
  StoppedStreamsRest
PROPERTIES
  RateChangesAtRest
  ImplementsStreams
