SPECIFICATION FairSpec
CONSTANTS
  Playback = Playback
  Capture = Capture
  None = None
  Geometries <- ThreeGeometries
  Overlapping = {}
  Faults = {}
  ParamStates = {"open", "setup", "prepared"}
INVARIANT StartedStreamsRun
PROPERTIES
  PeriodsElapse
  ImplementsStreams
