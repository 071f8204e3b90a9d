SPECIFICATION Spec
CONSTANTS
  Playback = Playback
  Capture = Capture
  None = None
  Geometries <- OneGeometry
  Overlapping = {}
  Faults = {"nomem"}
  ParamStates = {"open"}
INVARIANT StartedStreamsRun
