SPECIFICATION Spec
CONSTANTS
  Playback = Playback
  Capture = Capture
  None = None
  Geometries <- OneGeometry
  Overlapping = {"stop"}
  Faults = {}
  ParamStates = {"open"}
INVARIANT StartedStreamsRun
