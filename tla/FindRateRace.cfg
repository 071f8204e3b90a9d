SPECIFICATION Spec
CONSTANTS
  Playback = Playback
  Capture = Capture
  None = None
  Geometries <- ThreeGeometries
  Overlapping = {"stop"}
  Faults = {}
  ParamStates = {"open"}
PROPERTY RateChangesAtRest
