SPECIFICATION Spec
CONSTANTS
  Playback = Playback
  Capture = Capture
  None = None
  Geometries <- ThreeGeometries
  Overlapping = {"hw_params"}
  Faults = {}
  ParamStates = {"open"}
INVARIANT DuplexGeometriesMatch
