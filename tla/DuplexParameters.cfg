SPECIFICATION Spec
CONSTANTS
  Playback = Playback
  Capture = Capture
  None = None
  Geometries <- ThreeGeometries
  Overlapping = {}
  Faults = {"fetch", "nomem", "nobuf", "tci"}
  ParamStates = {"open"}
INVARIANTS
  ParamsMatchStreams
  GeometryAgreement
  DmaInLiveBuffers
