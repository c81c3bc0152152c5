SPECIFICATION Spec
CONSTANTS
  Gates <- MCGates
  Chunk = 3
  Overlap = 2
  RefreshEvery = 1
  Engines = {"moonshine", "whisperlivekit"}
  MaxFrames = 6
  Unsteady = FALSE
  MaxLines = 2
  MaxWords = 2
  Keys = {0, 1}
  StableSnapshots = 2
INVARIANTS
  CaptionsAreWhole
PROPERTIES
  NothingRetracted
CHECK_DEADLOCK FALSE
