SPECIFICATION Spec
CONSTANTS
  Gates <- MCOneGate
  Chunk = 3
  Overlap = 1
  RefreshEvery = 1
  Engines = {"moonshine"}
  MaxFrames = 7
  Unsteady = TRUE
  MaxLines = 1
  MaxWords = 1
  Keys = {0}
  StableSnapshots = 3
INVARIANT NoWordDropped
CHECK_DEADLOCK FALSE
