CONSTANTS
  MaxFrames = 5
  Cap = 3
  MaxBreaks = 2
  NoFrame = NoFrame
  MaxStreams = 3
  MaxFlips = 3
  MaxClicks = 4
  MaxLaunches = 2
  MaxBlips = 2
  MaxShown = 1
SPECIFICATION BridgeSpec
INVARIANTS
  FramesArriveOnce
  NoLateStream
  StreamFollowsGate
  DevicesAreReleased
  MenuTellsMode
  MeetingRunsOnce
PROPERTIES
  EverythingEnds
CHECK_DEADLOCK FALSE
