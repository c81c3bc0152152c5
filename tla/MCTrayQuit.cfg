SPECIFICATION RSpec
CONSTANTS
  MaxClicks = 3
  MaxLaunches = 2
  MaxBlips = 2
  MaxShown = 1
INVARIANTS
  QuitIsResumed
CHECK_DEADLOCK FALSE
