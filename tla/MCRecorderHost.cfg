SPECIFICATION BundleSpec
CONSTANTS
  Versions = {"older", "newer"}
  MaxClicks = 3
  MaxCopyClicks = 0
  MaxLaunches = 3
  MaxInstalls = 1
INVARIANTS
  NoOrphan
  HostMenuIsTrue
  RunsWhole
PROPERTIES
  HostComesBack
CHECK_DEADLOCK FALSE
