SPECIFICATION BundleSpec
CONSTANTS
  Versions = {"older", "newer"}
  MaxClicks = 0
  MaxCopyClicks = 2
  MaxLaunches = 1
  MaxInstalls = 2
INVARIANTS
  LossIsTold
CHECK_DEADLOCK FALSE
