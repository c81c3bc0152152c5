SPECIFICATION Spec
CONSTANTS
  Registry <- MCRegistry
  Specialists <- MCSpecialists
  Generalist = "turbo"
  Requests <- MCRequests
  Folding = {"turbo"}
  Constrained = {"turbo", "nb"}
  Polls = {p1}
  OldDisks <- MCOldDisks
  MaxVersion = 2
  MaxRuns = 1
  MaxPins = 1
INVARIANTS
  EntriesAreWhole
  RunAnswersItsRequest
  ListingsTellTheTruth
CHECK_DEADLOCK FALSE
