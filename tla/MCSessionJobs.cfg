SPECIFICATION Spec
CONSTANTS
  Jobs = {j1, j2, j3}
  Originals = {o1}
  Regions = {r1, r2}
  None = None
  MaxRestarts = 1
INVARIANTS
  RecordsTellTheTruth
PROPERTIES
  DoneMeansSummarized
  ReattributionKeepsWords
  PipelineEnds
