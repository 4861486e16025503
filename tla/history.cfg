SPECIFICATION FairSpec
CONSTANTS
  Node = {n1, n2}
  SampleRows = 1
  Process = {w1, w2}
  BatchSize = 2
  MaxBatches = 2
  MaxRows = 2
  MaxId = 6
  MaxFailures = 1
  None = None
PROPERTIES
  DeletesWhatItMust
  EventuallyTidy
CHECK_DEADLOCK FALSE
