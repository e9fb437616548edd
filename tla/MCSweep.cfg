CONSTANTS
  Counts = {0, 1, 2, 3}
  Requests = {0, 1, 2, 4}
SPECIFICATION Spec
INVARIANTS
  EachJobRunsOnce
  EveryJobReports
  TableIsManifest
PROPERTY SweepEnds
