CONSTANTS
  Procs = {p}
  Requests = {r, s}
  Versions = {v, w}
  Configs <- SomeConfigs
  Nothing = Nothing
  MaxRuns = 3
SYMMETRY Symmetry
SPECIFICATION Spec
INVARIANTS
  PublishedIsWhole
  ReuseIsComplete
  ServedIsOurs
