CONSTANTS
  Procs = {p, q}
  Requests = {r}
  Versions = {1}
  Configs <- PlainConfigs
  Nothing = Nothing
  MaxRuns = 2
SPECIFICATION Spec
INVARIANT ReuseIsComplete
