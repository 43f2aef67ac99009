\* One task under a limit of two downloads per source: two runs of it can overlap.
SPECIFICATION Spec
CONSTANTS
  Tasks = {1}
  Sources <- MCSources
  SourceOf <- MCAllHub
  Http <- MCHttp
  ModelScope <- MCModelScope
  Runs = {r1, r2, r3}
  MaxActive = 3
  MaxPerSource = 2
  MaxOps = 4
  MaxCrashes = 1
SYMMETRY RunSymmetry
INVARIANTS
  PerSourceBound
\* The system stops when the bounds on calls and crashes are used up.
CHECK_DEADLOCK FALSE
