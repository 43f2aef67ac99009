\* README.md on the limits, with two downloads per source allowed.
SPECIFICATION Spec
CONSTANTS
  Tasks = {1, 2}
  Sources <- MCSources
  SourceOf <- MCOddHub
  Http <- MCHttp
  ModelScope <- MCModelScope
  Runs = {r1, r2, r3}
  MaxActive = 2
  MaxPerSource = 2
  MaxOps = 4
  MaxCrashes = 0
SYMMETRY RunSymmetry
INVARIANTS
  GlobalBound
\* The system stops when the bounds on calls and crashes are used up.
CHECK_DEADLOCK FALSE
