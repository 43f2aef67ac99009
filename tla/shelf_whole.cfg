\* What tasks.py says of a saved provider result, with a failure after publication.
SPECIFICATION Spec
CONSTANTS
  Tasks = {1}
  Sources <- MCSources
  SourceOf <- MCAllHub
  Http <- MCHttp
  ModelScope <- MCModelScope
  Runs = {r1, r2, r3}
  MaxActive = 1
  MaxPerSource = 1
  MaxOps = 3
  MaxCrashes = 0
SYMMETRY RunSymmetry
INVARIANTS
  ShelfIsWhole
\* The system stops when the bounds on calls and crashes are used up.
CHECK_DEADLOCK FALSE
