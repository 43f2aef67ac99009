\* One generic HTTP task, five operator calls and two crashes, with a global limit above the
\* limit per source.
SPECIFICATION Spec
CONSTANTS
  Tasks = {1}
  Sources <- MCSources
  SourceOf <- MCAllHttp
  Http <- MCHttp
  ModelScope <- MCModelScope
  Runs = {r1, r2, r3}
  MaxActive = 2
  MaxPerSource = 1
  MaxOps = 5
  MaxCrashes = 2
SYMMETRY RunSymmetry
INVARIANTS
  OneRunPerTask
  StoppedIsQuiet
  CancelledIsDiscarded
PROPERTIES
  StagingIsRetained
\* The system stops when the bounds on calls and crashes are used up.
CHECK_DEADLOCK FALSE
