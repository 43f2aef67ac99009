\* Two tasks of two sources compete for one download; two operator calls and a crash.
SPECIFICATION Spec
CONSTANTS
  Tasks = {1, 2}
  Sources <- MCSources
  SourceOf <- MCOddHub
  Http <- MCHttp
  ModelScope <- MCModelScope
  Runs = {r1, r2, r3}
  MaxActive = 1
  MaxPerSource = 1
  MaxOps = 2
  MaxCrashes = 1
SYMMETRY RunSymmetry
INVARIANTS
  TypeOK
  GlobalBound
  NoLostTask
  NoLostWakeup
  WorkHasRun
\* The system stops when the bounds on calls and crashes are used up.
CHECK_DEADLOCK FALSE
