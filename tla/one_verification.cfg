\* docs/design-decisions.md on verification, with a pause followed by a cancel.
SPECIFICATION Spec
CONSTANTS
  Tasks = {1, 2}
  Sources <- MCSources
  SourceOf <- MCAllHttp
  Http <- MCHttp
  ModelScope <- MCModelScope
  Runs = {r1, r2, r3}
  MaxActive = 1
  MaxPerSource = 1
  MaxOps = 2
  MaxCrashes = 0
SYMMETRY RunSymmetry
INVARIANTS
  OneVerification
\* The system stops when the bounds on calls and crashes are used up.
CHECK_DEADLOCK FALSE
