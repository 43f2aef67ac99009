\* README.md on pausing and resuming: a task is paused before its run was ever stepped.
SPECIFICATION FairSpec
CONSTANTS
  Tasks = {1}
  Sources <- MCSources
  SourceOf <- MCAllHub
  Http <- MCHttp
  ModelScope <- MCModelScope
  Runs = {r1, r2}
  MaxActive = 1
  MaxPerSource = 1
  MaxOps = 2
  MaxCrashes = 0
PROPERTIES
  QueueMoves
\* The system stops when the bounds on calls and crashes are used up.
CHECK_DEADLOCK FALSE
