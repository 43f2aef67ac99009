\* Two tasks of two sources, one operator call and one crash, under fairness.
SPECIFICATION FairSpec
CONSTANTS
  Tasks = {1, 2}
  Sources <- MCSources
  SourceOf <- MCOddHub
  Http <- MCHttp
  ModelScope <- MCModelScope
  Runs = {r1, r2}
  MaxActive = 1
  MaxPerSource = 1
  MaxOps = 1
  MaxCrashes = 1
PROPERTIES
  QueuedIsServed
  WorkEnds
  CallsReturn
\* The system stops when the bounds on calls and crashes are used up.
CHECK_DEADLOCK FALSE
