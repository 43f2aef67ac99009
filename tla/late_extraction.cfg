\* tests/test_tasks.py on delete_task, with a confirmation that is cancelled while it extracts.
SPECIFICATION Spec
CONSTANTS
  Tasks = {1}
  Sources <- MCSources
  SourceOf <- MCAllHttp
  Http <- MCHttp
  ModelScope <- MCModelScope
  Runs = {r1, r2}
  MaxActive = 1
  MaxPerSource = 1
  MaxOps = 3
  MaxCrashes = 0
INVARIANTS
  DeletedLeavesNothing
\* The system stops when the bounds on calls and crashes are used up.
CHECK_DEADLOCK FALSE
