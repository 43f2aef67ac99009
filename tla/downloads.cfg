\* The pages of the downloads: one task of each flow; three tasks on pages of two; the
\* details of two tasks.
SPECIFICATION DownloadsSpec
CONSTANTS
  StepProviders = {"hub", "modelscope", "http"}
  Bytes = 2
  QueueTasks = {1, 2, 3}
  PageSize = 2
  MaxLoads = 2
  MaxChanges = 1
  MaxClicks = 2
  MaxLost = 1
  DetailTasks = {1, 2}
  MaxDetailPolls = 2
  MaxEvents = 1
  MaxPresses = 3
  MaxVisits = 2
  MaxBroken = 1
INVARIANTS
  DownloadsTypeOK
  CompleteStepsAreDone
  WorkIsVisible
  RowsMatchFilters
  DetailIsOfShown
  OneRequestPerControl
  OptionIsDeliberate
PROPERTIES
  StopKeepsStep
  QueuePageConverges
  DetailConverges
  ControlsComeBack
\* Polls go on, but tasks and users may stop for good.
CHECK_DEADLOCK FALSE
