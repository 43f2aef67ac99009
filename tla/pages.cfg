\* The new-download page with two models, the artifacts page with two artifacts and pages of
\* one card, two toasts of which one is kept, two tabs, and a tab of which the user goes twice
\* elsewhere and signs in or out twice.
SPECIFICATION PagesSpec
CONSTANTS
  FormIds = {"A", "B"}
  DefaultOf <- MCDefaultOf
  Estimates <- MCEstimates
  MaxEdits = 2
  MaxPicks = 2
  Shelved = {1, 2}
  CardPage = 1
  MaxTurns = 4
  MaxMishaps = 1
  ToastLimit = 1
  Duration = 2
  MaxNotices = 2
  MaxCopies = 2
  Tabs = {1, 2}
  MaxSelections = 3
  MaxMoves = 2
  MaxSignings = 2
  TypedTexts <- MCTyped
  Suggested <- MCSuggested
  Remote = FALSE
  OptionCount = 3
  MaxStrokes = 4
  MaxKeys = 6
INVARIANTS
  PagesTypeOK
  SubmittedIsPreflighted
  SelectionIsOfEstimate
  RevisionIsOfModel
  FilterShowsMatches
  CardsMatchSearch
  DetailIsOfOneArtifact
  AliasGoesWhereTyped
  TimersAreOfToasts
PROPERTIES
  ReturnsWhereHeaded
  EnterKeepsTyped
  TwoKeysMoveTwo
  PagesSettle
\* Users may stop for good.
CHECK_DEADLOCK FALSE
