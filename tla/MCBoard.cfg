CONSTANTS
  Columns = 3
  Operators = {"alice", "bob"}
  TabNames <- MCTabNames
  WidgetIds <- MCWidgetIds
  Asked <- MCAsked
  Grids <- MCGrids
  AgentDocs <- MCAgentDocs
  StartDocs <- MCStartDocs
  MaxTabs = 2
  MaxWidgets = 2
  MaxRow = 2
  MaxHeight = 1
  MaxWrites = 2
  Turns = {s1}
  Memory = TRUE
  SelfReview = TRUE
  CutCalls = FALSE
  MaxAttempts = 2
  MaxIterations = 2
  MaxBlocks = 2
  Cap = 3
SPECIFICATION MCSpec
INVARIANTS BoardsSound OptimisticAgrees DropsFit InOrder  ShowsTruth
PROPERTIES EndedStartsNothing TurnsEnd
CHECK_DEADLOCK FALSE
