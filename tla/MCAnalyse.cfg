SPECIFICATION Spec
CONSTANTS
  Executions <- MCExecutions
  FileOf <- MCFileOf
  Peaks <- MCPeaks
  MaxLines = 5
  MaxDepth = 3
  PageSize = 4
INVARIANTS NodesAreATree SelfExact CumExact PagesExact RowsAgree LargestShown DeathsExcused
PROPERTIES TreeKeepsHeavy
CHECK_DEADLOCK FALSE
