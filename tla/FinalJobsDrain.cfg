CONSTANTS
  Pids = {p1, p2}
  Jobs = {j1, j2}
  Operators = {o1}
  MaxLimit = 2
  None = None
  PidReuse = FALSE
  OperatorMayCrash = TRUE
SPECIFICATION FairSpec
INVARIANT RowsAreWorkers
PROPERTIES PauseDrains OpensQuiet
