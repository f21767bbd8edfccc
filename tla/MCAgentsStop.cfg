CONSTANTS
  Runs = {r1}
  Rooted = {FALSE}
  Operators = {o1}
  MaxAgents = 2
  MaxRootless = 1
  MaxViewedRuns = 2
  MaxLosses = 0
  Empty = Empty
  Nobody = Nobody
SPECIFICATION MCSpec
CHECK_DEADLOCK FALSE
SYMMETRY Symmetry
INVARIANTS RunningIsListed
