CONSTANTS
  Runs = {r1, r2, r3}
  Rooted = {TRUE, FALSE}
  Operators = {o1}
  MaxAgents = 2
  MaxRootless = 1
  MaxViewedRuns = 2
  MaxLosses = 1
  Empty = Empty
  Nobody = Nobody
SPECIFICATION MCSpec
CHECK_DEADLOCK FALSE
SYMMETRY Symmetry
INVARIANTS NoStaleEntry ViewIsComplete
