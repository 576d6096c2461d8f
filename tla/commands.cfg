SPECIFICATION Spec
CONSTANTS
  Starts = {s1}
  Cancels = {c1}
  Checks = {k1}
  Bridges = {b1, b2}
  Threads = {h1, h2}
  CancelLimit = 1
  MaxRuns = 1
  MaxRequests = 2
  MaxRestarts = 1
SYMMETRY Symmetry
INVARIANTS CommandsTypeOK AcceptedRunsOnce ScansAreAnswered 
CHECK_DEADLOCK FALSE
