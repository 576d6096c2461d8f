SPECIFICATION Spec
CONSTANTS
  Owners = {o1}
  Watchers = {b1, t1}
  Bridges = {b1}
  Overlap = FALSE
  MaxRuns = 2
  MaxVersion = 3
  MaxEvents = 1
INVARIANTS PublicationTypeOK TabsConverge 
 
CHECK_DEADLOCK FALSE
