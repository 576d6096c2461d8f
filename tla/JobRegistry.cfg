SPECIFICATION Spec
CONSTANTS
  Sids = {s1, s2}
  JobTypes = {scan}
  Procs = {plain, sudo}
  Pausable = {plain}
  Upgraders = {u1}
  NoProc = NoProc
  NoUpgrader = NoUpgrader
  MaxActive = 1
  MaxRuns = 2
INVARIANTS TypeOK StoppedIsResumable
PROPERTIES CancelIsSticky
CHECK_DEADLOCK FALSE
