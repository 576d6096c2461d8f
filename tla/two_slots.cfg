SPECIFICATION FairTasksSpec
CONSTANTS
  Sids = {s1}
  JobTypes = {"scan", "report"}
  Procs = {p1, sudo}
  Pausable = {p1}
  Upgraders = {}
  NoProc = NoProc
  NoUpgrader = NoUpgrader
  MaxActive = 2
  MaxRuns = 2
  Kinds = {"scan", "report"}
  Overlap = FALSE
  Faults = {}
PROPERTIES  CancelEndsJob
CHECK_DEADLOCK FALSE
