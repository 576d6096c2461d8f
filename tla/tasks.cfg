SPECIFICATION TasksSpec
CONSTANTS
  Sids = {s1}
  JobTypes = {"scan", "report"}
  Procs = {p1, p2, sudo}
  Pausable = {p1, p2}
  Upgraders = {u1}
  NoProc = NoProc
  NoUpgrader = NoUpgrader
  MaxActive = 1
  MaxRuns = 2
  Kinds = {"scan", "report", "pdf"}
  Overlap = FALSE
  Faults = {"schedule", "preamble", "store"}
INVARIANTS TasksTypeOK  MaintenanceIsQuiet PausesHold
CHECK_DEADLOCK FALSE
