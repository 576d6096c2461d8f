SPECIFICATION Spec
CONSTANTS
  N = 3
  Legacy = 1
  Alike = {{1, 3}}
  MaxActive = 2
  MaxAgents = 2
  MaxEvents = 2
INVARIANTS ArchiveTypeOK HistoryMatchesDisk DeletedScansStayGone BaselinesAreCurrent
CHECK_DEADLOCK FALSE
