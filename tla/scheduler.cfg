SPECIFICATION FairSpec
CONSTANTS
  Rules = {r1}
  Slots = {1, 2}
  Window = {1, 2}
  Grace = 1
  Hour = 1
  MaxTime = 2
  MaxRestarts = 1
INVARIANTS SchedulerTypeOK SlotsRunOnce
PROPERTIES DueRulesAreTried
CHECK_DEADLOCK FALSE
