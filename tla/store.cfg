SPECIFICATION FairSpec
CONSTANTS
  Jobs = {1, 2}
  Sizes = {1, 4}
  MaxEvents = 2
  MaxBytes = 3
  Page = 1
  Keep = 1
  Shift = 1
  MaxNow = 1
  MaxEmits = 2
  MaxFaults = 1
INVARIANTS StoreTypeOK HistoryIsConsistent RecoveryIsComplete
 
