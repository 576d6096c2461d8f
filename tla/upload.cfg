SPECIFICATION FairUploadSpec
CONSTANTS
  Size = 5
  Chunk = 2
  MaxFailures = 4
  MaxEdits = 2
INVARIANTS ResumesWithoutGap
PROPERTIES UploadEnds DeliveryPromise
CHECK_DEADLOCK FALSE
