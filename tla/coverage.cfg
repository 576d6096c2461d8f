SPECIFICATION CoverageSpec
CONSTANTS
  TargetSizes = {1, 2, 4, 8}
  HostsInScan = 4
  ChunkSize = 2
  PassSize = 4
  Smallest = 1
  MaxDepth = 1
  ChunkCap = 3
  Exclusions = {{}, {2}}
  Routes = {{}, {1}}
INVARIANTS CoverageTypeOK HandsOff CompletedReportIsWhole EvidenceIsKept HostsSeenAlikeAreExamined
CHECK_DEADLOCK FALSE
