SPECIFICATION BootSpec
CONSTANTS
  MaxDepth = 2
  RdbFiles <- SomeRdbFiles
  Requests <- SomeRequests
  MaxWrites = 3
  MaxCrashes = 2
  MaxTears = 1
  Times <- SomeTimes
INVARIANTS LogReadsBack RestartOnlyProlongs RdbIsLoaded OnlyATearStopsIt
CHECK_DEADLOCK FALSE
