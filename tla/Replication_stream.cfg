SPECIFICATION ReplSpec
CONSTANTS
  Replicas = {r1, r2}
  Values = {v1, v2}
  Waiters = {x1}
  Needs = {2}
  WriteSize = 27
  AckSize = 37
  MaxWrites = 2
  MaxWaits = 2
  Nil = Nil
INVARIANT WaitFallsShortByGetacks
PROPERTIES ReplicasFollowTheLog WaitsReturn ReplicasCatchUp
CHECK_DEADLOCK FALSE
