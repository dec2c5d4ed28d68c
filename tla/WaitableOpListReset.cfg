SPECIFICATION FairSpec
CONSTANTS
  KvOps = {}
  ReplicaOps = {}
  QueryOps = {q1, q2}
  BeginWorkFails = TRUE
  CallbacksStartOps = FALSE
PROPERTIES
  RollbackAfterReset
CHECK_DEADLOCK FALSE
