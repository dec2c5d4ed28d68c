SPECIFICATION FairSpec
CONSTANTS
  KvOps = {k1}
  ReplicaOps = {r1}
  QueryOps = {q1, q2}
  BeginWorkFails = TRUE
  CallbacksStartOps = TRUE
INVARIANTS
  CountsMatch
  BlockedMeansQuiet
  CountedReadsSeeMode
  OneBeginWork
  QueriesAreSerial
  EndNeverWaitsForNode
PROPERTIES
  ModeIsFinal
  RunnerProceeds
  OpsAnswered
CHECK_DEADLOCK FALSE
