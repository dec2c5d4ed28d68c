SPECIFICATION FairSpec
CONSTANTS
  plain = plain
  prepared = prepared
  other = other
  n1 = n1
  none = none
  Commands <- ThreeCommands
  Sessions = {s1, s2}
  Nodes = {n1}
  Sticky <- OneSticky
  KeepAlive <- ThreeCommands
  Retried <- OnlyPrepared
  MaxConfigs = 1
INVARIANTS
  AnsweredOnce
  OwnSession
  OwnAnswer
PROPERTIES
  NoLateRequest
  EveryCommandAnswered
  SessionsEnd
CHECK_DEADLOCK FALSE
