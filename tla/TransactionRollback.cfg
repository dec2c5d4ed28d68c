SPECIFICATION Spec
CONSTANTS
  Docs = {d1, d2}
  Existing = {d1}
  Cleaners = {c1}
  MaxFaults = 1
  Foreign = FALSE
  Prompt = TRUE
  MaxCalls = 1
  MaxParallelism = 1
  Concurrent = FALSE
  StoredContent = FALSE
  Crashes = FALSE
  LookupsFail = FALSE
INVARIANT RollbackSkipsNothing
CHECK_DEADLOCK FALSE
