SPECIFICATION FairSpec
CONSTANTS
  Docs = {d1, d2}
  Existing = {d1}
  Cleaners = {c1}
  MaxFaults = 1
  Foreign = FALSE
  Prompt = TRUE
  MaxCalls = 2
  MaxParallelism = 1
  Concurrent = TRUE
  StoredContent = FALSE
  Crashes = FALSE
  LookupsFail = FALSE
PROPERTY ExpiredReturns
CHECK_DEADLOCK FALSE
