SPECIFICATION Spec
CONSTANTS
  Docs = {d1, d2}
  Existing = {d1}
  Cleaners = {c1}
  MaxFaults = 1
  Foreign = TRUE
  Prompt = TRUE
  MaxCalls = 3
  MaxParallelism = 1
  Concurrent = FALSE
  StoredContent = TRUE
  Crashes = FALSE
  LookupsFail = FALSE
INVARIANT StateIsTrue
PROPERTY OthersUnharmed
CHECK_DEADLOCK FALSE
