SPECIFICATION ReadsSpec
CONSTANTS
  Docs = {d1, d2}
  Existing = {d1}
  Cleaners = {c1}
  MaxFaults = 1
  Foreign = FALSE
  Prompt = TRUE
  MaxCalls = 2
  MaxParallelism = 1
  Concurrent = FALSE
  StoredContent = FALSE
  Crashes = TRUE
  LookupsFail = FALSE
INVARIANTS ReadsAreCommitted ReadsSeeCommit
CHECK_DEADLOCK FALSE
