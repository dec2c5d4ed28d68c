SPECIFICATION FairSpec
CONSTANTS
  Docs = {d1, d2}
  Existing = {d1}
  Cleaners = {c1, c2}
  MaxFaults = 2
  Foreign = FALSE
  Prompt = TRUE
  MaxCalls = 2
  MaxParallelism = 1
  Concurrent = FALSE
  StoredContent = FALSE
  Crashes = TRUE
  LookupsFail = FALSE
INVARIANTS TypeOK AllOrNothing CommittedIsVisible ResultIsTrue StateIsTrue
PROPERTIES EntryBeforeStaging CommitIsFinal AtomicPromise ExpiredReturns CommittedIsPublished EntryRemoved
CHECK_DEADLOCK FALSE
