SPECIFICATION Spec
CONSTANTS
    read = read
    write = write
    Commands <- OnlyWrite
    Idempotent <- NoCommands
    Cancellable <- NoCommands
    BestEffort <- OnlyWrite
    Named <- OnlyWrite
    SessionCount = 2
    ConfigCount = 1
    MaxOpaque = 2
    CallerThread = TRUE
INVARIANT UnambiguousMeansUnsent
CHECK_DEADLOCK FALSE
