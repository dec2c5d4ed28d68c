SPECIFICATION FairSpec
CONSTANTS
    read = read
    write = write
    Commands <- OnlyWrite
    Idempotent <- NoCommands
    Cancellable <- NoCommands
    BestEffort <- OnlyWrite
    Named <- OnlyWrite
    SessionCount = 2
    ConfigCount = 1
    MaxOpaque = 4
    CallerThread = TRUE
INVARIANTS
    NoBlindResend
    SingleTrack
PROPERTY EveryCommandAnswered
CHECK_DEADLOCK FALSE
