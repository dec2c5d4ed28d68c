SPECIFICATION Spec
CONSTANTS
    read = read
    write = write
    Commands <- Both
    Idempotent <- OnlyRead
    Cancellable <- OnlyRead
    BestEffort <- Both
    Named <- OnlyRead
    SessionCount = 2
    ConfigCount = 0
    MaxOpaque = 3
    CallerThread = FALSE
INVARIANTS
    TypeOK
    AnsweredOnce
    UnambiguousMeansUnsent
    ReadsAreUnambiguous
    CancelsOnlyItself
    NoBlindResend
    SingleTrack
CHECK_DEADLOCK FALSE
