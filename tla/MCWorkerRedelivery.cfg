SPECIFICATION Spec
CONSTANTS
    j1 = j1
    w1 = w1
    w2 = w2
    m1 = m1
    m2 = m2
    NoMessage = NoMessage
    Worker <- TwoWorkers
    Job <- OneJob
    Message <- OneMessage
    JobOf <- OneMessageOf
    MaxReceive = 3
    MaxCrashes = 1
SYMMETRY WorkerSymmetry
INVARIANTS
    TypeOK
    AtomicCompletion
    FencedClaims
    RenewalNeedsOwner
    DeletedOnlyCompleted
    OneReportPerAttempt
PROPERTIES
    CompletedIsFinal
    LiveClaimEndsByOwner
    NoClaimLeak
    ImplementsLifecycle
CHECK_DEADLOCK FALSE
