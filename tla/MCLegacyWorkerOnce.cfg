\* One worker and one job, received up to three times, without a crash.
CONSTANTS
    m1 = m1
    m2 = m2
    w1 = w1
    w2 = w2
    Message = {m1}
    Worker = {w1}
    Malformed = {}
    MaxReceive = 3
    BatchSize = 2
    MaxCrashes = 0
SPECIFICATION Spec
INVARIANTS CompletedOnce
CHECK_DEADLOCK FALSE
