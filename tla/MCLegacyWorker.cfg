\* A job's message and one that is no job's, in batches of up to two, each
\* received up to three times by two workers, one of which may crash.
CONSTANTS
    m1 = m1
    m2 = m2
    w1 = w1
    w2 = w2
    Message = {m1, m2}
    Worker = {w1, w2}
    Malformed = {m2}
    MaxReceive = 3
    BatchSize = 2
    MaxCrashes = 1
SPECIFICATION Spec
INVARIANTS
    AcceptedIsNotForgotten
    StrandedByCrashes
PROPERTIES
    FailuresAreOwn
CHECK_DEADLOCK FALSE
