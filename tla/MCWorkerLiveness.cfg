SPECIFICATION FairSpec
CONSTANTS
    j1 = j1
    w1 = w1
    w2 = w2
    m1 = m1
    m2 = m2
    NoMessage = NoMessage
    Worker <- TwoWorkers
    Job <- OneJob
    Message <- OneMessage
    JobOf <- OneMessageOf
    MaxReceive = 2
    MaxCrashes = 1
PROPERTY SentSettles
CHECK_DEADLOCK FALSE
