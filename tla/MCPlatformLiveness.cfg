\* One process that may crash and must recover alone, or a fault of the outbox.
SPECIFICATION FairSpec
CONSTANTS
    j1 = j1
    p1 = p1
    p2 = p2
    NoMessage = NoMessage
    Job = {j1}
    Process = {p1}
    Limit = 1
    MaxReceive = 1
    MaxFaults = 1
PROPERTIES
    NeitherHalfStarves
    AcceptedJobSettles
CHECK_DEADLOCK FALSE
