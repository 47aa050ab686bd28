\* Three requests of any kind, two connections, one error of the database,
\* with fairness.
SPECIFICATION FairSpec
CONSTANTS
    r1 = r1
    r2 = r2
    r3 = r3
    e1 = e1
    c1 = c1
    None = None
    Request <- ThreeRequests
    Email = {e1}
    Correlation = {c1}
    PoolSize = 2
    MaxFaults = 1
CONSTRAINT Bound
INVARIANTS
    WholeOrNothing
    AnswersAreTrue
    EventNamesItsRequest
    Balanced
PROPERTIES
    EveryRequestAnswered
CHECK_DEADLOCK FALSE
