\* Three events in batches of two, two dispatchers, two faults, with fairness.
SPECIFICATION FairSpec
CONSTANTS
    e1 = e1
    e2 = e2
    e3 = e3
    d1 = d1
    d2 = d2
    Event <- ThreeEvents
    Dispatcher <- TwoDispatchers
    Limit = 2
    MaxFaults = 2
CONSTRAINT CreatedInOrder
INVARIANTS
    PublishedWasSent
    OneOwner
PROPERTIES
    PublishedIsFinal
    ClaimEndsByOwner
    ImplementsDelivery
    EventuallyPublished
CHECK_DEADLOCK FALSE
