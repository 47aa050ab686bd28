\* One job, two processes, up to two messages, each received once, one fault.
SPECIFICATION Spec
CONSTANTS
    j1 = j1
    p1 = p1
    p2 = p2
    NoMessage = NoMessage
    Job = {j1}
    Process <- TwoProcesses
    Limit = 1
    MaxReceive = 1
    MaxFaults = 1
SYMMETRY Symmetry
INVARIANTS
    NoJobForgotten
    WorkIsBounded
    DuplicatesAreHarmless
CHECK_DEADLOCK FALSE
