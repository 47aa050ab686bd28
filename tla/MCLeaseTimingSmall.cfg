\* All valid configurations of small intervals; a crash in the first delivery
\* must be recovered by the second or third.
CONSTANTS
    w1 = w1
    w2 = w2
    Worker = {w1, w2}
    Config <- SmallConfig
    MaxReceive = 3
    Latency = 1
    MaxFaults = 2
SYMMETRY Symmetry
SPECIFICATION Spec
INVARIANTS
    LeaseKept
    VisibilityKept
    CrashRecovered
CHECK_DEADLOCK FALSE
