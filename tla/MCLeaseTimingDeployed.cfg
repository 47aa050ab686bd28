\* The values of the development environment, in units of 30 seconds.
CONSTANTS
    w1 = w1
    w2 = w2
    Worker = {w1, w2}
    Config <- DeployedConfig
    MaxReceive = 3
    Latency = 0
    MaxFaults = 1
SPECIFICATION Spec
INVARIANTS CrashedJobIsReclaimed
CHECK_DEADLOCK FALSE
