\* Three tasks with images of one to three files, two faults, with fairness.
SPECIFICATION FairSpec
CONSTANTS
    r1 = r1
    r2 = r2
    r3 = r3
    Runner = {r1, r2, r3}
    FileCount = 3
    MaxFaults = 2
INVARIANTS
    NoTaskConflicts
    VersionsTellTheSchema
    SuccessMeansMigrated
PROPERTIES
    EveryTaskSucceeds
CHECK_DEADLOCK FALSE
