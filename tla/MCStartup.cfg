\* Every combination of the settings, for each kind of process.
CONSTANTS
    DbPart <- MCDbPart
    Roles <- MCRoles
SPECIFICATION Spec
INVARIANTS
    WiredForItsMode
    PoolClosed
PROPERTIES
    SignalledEnds
CHECK_DEADLOCK FALSE
