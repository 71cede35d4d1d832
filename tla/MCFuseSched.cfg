SPECIFICATION FairSpec
CONSTANTS
    ino = ino
    fh = fh
    Keys <- MCKeys
    Requests <- MCRequests
    MaxInflight = 3
    MaxId = 4
INVARIANTS
    TypeOK
    ArrivalOrder
    NoLostWakeup
    OldestRuns
    KeysHeldByLive
PROPERTIES
    EveryRequestCompletes
    InOrder
