SPECIFICATION Spec
CONSTANTS
    ino = ino
    fh = fh
    Keys <- MCKeys
    Requests <- MCRequests
    MaxInflight = 2
    MaxId = 4
PROPERTIES
    NoTaskWhilePaused
