SPECIFICATION FilesSpec
CONSTANTS
    Slots = 2
    Callers = {1, 2, 3}
    Spares = {0, 1}
    Quarantine = 1
    MaxTime = 2
    Sizes <- MCSizes
    Reads = {r1, r2}
    Windows = {1, 2, 3, 4}
    ReadSlots = 5
    Budget = 12
    Initial = 4
    Ceiling = 4
    SeqStart = 4
    SeqStartMinFile = 8
    PrevKeep = 2
    SegmentMin = 2
    SegmentAlign = 2
    MaxSegments = 2
    BodyRetries = 1
    StallResumes = 0
    MaxReads = 3
    ReadSize = 2
    Seeks = {3}
    MaxFaults = 1
    MaxVersion = 2
    MaxReboots = 1
    CopyRaces = {}
    Handles = {1, 2}
    MaxCopies = 2
    MaxBackings = 2
    MaxRestarts = 1
    MaxEtag = 5
    ForeignWhileTaking = FALSE
    Dirs = {1, 2}
    MaxDirs = 1
    Savers = {1, 2}
    Overlaps = FALSE
    MaxChanges = 2
    MaxStops = 1
    MaxFailures = 1
    Capacity = 1
    PageSize = 1
    Pumps = {1, 2}
    KeepsCursor = FALSE
    MaxMade = 2
SYMMETRY Symmetric
INVARIANTS
    FilesTypeOK
    
    NothingHeldBack
    SlotsAccounted
    NoSleeperMissed
    StreamedAsWritten
    
    ModesAgree
    
    StoreKept
    ClientsTold
    NoSilentOverwrite
CHECK_DEADLOCK FALSE
