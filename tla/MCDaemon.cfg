SPECIFICATION DaemonSpec
CONSTANTS
    MaxWorkers = 2
    QueueCap = 1
    Paths = {"p", "q"}
    MaxJobs = 4
    Strands = FALSE
    Readers = {r1}
    Fetches = {1}
    Jobs = {j1}
    Entries = 1
    MaxChanges = 1
    MaxFaults = 1
    Reads = {r1}
    Grace = 2
    MaxClock = 3
    MaxConnects = 3
    MaxTroubles = 2
    MarksRace = FALSE
    Holes = {}
    MaxWrites = 2
    MaxChunks = 2
    MaxStops = 3
    MaxMishaps = 3
    Names = {"a", "b"}
    MaxIno = 5
    Block = 2
    MaxMoves = 2
    MaxKills = 2
    Tears = {FALSE}
    TopFiles = {"f"}
    Nested = {"d/f", "d/g"}
    Folders = {"d"}
    In <- MCIn
    MaxStarts = 3
    MaxSaves = 1
    MaxEntries = 3
    Mishaps = {}
    BaseCooldown = 1
    MaxCooldown = 2
    Window = 2
    TripErrors = 2
    TripMinSamples = 2
    OpenBase = 1
    OpenMax = 2
    MaxSamples = 3
    MaxInstant = 8
    MaxAnswers = 3
    Burst = 2
    Refill = 1
    MaxWait = 2
    Threads = {1, 2}
    MaxNow = 8
    KeyLists = {}
    Homes = {1, 2}
    MaxRequests = 4
INVARIANTS
    DaemonTypeOK
    InodesKept
    HandlesKept
    RunsOnce
    
    
    RefreshOwned
    RenameOrdered
    OldestHasWorker
    HeldBackInMeasure

    
CHECK_DEADLOCK FALSE
