SPECIFICATION FairSaveSpec
CONSTANTS
  Names = {"a", "b", "d"}
  MaxAttempts = 2
  ServerFiles <- FileA
  ServerDirs <- NoPaths
  NewPaths <- NoPaths
  MaxSaves = 2
  MaxOps = 0
  MaxFaults = 2
  MaxForeign = 1
  MaxRestarts = 1
  Restarts = {"reattach"}
INVARIANTS
  TypeOK
  NoEditLost
  ClaimExclusive
  PopsWhatItSent
  NoStaleGuard
PROPERTIES
  QueueDrains
CHECK_DEADLOCK FALSE
