SPECIFICATION OfflineSpec
CONSTANTS
  Names = {"a", "b", "d"}
  MaxAttempts = 2
  ServerFiles <- FileA
  ServerDirs <- NoPaths
  NewPaths <- NewNames
  MaxSaves = 2
  MaxOps = 3
  MaxFaults = 0
  MaxForeign = 0
  MaxRestarts = 0
  Restarts = {"reattach"}
INVARIANTS
  NoEditLost
CHECK_DEADLOCK FALSE
