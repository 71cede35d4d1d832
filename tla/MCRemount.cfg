SPECIFICATION SaveSpec
CONSTANTS
  Names = {"a", "b", "d"}
  MaxAttempts = 2
  ServerFiles <- FileA
  ServerDirs <- NoPaths
  NewPaths <- NoPaths
  MaxSaves = 2
  MaxOps = 0
  MaxFaults = 0
  MaxForeign = 0
  MaxRestarts = 1
  Restarts = {"remount"}
INVARIANTS
  NoEditLost
CHECK_DEADLOCK FALSE
