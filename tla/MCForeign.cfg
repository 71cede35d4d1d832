SPECIFICATION SaveSpec
CONSTANTS
  Names = {"a", "b", "d"}
  MaxAttempts = 2
  ServerFiles <- FileA
  ServerDirs <- NoPaths
  NewPaths <- NoPaths
  MaxSaves = 2
  MaxOps = 0
  MaxFaults = 0
  MaxForeign = 1
  MaxRestarts = 0
  Restarts = {"reattach"}
PROPERTIES
  ForeignEditKept
CHECK_DEADLOCK FALSE
