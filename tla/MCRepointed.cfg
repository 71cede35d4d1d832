SPECIFICATION LiveSpec
CONSTANTS
  Names = {"a", "b", "d"}
  MaxAttempts = 2
  ServerFiles <- FileA
  ServerDirs <- NoPaths
  NewPaths <- NewNames
  MaxSaves = 2
  MaxOps = 1
  MaxFaults = 0
  MaxForeign = 0
  MaxRestarts = 0
  Restarts = {"reattach"}
INVARIANTS
  Converges
CHECK_DEADLOCK FALSE
