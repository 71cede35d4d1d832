SPECIFICATION TreeSpec
CONSTANTS
  Names = {"a", "b", "d"}
  MaxAttempts = 2
  ServerFiles <- FileA
  ServerDirs <- FolderD
  NewPaths <- NewNames
  MaxSaves = 1
  MaxOps = 2
  MaxFaults = 0
  MaxForeign = 0
  MaxRestarts = 0
  Restarts = {"reattach"}
INVARIANTS
  NoEditLost
CHECK_DEADLOCK FALSE
