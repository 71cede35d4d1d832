SPECIFICATION OfflineSpec
CONSTANTS
  Names = {"a", "b", "d"}
  MaxAttempts = 1
  ServerFiles <- FileA
  ServerDirs <- FolderD
  NewPaths <- NewNames
  MaxSaves = 2
  MaxOps = 2
  MaxFaults = 1
  MaxForeign = 0
  MaxRestarts = 1
  Restarts = {"reattach"}
INVARIANTS
  EditsSurvive
  Converges
CHECK_DEADLOCK FALSE
