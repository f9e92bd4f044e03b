SPECIFICATION Spec
CONSTANTS
  MaxGid = 3
  MaxAsks <- Twice
  MaxOthers <- Twice
  MaxSteps <- Steps
  MaxDrops <- Drops
  Height = 8
  Managed = {2}
  Scenes = {"fold", "reorder", "search", "popup", "details"}
  Gids = {1}
  MaxEdits = 2
  MaxQueue = 2
INVARIANTS
  CursorInTree MirrorsCore  
CHECK_DEADLOCK FALSE
