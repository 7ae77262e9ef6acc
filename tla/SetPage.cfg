SPECIFICATION Spec
CONSTANTS
  MaxGain = 1
  MaxSpeed = 1
  WordMax = 15
  Exact = 13
  MaxEdits = 1
  MaxSaves = 2
  MaxCuts = 1
  MaxFails = 1
INVARIANTS
  CursorOnItem
  SavedOutsidePage
  SpeedCommits
  SetPageInv
PROPERTIES
  LeftOnlySaved
  ShownSurvivesPowerCut
CHECK_DEADLOCK FALSE
