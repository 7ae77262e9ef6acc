SPECIFICATION FairSpec
CONSTANTS
  Counts = {0, 4, 12}
  Half = 32
  KP = 20
  KI = 10
  KD = 10
  Target = 4
  KWPLUSMAX = 2
  KOUPLUSMAX = 5
  MaxDrift = 2
  MaxGap = 2
INVARIANTS
  NoOverlap
  DriftInv
PROPERTIES
  ImplementsController
  NoJerk
  FollowsStandingError
