SPECIFICATION FairSpec
CONSTANT Samples = {0, 250}
INVARIANTS
  ServoFollowsLatch
  SteeringInv
PROPERTIES
  SteersByWholeDifference
  OutlierIsNoLoss
  LineIsFollowed
  StaleTurnHeals
