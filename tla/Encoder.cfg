SPECIFICATION FairSpec
CONSTANTS
  CITER_MASK = 3
  MaxPulses = 8
INVARIANTS
  EveryPulseOnce
PROPERTIES
  LossNeedsFullCount
  PulseIsSeen
  CounterRevives
