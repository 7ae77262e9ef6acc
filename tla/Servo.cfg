SPECIFICATION Spec
CONSTANTS
  BusClock <- MCBusClock
  Gains = {0, 80, 200}
  Differences <- MCDifferences
INVARIANT WaveAsAsked
PROPERTY KickLastsOneRound
