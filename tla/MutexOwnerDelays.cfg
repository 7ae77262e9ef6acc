SPECIFICATION Spec
CONSTANTS
  Task <- MCTask
  User <- MCUser
  IdlePrio = 63
  PCP = 5
  NoTask = NoTask
  Reserved = Reserved
  MaxTimeout = 2
  OwnerDelays = TRUE
INVARIANT CurrentAtPrio
