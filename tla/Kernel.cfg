SPECIFICATION KernelSpec
CONSTANTS
  Prio <- MCPrio
  IdlePrio = 63
  StartPrio = 4
  Msg = {m1, m2}
  NoMsg = NoMsg
  DeletesWaited = FALSE
  MaxTimeout = 2
INVARIANTS
  RunsHighest
  ReadyIffUnblocked
  PendOutcome
  NothingLeftBehind
  KernelInv
PROPERTY ImplementsMailbox
