SPECIFICATION KernelSpec
CONSTANTS
  Prio <- MCPrio
  IdlePrio = 63
  StartPrio = 4
  Msg = {m1, m2}
  NoMsg = NoMsg
  DeletesWaited = TRUE
  MaxTimeout = 2
INVARIANT NoneMeansMessage
