------------------------------ MODULE MCKernel ------------------------------
(***************************************************************************)
(* Three tasks and the idle task for TLC: enough for a poster, a waiter    *)
(* more urgent and one less urgent than it, or for two waiters.            *)
(***************************************************************************)
EXTENDS Kernel

MCPrio == {4, 8, 9}
=============================================================================
