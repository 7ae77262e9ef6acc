------------------------------ MODULE MCMutex ------------------------------
(***************************************************************************)
(* Three tasks that use the mutex, with room for a task between waiter and *)
(* owner, and one more urgent than the ceiling.                            *)
(***************************************************************************)
EXTENDS Mutex

MCTask == {3, 8, 9, 10}
MCUser == {8, 9, 10}
=============================================================================
