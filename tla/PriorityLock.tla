---------------------------- MODULE PriorityLock ----------------------------
(***************************************************************************)
(* What a task relies on when it uses a mutex of uC/OS-II: one owner at a  *)
(* time, who lets the most urgent waiter in; a call that waited returns    *)
(* with the lock exactly if its task has become the owner.  No scheduler,  *)
(* clock or promotion is in sight.  Mutex.tla is shown to implement it.    *)
(***************************************************************************)
EXTENDS Integers

CONSTANTS Task,     \* each named by its priority (smaller is more urgent)
          NoTask

VARIABLES exists,   \* the lock has not been deleted
          owner,    \* the task the lock belongs to, or NoTask
          holds,    \* the tasks that have been told so
          waiting   \* the tasks the lock may be handed to

vars == <<exists, owner, holds, waiting>>

Init == exists = TRUE /\ owner = NoTask /\ holds = {} /\ waiting = {}

Take(t) ==
  /\ owner = NoTask
  /\ owner' = t /\ holds' = holds \cup {t}
  /\ UNCHANGED <<exists, waiting>>

Wait(t) ==
  /\ owner # NoTask /\ t # owner
  /\ waiting' = waiting \cup {t}
  /\ UNCHANGED <<exists, owner, holds>>

\* A waiter was made the owner, or its patience was at an end.
Enter(t) ==
  /\ owner = t /\ t \notin waiting
  /\ holds' = holds \cup {t}
  /\ UNCHANGED <<exists, owner, waiting>>

GiveUp(t) ==
  /\ waiting' = waiting \ {t}
  /\ UNCHANGED <<exists, owner, holds>>

Release(t) ==
  /\ t \in holds
  /\ holds' = holds \ {t}
  /\ \/ waiting = {} /\ owner' = NoTask /\ waiting' = {}
     \/ \E w \in waiting : /\ \A u \in waiting : w <= u
                           /\ owner' = w /\ waiting' = waiting \ {w}
  /\ UNCHANGED exists

\* Once the lock is deleted nothing is promised.
Delete == exists' = FALSE
Gone == ~exists /\ ~exists'

Next == Delete \/ Gone \/ \E t \in Task : Take(t) \/ Wait(t) \/ Enter(t) \/ GiveUp(t) \/ Release(t)

Spec == Init /\ [][Next]_vars
=============================================================================
