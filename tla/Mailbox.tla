------------------------------ MODULE Mailbox ------------------------------
(***************************************************************************)
(* What the firmware relies on when it uses a mailbox of uC/OS-II, with no *)
(* scheduler, clock, status word or suspension in sight.  A message that   *)
(* is accepted sits in exactly one place, the slot of the mailbox or the   *)
(* hands of one task, until one call returns it or the mailbox or that     *)
(* task is deleted; it is handed to the most urgent task that waits, or a  *)
(* copy to every one of them; a call returns empty-handed only when        *)
(* nothing was handed to its task.  Kernel.tla is shown to implement it.   *)
(***************************************************************************)
EXTENDS Integers

CONSTANTS Prio,     \* the tasks, each named by its priority (smaller is more urgent)
          Msg,      \* the messages
          NoMsg     \* the null pointer

VARIABLES slot,     \* the message kept in the mailbox, or NoMsg
          held,     \* held[p]: the message handed to task p and not yet returned to it
          waiting,  \* the tasks that a message could be handed to
          got       \* got[p]: what the last receiving call of task p returned

vars == <<slot, held, waiting, got>>

\* A waiter more urgent than every other one.
MostUrgent(p) == p \in waiting /\ \A q \in waiting : p <= q

Init ==
  /\ slot = NoMsg
  /\ held = [p \in Prio |-> NoMsg]
  /\ waiting = {}
  /\ got = [p \in Prio |-> NoMsg]

\* A message is accepted: by the most urgent waiter, or by the empty slot.
Deposit(m) ==
  \/ \E p \in Prio :
       /\ MostUrgent(p)
       /\ held[p] = NoMsg
       /\ held' = [held EXCEPT ![p] = m]
       /\ waiting' = waiting \ {p}
       /\ UNCHANGED <<slot, got>>
  \/ /\ waiting = {}
     /\ slot = NoMsg
     /\ slot' = m
     /\ UNCHANGED <<held, waiting, got>>

\* A message is handed to everybody who waits.
Broadcast(m) ==
  /\ waiting # {} /\ \A p \in waiting : held[p] = NoMsg
  /\ held' = [p \in Prio |-> IF p \in waiting THEN m ELSE held[p]]
  /\ waiting' = {}
  /\ UNCHANGED <<slot, got>>

\* A call finds the slot full, or finds nothing and waits or gives up.
Take(p) ==
  /\ slot # NoMsg
  /\ got' = [got EXCEPT ![p] = slot]
  /\ slot' = NoMsg
  /\ UNCHANGED <<held, waiting>>

Wait(p) ==
  /\ slot = NoMsg /\ held[p] = NoMsg
  /\ waiting' = waiting \cup {p}
  /\ UNCHANGED <<slot, held, got>>

\* The waiting call returns, with the message handed over or with none.
Return(p) ==
  /\ got' = [got EXCEPT ![p] = held[p]]
  /\ held' = [held EXCEPT ![p] = NoMsg]
  /\ waiting' = waiting \ {p}
  /\ UNCHANGED slot

\* The wait of the most urgent task, or of all tasks, is cut short.
Abort ==
  /\ waiting # {}
  /\ \/ waiting' = {}
     \/ \E p \in Prio : MostUrgent(p) /\ waiting' = waiting \ {p}
  /\ UNCHANGED <<slot, held, got>>

\* The mailbox is deleted: nobody waits for it any more.
Discard == slot' = NoMsg /\ waiting' = {} /\ UNCHANGED <<held, got>>

\* Task p is deleted, with what it holds.
Leave(p) ==
  /\ held' = [held EXCEPT ![p] = NoMsg]
  /\ waiting' = waiting \ {p}
  /\ UNCHANGED <<slot, got>>

Next ==
  \/ \E m \in Msg : Deposit(m) \/ Broadcast(m)
  \/ \E p \in Prio : Take(p) \/ Wait(p) \/ Return(p) \/ Leave(p)
  \/ Abort \/ Discard

Spec == Init /\ [][Next]_vars
=============================================================================
