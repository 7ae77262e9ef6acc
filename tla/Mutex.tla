------------------------------- MODULE Mutex -------------------------------
(***************************************************************************)
(* The mutual exclusion semaphore of uC/OS-II v2.92 (os_mutex.c, built     *)
(* into the firmware) with the scheduler it needs.  A task is named by the *)
(* priority it was created with; the owner of the mutex may run at the     *)
(* priority ceiling instead, so a name and a priority are two things here. *)
(* As in Kernel, an action is a critical section, and the tick may come    *)
(* between the one that changes the lists and the one of OS_Sched().       *)
(***************************************************************************)
EXTENDS Integers, FiniteSets

CONSTANTS Task,         \* the tasks, by the priority they were created with
          User,         \* those that use the mutex; the others may run and delete it
          IdlePrio,     \* OS_TASK_IDLE_PRIO
          PCP,          \* the priority ceiling given to OSMutexCreate()
          NoTask,       \* the null pointer; also OS_MUTEX_AVAILABLE in OSEventCnt
          Reserved,     \* OS_TCB_RESERVED
          MaxTimeout,   \* bound on the ticks a caller asks for
          OwnerDelays   \* whether the owner of the mutex may call OSTimeDly()

ASSUME TaskAssumption ==
  /\ Task \subseteq Nat /\ User \subseteq Task
  /\ IdlePrio \in Nat /\ \A t \in Task : t < IdlePrio
ASSUME CeilingAssumption ==
  PCP \in Nat \ Task /\ PCP < IdlePrio /\ \A u \in User : PCP < u
ASSUME NoTaskAssumption == NoTask \notin Nat /\ Reserved \notin Nat /\ NoTask # Reserved
ASSUME BoundAssumption == MaxTimeout \in Nat /\ OwnerDelays \in BOOLEAN

VARIABLES OSTCBPrioTbl,  \* the task at each priority
          OSRdyTbl,      \* the ready list, by priority
          OSPrioCur,     \* priority of the running task
          OSTCBCur,      \* the running task
          OSTCBPrio,     \* the priority each task has now
          OSTCBStat,     \* MUTEX while a task is blocked on the mutex
          OSTCBStatPend, \* how its wait ended: OK or TO
          OSTCBDly,      \* ticks left of each delay or timeout
          OSEventType,   \* MUTEX until it is deleted
          OSOwnerPrio,   \* low byte of OSEventCnt: original priority of the owner
          OSEventPtr,    \* the owner
          OSEventTbl,    \* the wait list, by priority
          pc,            \* app, or inside a service: sched, pendSched, pended
          holds          \* auxiliary: the tasks told that they own the mutex

tcbVars == <<OSTCBStat, OSTCBStatPend, OSTCBDly>>
ecbVars == <<OSEventType, OSOwnerPrio, OSEventPtr, OSEventTbl>>
vars == <<OSTCBPrioTbl, OSRdyTbl, OSPrioCur, OSTCBCur, OSTCBPrio, tcbVars, ecbVars, pc, holds>>

Prio == Task \cup {PCP, IdlePrio}
Highest(S) == CHOOSE p \in S : \A q \in S : p <= q

At(t, l) == OSTCBCur = t /\ pc[t] = l
Goto(t, l) == pc' = [pc EXCEPT ![t] = l]

\* The tasks are created, the mutex too, and OSStart() has run the most urgent.
Init ==
  /\ OSTCBPrioTbl = [p \in Prio |-> IF p = PCP THEN Reserved ELSE p]
  /\ OSRdyTbl = Task \cup {IdlePrio}
  /\ OSPrioCur = Highest(OSRdyTbl) /\ OSTCBCur = OSPrioCur
  /\ OSTCBPrio = [t \in Task |-> t]
  /\ OSTCBStat = [t \in Task |-> "RDY"] /\ OSTCBStatPend = [t \in Task |-> "OK"]
  /\ OSTCBDly = [t \in Task |-> 0]
  /\ OSEventType = "MUTEX" /\ OSOwnerPrio = NoTask /\ OSEventPtr = NoTask /\ OSEventTbl = {}
  /\ pc = [t \in Task |-> "app"]
  /\ holds = {}

(***************************************************************************)
(* Scheduler and tick.                                                     *)
(***************************************************************************)
\* Mutant: the processor is switched to a more urgent task only, as if the running one
\* never went to sleep or lost the ceiling.
SwitchUpward(high) ==
  IF high < OSPrioCur THEN OSPrioCur' = high /\ OSTCBCur' = OSTCBPrioTbl[high]
  ELSE UNCHANGED <<OSPrioCur, OSTCBCur>>

\* The processor is switched only if the priority found is not the current one.
Switch(high) ==
  /\ OSPrioCur' = high
  /\ OSTCBCur' = IF high = OSPrioCur THEN OSTCBCur ELSE OSTCBPrioTbl[high]

OS_Sched(t) ==
  /\ OSTCBCur = t /\ pc[t] \in {"sched", "pendSched"}
  /\ Switch(Highest(OSRdyTbl))
  /\ Goto(t, IF pc[t] = "sched" THEN "app" ELSE "pended")
  /\ UNCHANGED <<OSTCBPrioTbl, OSRdyTbl, OSTCBPrio, tcbVars, ecbVars, holds>>

Elapsed == {t \in Task : OSTCBDly[t] = 1}

\* A task is made ready at the priority it has when its time is up.
Tick ==
  /\ OSTCBDly' = [t \in Task |-> IF OSTCBDly[t] > 0 THEN OSTCBDly[t] - 1 ELSE 0]
  /\ OSTCBStat' = [t \in Task |-> IF t \in Elapsed THEN "RDY" ELSE OSTCBStat[t]]
  /\ OSTCBStatPend' = [t \in Task |->
       IF t \in Elapsed THEN IF OSTCBStat[t] = "MUTEX" THEN "TO" ELSE "OK"
       ELSE OSTCBStatPend[t]]
  /\ OSRdyTbl' = OSRdyTbl \cup {OSTCBPrio[t] : t \in Elapsed}
  /\ Switch(Highest(OSRdyTbl'))
  /\ UNCHANGED <<OSTCBPrioTbl, OSTCBPrio, ecbVars, pc, holds>>

\* ticks > 0; OSTimeDly(0) returns at once.
OSTimeDly(t, ticks) ==
  /\ At(t, "app") /\ ticks > 0
  /\ OwnerDelays \/ OSEventPtr # t
  /\ OSRdyTbl' = OSRdyTbl \ {OSTCBPrio[t]}
  /\ OSTCBDly' = [OSTCBDly EXCEPT ![t] = ticks]
  /\ Goto(t, "sched")
  /\ UNCHANGED <<OSTCBPrioTbl, OSPrioCur, OSTCBCur, OSTCBPrio, OSTCBStat, OSTCBStatPend, ecbVars, holds>>

(***************************************************************************)
(* OSMutexPend() and OSMutexAccept().  The owner does not pend on its own  *)
(* mutex, nor on anything else (Note 1 of OSMutexPend()), so that an owner *)
(* to be promoted is in no wait list.                                      *)
(***************************************************************************)
Take(t) ==
  /\ OSOwnerPrio = NoTask
  /\ OSOwnerPrio' = OSTCBPrio[t] /\ OSEventPtr' = t
  /\ holds' = holds \cup {t}
  /\ UNCHANGED <<OSTCBPrioTbl, OSRdyTbl, OSPrioCur, OSTCBCur, OSTCBPrio, tcbVars,
                 OSEventType, OSEventTbl, pc>>

\* Mutant: the owner is never promoted.
NeverPromoted(t) == FALSE

\* The owner is less urgent than t and not promoted yet.
ToPromote(t) == OSTCBPrio[OSEventPtr] > PCP /\ OSOwnerPrio > OSTCBPrio[t]

\* Mutant: a ready owner stays ready at its old priority.
ReadyAsBefore(S) == S

\* What is ready at the old priority of the owner becomes ready at the ceiling.
Promoted(S) ==
  IF OSTCBPrio[OSEventPtr] \in S THEN (S \ {OSTCBPrio[OSEventPtr]}) \cup {PCP} ELSE S

PendWait(t, timeout) ==
  /\ OSOwnerPrio # NoTask
  /\ IF ToPromote(t)
     THEN /\ OSRdyTbl' = Promoted(OSRdyTbl) \ {OSTCBPrio[t]}
          /\ OSTCBPrio' = [OSTCBPrio EXCEPT ![OSEventPtr] = PCP]
          /\ OSTCBPrioTbl' = [OSTCBPrioTbl EXCEPT ![PCP] = OSEventPtr]
     ELSE OSRdyTbl' = OSRdyTbl \ {OSTCBPrio[t]} /\ UNCHANGED <<OSTCBPrio, OSTCBPrioTbl>>
  /\ OSTCBStat' = [OSTCBStat EXCEPT ![t] = "MUTEX"]
  /\ OSTCBStatPend' = [OSTCBStatPend EXCEPT ![t] = "OK"]
  /\ OSTCBDly' = [OSTCBDly EXCEPT ![t] = timeout]
  /\ OSEventTbl' = OSEventTbl \cup {OSTCBPrio[t]}
  /\ Goto(t, "pendSched")
  /\ UNCHANGED <<OSPrioCur, OSTCBCur, OSEventType, OSOwnerPrio, OSEventPtr, holds>>

OSMutexPend(t, timeout) ==
  /\ At(t, "app") /\ t \in User /\ OSEventType = "MUTEX" /\ OSEventPtr # t
  /\ Take(t) \/ PendWait(t, timeout)

OSMutexAccept(t) ==
  /\ At(t, "app") /\ t \in User /\ OSEventType = "MUTEX"
  /\ Take(t)

PendReturn(t) ==
  /\ At(t, "pended")
  /\ IF OSTCBStatPend[t] = "OK"
     THEN holds' = holds \cup {t} /\ UNCHANGED OSEventTbl
     ELSE OSEventTbl' = OSEventTbl \ {OSTCBPrio[t]} /\ UNCHANGED holds
  /\ OSTCBStat' = [OSTCBStat EXCEPT ![t] = "RDY"]
  /\ OSTCBStatPend' = [OSTCBStatPend EXCEPT ![t] = "OK"]
  /\ Goto(t, "app")
  /\ UNCHANGED <<OSTCBPrioTbl, OSRdyTbl, OSPrioCur, OSTCBCur, OSTCBPrio, OSTCBDly,
                 OSEventType, OSOwnerPrio, OSEventPtr>>

(***************************************************************************)
(* OSMutexPost() and OSMutexDel().                                         *)
(***************************************************************************)
\* The ready list after OSMutex_RdyAtPrio(t, OSOwnerPrio), which also sets OSPrioCur;
\* OSTCBPrioTbl has named t at that priority all the while.
Restored(t) == (OSRdyTbl \ {OSTCBPrio[t]}) \cup {OSOwnerPrio}

RdyAtPrio(t, readied) ==
  /\ OSRdyTbl' = Restored(t) \cup readied
  /\ OSTCBPrio' = [OSTCBPrio EXCEPT ![t] = OSOwnerPrio]
  /\ OSPrioCur' = OSOwnerPrio

\* Mutant: a post leaves the mark of a timeout that it overtakes.
ReadiedKeepsMark(S) ==
  /\ OSTCBDly' = [t \in Task |-> IF t \in S THEN 0 ELSE OSTCBDly[t]]
  /\ OSTCBStat' = [t \in Task |-> IF t \in S THEN "RDY" ELSE OSTCBStat[t]]
  /\ UNCHANGED OSTCBStatPend

\* OS_EventTaskRdy() for the tasks in S.
Readied(S) ==
  /\ OSTCBDly' = [t \in Task |-> IF t \in S THEN 0 ELSE OSTCBDly[t]]
  /\ OSTCBStat' = [t \in Task |-> IF t \in S THEN "RDY" ELSE OSTCBStat[t]]
  /\ OSTCBStatPend' = [t \in Task |-> IF t \in S THEN "OK" ELSE OSTCBStatPend[t]]

\* The waiter a post hands the mutex to, as a priority.
FirstOf(S) == IF S = {} THEN {} ELSE {Highest(S)}

OSMutexPost(t) ==
  /\ At(t, "app") /\ OSEventType = "MUTEX" /\ OSEventPtr = t
  /\ IF OSTCBPrio[t] = PCP
     THEN RdyAtPrio(t, FirstOf(OSEventTbl))
     ELSE OSRdyTbl' = OSRdyTbl \cup FirstOf(OSEventTbl) /\ UNCHANGED <<OSTCBPrio, OSPrioCur>>
  /\ OSTCBPrioTbl' = [OSTCBPrioTbl EXCEPT ![PCP] = Reserved]
  /\ Readied({OSTCBPrioTbl[p] : p \in FirstOf(OSEventTbl)})
  /\ OSEventTbl' = OSEventTbl \ FirstOf(OSEventTbl)
  /\ IF OSEventTbl = {}
     THEN OSOwnerPrio' = NoTask /\ OSEventPtr' = NoTask /\ UNCHANGED pc
     ELSE /\ OSOwnerPrio' = Highest(OSEventTbl)
          /\ OSEventPtr' = OSTCBPrioTbl[Highest(OSEventTbl)]
          /\ Goto(t, "sched")
  /\ holds' = holds \ {t}
  /\ UNCHANGED <<OSTCBCur, OSEventType>>

\* Any task, by OS_DEL_ALWAYS; the owner is assumed to be ready (Note 4).
OSMutexDel(t) ==
  /\ At(t, "app") /\ OSEventType = "MUTEX"
  /\ OSEventPtr # NoTask => OSTCBDly[OSEventPtr] = 0
  /\ IF OSEventPtr # NoTask /\ OSTCBPrio[OSEventPtr] = PCP
     THEN RdyAtPrio(OSEventPtr, OSEventTbl)
     ELSE OSRdyTbl' = OSRdyTbl \cup OSEventTbl /\ UNCHANGED <<OSTCBPrio, OSPrioCur>>
  /\ OSTCBPrioTbl' = [OSTCBPrioTbl EXCEPT ![PCP] = NoTask]
  /\ Readied({OSTCBPrioTbl[p] : p \in OSEventTbl})
  /\ OSEventType' = "UNUSED" /\ OSOwnerPrio' = NoTask /\ OSEventPtr' = NoTask /\ OSEventTbl' = {}
  /\ Goto(t, IF OSEventTbl = {} THEN "app" ELSE "sched")
  /\ UNCHANGED <<OSTCBCur, holds>>

\* By OS_DEL_NO_PEND, which leaves the owner at the priority it has.
OSMutexDelNoPend(t) ==
  /\ At(t, "app") /\ OSEventType = "MUTEX" /\ OSEventTbl = {}
  /\ OSTCBPrioTbl' = [OSTCBPrioTbl EXCEPT ![PCP] = NoTask]
  /\ OSEventType' = "UNUSED" /\ OSOwnerPrio' = NoTask /\ OSEventPtr' = NoTask
  /\ UNCHANGED <<OSRdyTbl, OSPrioCur, OSTCBCur, OSTCBPrio, tcbVars, OSEventTbl, pc, holds>>

Service(t) ==
  \/ OS_Sched(t) \/ PendReturn(t)
  \/ OSMutexAccept(t) \/ OSMutexPost(t) \/ OSMutexDel(t) \/ OSMutexDelNoPend(t)
  \/ \E n \in 0..MaxTimeout : OSMutexPend(t, n) \/ OSTimeDly(t, n)

Next == Tick \/ \E t \in Task : Service(t)

Spec == Init /\ [][Next]_vars

(***************************************************************************)
(* Properties.                                                             *)
(***************************************************************************)
\* Code outside OS_Sched() is run by the most urgent ready task only, and the kernel
\* knows its priority, although posts, deletions and promotions change priorities and
\* ready lists under the feet of whoever runs.
RunsHighest ==
  OSTCBCur \in Task /\ pc[OSTCBCur] \in {"app", "pended"} =>
    OSPrioCur = Highest(OSRdyTbl) /\ OSTCBPrio[OSTCBCur] = OSPrioCur

\* No priority inversion: while a task is blocked on the mutex, the only task less
\* urgent than it that runs is the owner, whoever came, timed out or was handed the
\* mutex before.
NoInversion ==
  \A w \in Task :
    OSTCBStat[w] = "MUTEX" /\ OSTCBCur \in Task /\ pc[OSTCBCur] \in {"app", "pended"} =>
      OSTCBCur = OSEventPtr \/ OSTCBPrio[OSTCBCur] < w

\* The mutex is the abstract lock: one owner, handed to the most urgent waiter, and a
\* wait reports success exactly if its task owns it, even when the post overtakes the
\* timeout.
Abstract == INSTANCE PriorityLock WITH exists <- OSEventType = "MUTEX", owner <- OSEventPtr,
                                       holds <- holds, waiting <- OSEventTbl
ImplementsLock == Abstract!Spec

TypeOK ==
  /\ OSTCBPrioTbl \in [Prio -> Prio \cup {Reserved, NoTask}]
  /\ OSRdyTbl \subseteq Prio /\ OSPrioCur \in Prio /\ OSTCBCur \in Task \cup {IdlePrio}
  /\ OSTCBPrio \in [Task -> Task \cup {PCP}]
  /\ OSTCBStat \in [Task -> {"RDY", "MUTEX"}] /\ OSTCBStatPend \in [Task -> {"OK", "TO"}]
  /\ OSTCBDly \in [Task -> Nat]
  /\ OSEventType \in {"MUTEX", "UNUSED"}
  /\ OSEventPtr \in User \cup {NoTask} /\ OSEventTbl \subseteq User
  /\ pc \in [Task -> {"app", "sched", "pendSched", "pended"}]
  /\ holds \subseteq Task

\* t runs at the ceiling.
AtCeiling(t) == t = OSEventPtr /\ OSTCBPrio[t] = PCP /\ OSTCBPrioTbl[PCP] = t

\* The tables name every task at the priority it has.
TablesAgree ==
  /\ \A p \in Task \cup {IdlePrio} : OSTCBPrioTbl[p] = p
  /\ \A t \in Task : OSTCBPrio[t] = t \/ AtCeiling(t)
  /\ IdlePrio \in OSRdyTbl /\ OSRdyTbl \subseteq {OSTCBPrio[t] : t \in Task} \cup {IdlePrio}
  /\ \A t \in Task : OSTCBPrio[t] \in OSRdyTbl <=> OSTCBStat[t] = "RDY" /\ OSTCBDly[t] = 0

\* One task on its way through OSMutexPend(): blocked, timed out, or handed the mutex.
Inside(t) == pc[t] \in {"pendSched", "pended"}

WaitStatus(t) ==
  /\ t \in OSEventTbl <=> OSTCBStat[t] = "MUTEX" \/ OSTCBStatPend[t] = "TO"
  /\ t \in OSEventTbl => Inside(t) /\ OSEventPtr \notin {t, NoTask}
  /\ OSTCBStat[t] = "MUTEX" => OSTCBStatPend[t] = "OK"
  /\ Inside(t) /\ OSTCBStat[t] = "RDY" => OSTCBDly[t] = 0
  /\ Inside(t) /\ t \notin OSEventTbl /\ OSEventType = "MUTEX" => OSEventPtr = t

\* The owner is ready, as urgent as all who wait, and at the ceiling only while
\* somebody waits.
OwnerStatus ==
  /\ OSOwnerPrio = OSEventPtr
  /\ OSEventType = "UNUSED" => OSEventPtr = NoTask
  /\ OSEventPtr # NoTask =>
       /\ OSTCBStat[OSEventPtr] = "RDY" /\ OSTCBDly[OSEventPtr] = 0
       /\ \A w \in OSEventTbl : OSTCBPrio[OSEventPtr] <= w
       /\ OSTCBPrio[OSEventPtr] = PCP => OSEventTbl # {}
       /\ Inside(OSEventPtr) \/ OSEventPtr \in holds
  /\ OSEventType = "MUTEX" => holds \subseteq {OSEventPtr}

\* OSPrioCur is wrong only after another task has deleted the mutex of a promoted
\* owner, which is more urgent than that owner and calls OS_Sched() next.
CurrentStatus ==
  /\ OSTCBCur = IdlePrio => OSPrioCur = IdlePrio
  /\ OSTCBCur \in Task /\ OSPrioCur # OSTCBPrio[OSTCBCur] =>
       /\ pc[OSTCBCur] = "sched"
       /\ OSTCBPrio[OSTCBCur] \in OSRdyTbl /\ OSTCBPrio[OSTCBCur] < OSPrioCur

\* The inductive invariant, if the owner does not delay: only the owner, which is
\* ready, is ever at the ceiling, so nobody who waits can run and leave it there.
MutexInv ==
  /\ TypeOK /\ TablesAgree /\ OwnerStatus /\ CurrentStatus /\ RunsHighest
  /\ \A t \in Task : WaitStatus(t)

\* The inductive invariant whether the owner delays or not, until the mutex is deleted,
\* and all that PriorityLock needs: OSPrioCur is the priority of the running task, which
\* is ready, and the owner, ready or not, is the one task that has been told so, or is on
\* its way out of OSMutexPend().
CurrentReady ==
  /\ OSTCBCur = IdlePrio => OSPrioCur = IdlePrio
  /\ OSTCBCur \in Task =>
       /\ OSPrioCur = OSTCBPrio[OSTCBCur]
       /\ pc[OSTCBCur] \in {"app", "pended"} => OSPrioCur \in OSRdyTbl

OwnerTold ==
  /\ OSOwnerPrio = OSEventPtr
  /\ OSEventPtr # NoTask => Inside(OSEventPtr) \/ OSEventPtr \in holds
  /\ holds \subseteq {OSEventPtr}

LockInv ==
  /\ OSEventType \in {"MUTEX", "UNUSED"}
  /\ OSEventType = "MUTEX" =>
       /\ TypeOK /\ TablesAgree /\ CurrentReady /\ OwnerTold
       /\ \A t \in Task : WaitStatus(t)

\* What the comment of os_mutex.c:745, "The current task is now at this priority", says
\* of OSPrioCur after OSMutex_RdyAtPrio().
CurrentAtPrio ==
  OSTCBCur \in Task /\ pc[OSTCBCur] = "app" => OSPrioCur = OSTCBPrio[OSTCBCur]
=============================================================================
