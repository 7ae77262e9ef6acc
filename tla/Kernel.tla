------------------------------- MODULE Kernel -------------------------------
(***************************************************************************)
(* The part of uC/OS-II v2.92 the firmware runs on: the ready list, the    *)
(* timer tick, delays, suspension and one mailbox.  A task is named by its *)
(* priority, as in OSTCBPrioTbl, and variables keep the kernel's names.    *)
(*                                                                         *)
(* One action is one critical section.  A service ends its critical        *)
(* section and then calls OS_Sched(), which opens another: in between the  *)
(* tick may come, so the two are separate actions and pc says where the    *)
(* task stands.  The tick may also come at any other point.                *)
(***************************************************************************)
EXTENDS Integers, FiniteSets

CONSTANTS Prio,        \* the priorities of the tasks that may be created
          IdlePrio,    \* OS_TASK_IDLE_PRIO
          StartPrio,   \* the task main() creates before OSStart()
          Msg,         \* messages, as opposed to NoMsg, the null pointer
          NoMsg,
          DeletesWaited, \* a mailbox may be deleted while tasks wait for it (OS_DEL_ALWAYS)
          MaxTimeout   \* bound on the ticks a caller asks for

ASSUME PrioAssumption ==
  /\ Prio \subseteq Nat /\ StartPrio \in Prio
  /\ IdlePrio \in Nat /\ \A p \in Prio : p < IdlePrio
ASSUME MsgAssumption == NoMsg \notin Msg
ASSUME TimeoutAssumption == MaxTimeout \in Nat
ASSUME DeleteAssumption == DeletesWaited \in BOOLEAN

VARIABLES OSTCBPrioTbl,  \* the tasks that exist
          OSRdyTbl,      \* the ready list
          OSPrioCur,     \* the running task
          OSTCBStat,     \* what each task is blocked for: MBOX and SUSPEND bits
          OSTCBStatPend, \* how the wait of each task ended: OK, TO or ABORT
          OSTCBDly,      \* ticks left of each delay or timeout, 0 for none
          OSTCBMsg,      \* message handed to each task
          created,       \* OSMboxCreate() has returned the mailbox
          OSEventPtr,    \* the message in the mailbox, or NoMsg
          OSEventTbl,    \* the wait list of the mailbox
          pc,            \* app, or inside a service: sched, pendSched, pended
          got            \* what each task's last receiving call returned

mboxVars == <<created, OSEventPtr, OSEventTbl>>
tcbVars  == <<OSTCBStat, OSTCBStatPend, OSTCBDly, OSTCBMsg>>
kernelVars == <<OSTCBPrioTbl, OSRdyTbl, OSPrioCur, tcbVars, mboxVars, pc, got>>

\* OS_SchedNew() and OS_EventTaskRdy() find the smallest priority in a bitmap.
Highest(S) == CHOOSE p \in S : \A q \in S : p <= q

\* t runs and stands at l.
At(t, l) == OSPrioCur = t /\ pc[t] = l

Goto(t, l) == pc' = [pc EXCEPT ![t] = l]

(***************************************************************************)
(* main() has created the start task and called OSStart().                 *)
(***************************************************************************)
KernelInit ==
  /\ OSTCBPrioTbl = {StartPrio}
  /\ OSRdyTbl = {StartPrio, IdlePrio}
  /\ OSPrioCur = StartPrio
  /\ OSTCBStat = [p \in Prio |-> {}]
  /\ OSTCBStatPend = [p \in Prio |-> "OK"]
  /\ OSTCBDly = [p \in Prio |-> 0]
  /\ OSTCBMsg = [p \in Prio |-> NoMsg]
  /\ created = FALSE
  /\ OSEventPtr = NoMsg
  /\ OSEventTbl = {}
  /\ pc = [p \in Prio |-> "app"]
  /\ got = [p \in Prio |-> NoMsg]

(***************************************************************************)
(* The scheduler, from a task and from the timer interrupt.                *)
(***************************************************************************)
OS_Sched(t) ==
  /\ OSPrioCur = t /\ pc[t] \in {"sched", "pendSched"}
  /\ OSPrioCur' = Highest(OSRdyTbl)
  /\ Goto(t, IF pc[t] = "sched" THEN "app" ELSE "pended")
  /\ UNCHANGED <<OSTCBPrioTbl, OSRdyTbl, tcbVars, mboxVars, got>>

\* The tasks whose delay ends with this tick.
Elapsed == {p \in OSTCBPrioTbl : OSTCBDly[p] = 1}

\* Mutant: a suspended task is made ready.
EvenSuspended(S) == S

Unsuspended(S) == {p \in S : "SUSPEND" \notin OSTCBStat[p]}

\* The wait or delay of the tasks in S is over because its time is.
TimeUp(S) ==
  /\ OSTCBStat' = [p \in Prio |-> IF p \in S THEN OSTCBStat[p] \ {"MBOX"} ELSE OSTCBStat[p]]
  /\ OSTCBStatPend' = [p \in Prio |->
       IF p \in S THEN IF "MBOX" \in OSTCBStat[p] THEN "TO" ELSE "OK"
       ELSE OSTCBStatPend[p]]
  /\ OSRdyTbl' = OSRdyTbl \cup Unsuspended(S)

\* Mutant: OSIntExit() does not reschedule.
TickKeepsTask ==
  /\ OSTCBDly' = [p \in Prio |-> IF OSTCBDly[p] > 0 THEN OSTCBDly[p] - 1 ELSE 0]
  /\ TimeUp(Elapsed)
  /\ UNCHANGED <<OSTCBPrioTbl, OSPrioCur, OSTCBMsg, mboxVars, pc, got>>

\* SysTick_Handler(): OSTimeTick(), then OSIntExit() reschedules.
Tick ==
  /\ OSTCBDly' = [p \in Prio |-> IF OSTCBDly[p] > 0 THEN OSTCBDly[p] - 1 ELSE 0]
  /\ TimeUp(Elapsed)
  /\ OSPrioCur' = Highest(OSRdyTbl')
  /\ UNCHANGED <<OSTCBPrioTbl, OSTCBMsg, mboxVars, pc, got>>

(***************************************************************************)
(* Mailbox services.                                                       *)
(***************************************************************************)
\* Mutant: a post leaves the mark of a timeout that it overtakes.
EventTaskRdyKeepsMark(S, m, st) ==
  /\ OSTCBDly' = [p \in Prio |-> IF p \in S THEN 0 ELSE OSTCBDly[p]]
  /\ OSTCBMsg' = [p \in Prio |-> IF p \in S THEN m ELSE OSTCBMsg[p]]
  /\ OSTCBStat' = [p \in Prio |-> IF p \in S THEN OSTCBStat[p] \ {"MBOX"} ELSE OSTCBStat[p]]
  /\ UNCHANGED OSTCBStatPend
  /\ OSRdyTbl' = OSRdyTbl \cup Unsuspended(S)
  /\ OSEventTbl' = OSEventTbl \ S

\* The tasks in S leave the wait list, each with message m and outcome st.
OS_EventTaskRdy(S, m, st) ==
  /\ OSTCBDly' = [p \in Prio |-> IF p \in S THEN 0 ELSE OSTCBDly[p]]
  /\ OSTCBMsg' = [p \in Prio |-> IF p \in S THEN m ELSE OSTCBMsg[p]]
  /\ OSTCBStat' = [p \in Prio |-> IF p \in S THEN OSTCBStat[p] \ {"MBOX"} ELSE OSTCBStat[p]]
  /\ OSTCBStatPend' = [p \in Prio |-> IF p \in S THEN st ELSE OSTCBStatPend[p]]
  /\ OSRdyTbl' = OSRdyTbl \cup Unsuspended(S)
  /\ OSEventTbl' = OSEventTbl \ S

OSMboxCreate(t) ==
  /\ At(t, "app") /\ ~created
  /\ created' = TRUE
  /\ UNCHANGED <<OSTCBPrioTbl, OSRdyTbl, OSPrioCur, tcbVars, OSEventPtr, OSEventTbl, pc, got>>

\* Mutant: the message is returned and stays in the mailbox.
TakeNowKeeps(t) ==
  /\ got' = [got EXCEPT ![t] = OSEventPtr]
  /\ UNCHANGED <<OSTCBPrioTbl, OSRdyTbl, OSPrioCur, tcbVars, mboxVars, pc>>

\* OSMboxPend() on a null pointer, and OSMboxPend() or OSMboxAccept() that
\* does not wait: what the mailbox holds is returned at once.
TakeNow(t) ==
  /\ OSEventPtr' = NoMsg
  /\ got' = [got EXCEPT ![t] = OSEventPtr]
  /\ UNCHANGED <<OSTCBPrioTbl, OSRdyTbl, OSPrioCur, tcbVars, created, OSEventTbl, pc>>

OSMboxAccept(t) == At(t, "app") /\ TakeNow(t)

\* No message: the task enters the wait list; timeout 0 waits for ever.
PendWait(t, timeout) ==
  /\ OSTCBStat' = [OSTCBStat EXCEPT ![t] = @ \cup {"MBOX"}]
  /\ OSTCBStatPend' = [OSTCBStatPend EXCEPT ![t] = "OK"]
  /\ OSTCBDly' = [OSTCBDly EXCEPT ![t] = timeout]
  /\ OSEventTbl' = OSEventTbl \cup {t}
  /\ OSRdyTbl' = OSRdyTbl \ {t}
  /\ Goto(t, "pendSched")
  /\ UNCHANGED <<OSTCBPrioTbl, OSPrioCur, OSTCBMsg, created, OSEventPtr, got>>

OSMboxPend(t, timeout) ==
  /\ At(t, "app")
  /\ IF created /\ OSEventPtr = NoMsg THEN PendWait(t, timeout) ELSE TakeNow(t)

\* Mutant: the message stays in the task control block.
PendReturnKeeps(t) ==
  /\ At(t, "pended")
  /\ got' = [got EXCEPT ![t] = IF OSTCBStatPend[t] = "OK" THEN OSTCBMsg[t] ELSE NoMsg]
  /\ OSEventTbl' = IF OSTCBStatPend[t] = "TO" THEN OSEventTbl \ {t} ELSE OSEventTbl
  /\ OSTCBStat' = [OSTCBStat EXCEPT ![t] = {}]
  /\ OSTCBStatPend' = [OSTCBStatPend EXCEPT ![t] = "OK"]
  /\ Goto(t, "app")
  /\ UNCHANGED <<OSTCBPrioTbl, OSRdyTbl, OSPrioCur, OSTCBDly, OSTCBMsg, created, OSEventPtr>>

\* The task runs again: it was handed a message, aborted, or timed out.
PendReturn(t) ==
  /\ At(t, "pended")
  /\ got' = [got EXCEPT ![t] = IF OSTCBStatPend[t] = "OK" THEN OSTCBMsg[t] ELSE NoMsg]
  /\ OSEventTbl' = IF OSTCBStatPend[t] = "TO" THEN OSEventTbl \ {t} ELSE OSEventTbl
  /\ OSTCBStat' = [OSTCBStat EXCEPT ![t] = {}]
  /\ OSTCBStatPend' = [OSTCBStatPend EXCEPT ![t] = "OK"]
  /\ OSTCBMsg' = [OSTCBMsg EXCEPT ![t] = NoMsg]
  /\ Goto(t, "app")
  /\ UNCHANGED <<OSTCBPrioTbl, OSRdyTbl, OSPrioCur, OSTCBDly, created, OSEventPtr>>

\* Hand m to the most urgent waiter.
PostToWaiter(t, m) ==
  /\ OSEventTbl # {}
  /\ OS_EventTaskRdy({Highest(OSEventTbl)}, m, "OK")
  /\ Goto(t, "sched")
  /\ UNCHANGED <<OSTCBPrioTbl, OSPrioCur, created, OSEventPtr, got>>

\* Mutant: a full mailbox takes the new message instead of the old one.
PostOverwrites(m) ==
  /\ OSEventTbl = {}
  /\ OSEventPtr' = m
  /\ UNCHANGED <<OSTCBPrioTbl, OSRdyTbl, OSPrioCur, tcbVars, created, OSEventTbl, pc, got>>

\* Keep m, or OS_ERR_MBOX_FULL: m is dropped.
PostToSlot(m) ==
  /\ OSEventTbl = {}
  /\ OSEventPtr' = IF OSEventPtr = NoMsg THEN m ELSE OSEventPtr
  /\ UNCHANGED <<OSTCBPrioTbl, OSRdyTbl, OSPrioCur, tcbVars, created, OSEventTbl, pc, got>>

OSMboxPost(t, m) ==
  /\ At(t, "app") /\ created
  /\ PostToWaiter(t, m) \/ PostToSlot(m)

\* OS_POST_OPT_BROADCAST: every waiter is handed m.
PostToAll(t, m) ==
  /\ OSEventTbl # {}
  /\ OS_EventTaskRdy(OSEventTbl, m, "OK")
  /\ Goto(t, "sched")
  /\ UNCHANGED <<OSTCBPrioTbl, OSPrioCur, created, OSEventPtr, got>>

\* Without OS_POST_OPT_NO_SCHED, which leaves the scheduling to a later call.
OSMboxPostOpt(t, m) ==
  /\ At(t, "app") /\ created
  /\ PostToWaiter(t, m) \/ PostToAll(t, m) \/ PostToSlot(m)

\* OS_PEND_OPT_NONE aborts the most urgent waiter, _BROADCAST all of them.
OSMboxPendAbort(t) ==
  /\ At(t, "app") /\ OSEventTbl # {}
  /\ \E S \in {{Highest(OSEventTbl)}, OSEventTbl} : OS_EventTaskRdy(S, NoMsg, "ABORT")
  /\ Goto(t, "sched")
  /\ UNCHANGED <<OSTCBPrioTbl, OSPrioCur, created, OSEventPtr, got>>

\* The mailbox goes and what it holds with it.  Those who wait, which OS_DEL_NO_PEND
\* does not allow, are told that they have been handed a message.
OSMboxDel(t) ==
  /\ At(t, "app") /\ created
  /\ OSEventTbl = {} \/ DeletesWaited
  /\ created' = FALSE /\ OSEventPtr' = NoMsg
  /\ OS_EventTaskRdy(OSEventTbl, NoMsg, "OK")
  /\ Goto(t, IF OSEventTbl = {} THEN "app" ELSE "sched")
  /\ UNCHANGED <<OSTCBPrioTbl, OSPrioCur, got>>

(***************************************************************************)
(* Task and time services.                                                 *)
(***************************************************************************)
OSTaskCreate(t, p) ==
  /\ At(t, "app") /\ p \in Prio \ OSTCBPrioTbl
  /\ OSTCBPrioTbl' = OSTCBPrioTbl \cup {p}
  /\ OSRdyTbl' = OSRdyTbl \cup {p}
  /\ Goto(t, "sched")
  /\ UNCHANGED <<OSPrioCur, tcbVars, mboxVars, got>>

\* p leaves every list and, with it, the message it was handed; OS_TCBInit() clears the
\* rest when the block is used again.  A task that deletes itself is switched away from:
\* ticks before that, with the scheduler locked or not, switch to the same task.
OSTaskDel(t, p) ==
  /\ At(t, "app") /\ p \in OSTCBPrioTbl
  /\ OSTCBPrioTbl' = OSTCBPrioTbl \ {p}
  /\ OSRdyTbl' = OSRdyTbl \ {p}
  /\ OSEventTbl' = OSEventTbl \ {p}
  /\ OSTCBStat' = [OSTCBStat EXCEPT ![p] = {}]
  /\ OSTCBStatPend' = [OSTCBStatPend EXCEPT ![p] = "OK"]
  /\ OSTCBDly' = [OSTCBDly EXCEPT ![p] = 0]
  /\ OSTCBMsg' = [OSTCBMsg EXCEPT ![p] = NoMsg]
  /\ IF p = t THEN OSPrioCur' = Highest(OSRdyTbl') /\ UNCHANGED pc
     ELSE UNCHANGED OSPrioCur /\ pc' = [pc EXCEPT ![t] = "sched", ![p] = "app"]
  /\ UNCHANGED <<created, OSEventPtr, got>>

\* ticks > 0; OSTimeDly(0) returns at once.
OSTimeDly(t, ticks) ==
  /\ At(t, "app") /\ ticks > 0
  /\ OSRdyTbl' = OSRdyTbl \ {t}
  /\ OSTCBDly' = [OSTCBDly EXCEPT ![t] = ticks]
  /\ Goto(t, "sched")
  /\ UNCHANGED <<OSTCBPrioTbl, OSPrioCur, OSTCBStat, OSTCBStatPend, OSTCBMsg, mboxVars, got>>

\* The delay or the timed wait of p is cut short.
OSTimeDlyResume(t, p) ==
  /\ At(t, "app") /\ p \in OSTCBPrioTbl /\ OSTCBDly[p] > 0
  /\ OSTCBDly' = [OSTCBDly EXCEPT ![p] = 0]
  /\ TimeUp({p})
  /\ Goto(t, IF "SUSPEND" \in OSTCBStat[p] THEN "app" ELSE "sched")
  /\ UNCHANGED <<OSTCBPrioTbl, OSPrioCur, OSTCBMsg, mboxVars, got>>

\* OS_Sched() is called only by a task that suspends itself.
OSTaskSuspend(t, p) ==
  /\ At(t, "app") /\ p \in OSTCBPrioTbl
  /\ OSRdyTbl' = OSRdyTbl \ {p}
  /\ OSTCBStat' = [OSTCBStat EXCEPT ![p] = @ \cup {"SUSPEND"}]
  /\ Goto(t, IF p = t THEN "sched" ELSE "app")
  /\ UNCHANGED <<OSTCBPrioTbl, OSPrioCur, OSTCBStatPend, OSTCBDly, OSTCBMsg, mboxVars, got>>

\* Mutant: the delay that goes on is forgotten.
ResumeDelayed(t, p) ==
  /\ At(t, "app") /\ p \in OSTCBPrioTbl /\ "SUSPEND" \in OSTCBStat[p]
  /\ OSTCBStat' = [OSTCBStat EXCEPT ![p] = @ \ {"SUSPEND"}]
  /\ OSRdyTbl' = IF OSTCBStat[p] = {"SUSPEND"} THEN OSRdyTbl \cup {p} ELSE OSRdyTbl
  /\ Goto(t, "sched")
  /\ UNCHANGED <<OSTCBPrioTbl, OSPrioCur, OSTCBStatPend, OSTCBDly, OSTCBMsg, mboxVars, got>>

\* p becomes ready unless it still waits or delays.
OSTaskResume(t, p) ==
  /\ At(t, "app") /\ p \in OSTCBPrioTbl /\ "SUSPEND" \in OSTCBStat[p]
  /\ OSTCBStat' = [OSTCBStat EXCEPT ![p] = @ \ {"SUSPEND"}]
  /\ IF OSTCBStat[p] = {"SUSPEND"} /\ OSTCBDly[p] = 0
     THEN OSRdyTbl' = OSRdyTbl \cup {p} /\ Goto(t, "sched")
     ELSE UNCHANGED <<OSRdyTbl, pc>>
  /\ UNCHANGED <<OSTCBPrioTbl, OSPrioCur, OSTCBStatPend, OSTCBDly, OSTCBMsg, mboxVars, got>>

(***************************************************************************)
(* Every task may call every service; the idle task calls none.            *)
(***************************************************************************)
Service(t) ==
  \/ OSMboxCreate(t) \/ OSMboxDel(t) \/ OSMboxAccept(t) \/ OSMboxPendAbort(t) \/ PendReturn(t)
  \/ OS_Sched(t)
  \/ \E n \in 0..MaxTimeout : OSMboxPend(t, n) \/ OSTimeDly(t, n)
  \/ \E m \in Msg : OSMboxPost(t, m) \/ OSMboxPostOpt(t, m)
  \/ \E p \in Prio : \/ OSTaskCreate(t, p) \/ OSTaskDel(t, p) \/ OSTimeDlyResume(t, p)
                     \/ OSTaskSuspend(t, p) \/ OSTaskResume(t, p)

KernelNext == Tick \/ \E t \in OSTCBPrioTbl : Service(t)

KernelSpec == KernelInit /\ [][KernelNext]_kernelVars

(***************************************************************************)
(* Properties.                                                             *)
(***************************************************************************)
\* The shape of the state: the bits, outcomes and places each variable holds.
KernelTypeOK ==
  /\ OSTCBPrioTbl \subseteq Prio
  /\ OSRdyTbl \subseteq Prio \cup {IdlePrio}
  /\ OSPrioCur \in Prio \cup {IdlePrio}
  /\ OSTCBStat \in [Prio -> SUBSET {"MBOX", "SUSPEND"}]
  /\ OSTCBStatPend \in [Prio -> {"OK", "TO", "ABORT"}]
  /\ OSTCBDly \in [Prio -> Nat]
  /\ OSTCBMsg \in [Prio -> Msg \cup {NoMsg}]
  /\ created \in BOOLEAN
  /\ OSEventPtr \in Msg \cup {NoMsg}
  /\ OSEventTbl \subseteq Prio
  /\ pc \in [Prio -> {"app", "sched", "pendSched", "pended"}]
  /\ got \in [Prio -> Msg \cup {NoMsg}]

\* Preemption is strict: code outside a service's call to OS_Sched() is only
\* ever executed by the most urgent task that is ready.
RunsHighest ==
  (OSPrioCur = IdlePrio \/ pc[OSPrioCur] \in {"app", "pended"})
     => OSPrioCur = Highest(OSRdyTbl)

\* The ready list, the status bits and the delay of a task agree, whichever of
\* the tick, a post, an abort, a resume or a suspension came first.
ReadyIffUnblocked ==
  \A p \in Prio : p \in OSRdyTbl <=>
     p \in OSTCBPrioTbl /\ OSTCBStat[p] = {} /\ OSTCBDly[p] = 0

\* A message stays in the mailbox only while nobody waits: a task that waits
\* while a message lies there would sleep on although its event has come.
MboxExclusive == OSEventPtr # NoMsg => OSEventTbl = {}

\* A task is in the wait list exactly while it blocks on the mailbox or has timed
\* out and not run since: a post in that gap still finds it.
WaitListExact ==
  \A p \in Prio : p \in OSEventTbl <=> "MBOX" \in OSTCBStat[p] \/ OSTCBStatPend[p] = "TO"

\* OSMboxPend() reports success only with a message, and never drops one that was
\* handed over, even when the post overtakes the timeout (os_mbox.c:335).
PendOutcome ==
  \A t \in Prio : At(t, "pended") => (OSTCBStatPend[t] = "OK" <=> OSTCBMsg[t] # NoMsg)

\* A task that came out of OSMboxPend() left nothing behind: no message that a
\* later call would return again, no place in the wait list.
NothingLeftBehind ==
  \A t \in Prio : pc[t] \in {"app", "sched"} => OSTCBMsg[t] = NoMsg /\ t \notin OSEventTbl

\* What os_mbox.c:267 says of OSMboxPend(): OS_ERR_NONE, "The call was successful and your
\* task received a message."
NoneMeansMessage ==
  \A t \in Prio : At(t, "pended") /\ OSTCBStatPend[t] = "OK" => OSTCBMsg[t] # NoMsg

\* p is inside OSMboxPend(), past the critical section that made it wait.
Inside(p) == pc[p] \in {"pendSched", "pended"}

\* One task on its way through OSMboxPend(): blocked, or woken with a message, by
\* an abort, by the timeout.
PendStatus(p) ==
  /\ ~ Inside(p) =>
       "MBOX" \notin OSTCBStat[p] /\ OSTCBStatPend[p] = "OK" /\ OSTCBMsg[p] = NoMsg
  /\ "MBOX" \in OSTCBStat[p] => OSTCBStatPend[p] = "OK" /\ OSTCBMsg[p] = NoMsg
  /\ OSTCBStatPend[p] # "OK" => OSTCBMsg[p] = NoMsg
  /\ Inside(p) /\ "MBOX" \notin OSTCBStat[p] =>
       OSTCBDly[p] = 0 /\ (OSTCBStatPend[p] = "OK" => OSTCBMsg[p] # NoMsg \/ DeletesWaited)

\* The inductive invariant of the kernel.  RunsHighest and ReadyIffUnblocked make
\* the running task unblocked, PendStatus says how it may have come to run.
KernelInv ==
  /\ KernelTypeOK
  /\ IdlePrio \in OSRdyTbl
  /\ OSPrioCur \in OSTCBPrioTbl \cup {IdlePrio}
  /\ \A p \in Prio \ OSTCBPrioTbl : OSTCBStat[p] = {} /\ OSTCBDly[p] = 0 /\ pc[p] = "app"
  /\ \A p \in Prio : PendStatus(p)
  /\ RunsHighest /\ ReadyIffUnblocked /\ MboxExclusive /\ WaitListExact

\* The mailbox is the abstract one: nothing lost once accepted, nothing returned
\* twice, the most urgent waiter first.
Abstract == INSTANCE Mailbox WITH slot <- OSEventPtr, held <- OSTCBMsg,
                                  waiting <- OSEventTbl, got <- got
ImplementsMailbox == Abstract!Spec
=============================================================================
