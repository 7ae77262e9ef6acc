---------------------------- MODULE KernelProofs ----------------------------
(***************************************************************************)
(* The safety of the kernel for any set of tasks, messages and timeouts:   *)
(* an inductive invariant, the properties of Kernel it implies, and the    *)
(* implementation of Mailbox.                                              *)
(***************************************************************************)
EXTENDS Kernel, TLAPS, WellFoundedInduction

(***************************************************************************)
(* What Highest() returns.                                                 *)
(***************************************************************************)
\* The bitmap search returns a member, and none is more urgent.
LEMMA HighestMember ==
  ASSUME NEW S \in SUBSET Nat, S # {}
  PROVE  Highest(S) \in S /\ \A q \in S : Highest(S) <= q
<1> DEFINE LT == {ss \in Nat \X Nat : ss[1] < ss[2]}
<1>1. IsWellFoundedOn(LT, Nat)
  <2>1. OpToRel(<, Nat) = LT
    BY Zenon DEF OpToRel
  <2> QED BY <2>1, NatLessThanWellFounded
<1>2. PICK x \in S : \A q \in S : ~ (<<q, x>> \in LT)
  <2> HIDE DEF LT
  <2> QED BY <1>1, WFMin
<1>3. ASSUME NEW q \in S PROVE x <= q
  <2>1. <<q, x>> \in Nat \X Nat /\ <<q, x>>[1] = q /\ <<q, x>>[2] = x
    OBVIOUS
  <2>2. ~ (q < x)
    BY <1>2, <2>1, Zenon
  <2> QED BY <2>2
<1> QED BY <1>3 DEF Highest

\* There is only one most urgent task.
LEMMA HighestUnique ==
  ASSUME NEW S \in SUBSET Nat, NEW x \in S, \A q \in S : x <= q
  PROVE  Highest(S) = x
<1>1. Highest(S) \in S /\ Highest(S) <= x
  <2>1. S # {}
    OBVIOUS
  <2> QED BY <2>1, HighestMember
<1>2. Highest(S) \in Nat /\ x \in Nat /\ x <= Highest(S)
  BY <1>1
<1> HIDE DEF Highest
<1> QED BY <1>1, <1>2

(***************************************************************************)
(* What the invariant says of the ready list and of a task that runs code. *)
(***************************************************************************)
\* The ready list holds priorities, the idle task's among them.
LEMMA ReadyShape ==
  ASSUME KernelInv
  PROVE  /\ OSRdyTbl \in SUBSET Nat /\ OSRdyTbl # {}
         /\ OSRdyTbl \subseteq OSTCBPrioTbl \cup {IdlePrio}
         /\ IdlePrio \notin Prio
BY PrioAssumption DEF KernelInv, KernelTypeOK, ReadyIffUnblocked

\* A task that executes its own code is ready and blocked for nothing.
LEMMA RunningReady ==
  ASSUME KernelInv, NEW t \in Prio, OSPrioCur = t, pc[t] \in {"app", "pended"}
  PROVE  /\ t = Highest(OSRdyTbl) /\ t \in OSRdyTbl /\ t \in OSTCBPrioTbl
         /\ OSTCBStat[t] = {} /\ OSTCBDly[t] = 0
         /\ \A q \in OSRdyTbl : t <= q
<1>1. t = Highest(OSRdyTbl)
  BY DEF KernelInv, RunsHighest
<1>2. t \in OSRdyTbl /\ \A q \in OSRdyTbl : t <= q
  BY <1>1, ReadyShape, HighestMember
<1> QED BY <1>1, <1>2 DEF KernelInv, ReadyIffUnblocked

(***************************************************************************)
(* Each action keeps the invariant.                                        *)
(***************************************************************************)
\* The state main() leaves for the scheduler.
LEMMA KernelInitInv == KernelInit => KernelInv
<1> SUFFICES ASSUME KernelInit PROVE KernelInv
  OBVIOUS
<1>1. StartPrio \in OSRdyTbl /\ \A q \in OSRdyTbl : StartPrio <= q
  BY PrioAssumption DEF KernelInit
<1>2. OSRdyTbl \in SUBSET Nat
  BY PrioAssumption DEF KernelInit
<1>3. Highest(OSRdyTbl) = StartPrio
  BY <1>1, <1>2, HighestUnique
<1>4. KernelTypeOK
  BY PrioAssumption DEF KernelInit, KernelTypeOK
<1>5. RunsHighest
  BY <1>3 DEF KernelInit, RunsHighest
<1>6. ReadyIffUnblocked /\ MboxExclusive /\ WaitListExact
  BY PrioAssumption DEF KernelInit, ReadyIffUnblocked, MboxExclusive, WaitListExact
<1> QED BY <1>4, <1>5, <1>6 DEF KernelInit, KernelInv, PendStatus, Inside

\* The scheduler changes nothing but who runs.
LEMMA SchedInv ==
  ASSUME KernelInv, NEW t \in Prio, OS_Sched(t)
  PROVE  KernelInv'
<1> USE DEF OS_Sched, Goto, tcbVars, mboxVars
<1>1. OSPrioCur' \in OSRdyTbl
  BY ReadyShape, HighestMember
<1>2. OSPrioCur' \in OSTCBPrioTbl \cup {IdlePrio}
  BY <1>1, ReadyShape
<1>3. KernelTypeOK'
  BY <1>2 DEF KernelInv, KernelTypeOK
<1>4. RunsHighest'
  BY DEF RunsHighest, Highest
<1>5. (ReadyIffUnblocked /\ MboxExclusive /\ WaitListExact)'
  BY DEF KernelInv, ReadyIffUnblocked, MboxExclusive, WaitListExact
<1>6. \A p \in Prio : PendStatus(p)'
  BY DEF KernelInv, KernelTypeOK, PendStatus, Inside
<1>7. t \in OSTCBPrioTbl
  BY DEF KernelInv, KernelTypeOK
<1> QED BY <1>2, <1>3, <1>4, <1>5, <1>6, <1>7 DEF KernelInv

\* The timer interrupt readies exactly the tasks it unblocks.
LEMMA TickInv ==
  ASSUME KernelInv, Tick
  PROVE  KernelInv'
<1> USE DEF Tick, TimeUp, Elapsed, Unsuspended, mboxVars
<1>1. OSRdyTbl' \in SUBSET Nat /\ OSRdyTbl' # {}
  BY ReadyShape, PrioAssumption DEF KernelInv, KernelTypeOK
<1>2. OSPrioCur' \in OSRdyTbl'
  BY <1>1, HighestMember
<1>3. OSPrioCur' \in OSTCBPrioTbl \cup {IdlePrio}
  BY <1>2, ReadyShape
<1>4. KernelTypeOK'
  BY <1>3 DEF KernelInv, KernelTypeOK
<1>5. RunsHighest'
  BY DEF RunsHighest
<1>6. ReadyIffUnblocked'
  BY DEF KernelInv, KernelTypeOK, ReadyIffUnblocked
<1>7. (MboxExclusive /\ WaitListExact)'
  BY DEF KernelInv, KernelTypeOK, MboxExclusive, WaitListExact, PendStatus
<1>8. \A p \in Prio : PendStatus(p)'
  BY DEF KernelInv, KernelTypeOK, PendStatus, Inside
<1> QED BY <1>3, <1>4, <1>5, <1>6, <1>7, <1>8 DEF KernelInv, KernelTypeOK

\* A wake-up: the woken tasks leave the wait list, each with the outcome.
LEMMA EventTaskRdyInv ==
  ASSUME KernelInv, NEW t \in Prio, At(t, "app"), NEW S \in SUBSET OSEventTbl,
         NEW m \in Msg \cup {NoMsg}, NEW st \in {"OK", "ABORT"},
         m # NoMsg => st = "OK", st = "OK" => m # NoMsg \/ DeletesWaited,
         OS_EventTaskRdy(S, m, st), Goto(t, "sched"),
         created' \in BOOLEAN, OSEventPtr' \in {OSEventPtr, NoMsg},
         UNCHANGED <<OSTCBPrioTbl, OSPrioCur, got>>
  PROVE  KernelInv'
<1> USE DEF At, OS_EventTaskRdy, Unsuspended, Goto
<1>1. \A p \in S : p \in Prio /\ p \in OSTCBPrioTbl /\ Inside(p)
  <2> SUFFICES ASSUME NEW p \in S PROVE p \in Prio /\ p \in OSTCBPrioTbl /\ Inside(p)
    OBVIOUS
  <2>1. p \in Prio
    BY DEF KernelInv, KernelTypeOK
  <2>2. "MBOX" \in OSTCBStat[p] \/ OSTCBStatPend[p] = "TO"
    BY <2>1 DEF KernelInv, WaitListExact
  <2>3. Inside(p)
    BY <2>1, <2>2 DEF KernelInv, PendStatus
  <2>4. p \in OSTCBPrioTbl
    BY <2>1, <2>3 DEF KernelInv, Inside
  <2> QED BY <2>1, <2>3, <2>4
<1>2. t \notin OSEventTbl /\ t \in OSTCBPrioTbl /\ OSPrioCur # IdlePrio
  BY PrioAssumption DEF KernelInv, KernelTypeOK, WaitListExact, PendStatus, Inside
<1>3. KernelTypeOK'
  <2>1. created' \in BOOLEAN
    OBVIOUS
  <2> QED BY <1>1, <2>1 DEF KernelInv, KernelTypeOK
<1>4. RunsHighest'
  BY <1>2 DEF KernelInv, KernelTypeOK, RunsHighest
<1>5. ReadyIffUnblocked'
  BY <1>1 DEF KernelInv, KernelTypeOK, ReadyIffUnblocked, WaitListExact, PendStatus, Inside
<1>6. (MboxExclusive /\ WaitListExact)'
  BY <1>1 DEF KernelInv, KernelTypeOK, MboxExclusive, WaitListExact, PendStatus
<1>7. \A p \in Prio : PendStatus(p)'
  BY <1>1, <1>2 DEF KernelInv, KernelTypeOK, WaitListExact, PendStatus, Inside
<1>8. \A p \in Prio \ OSTCBPrioTbl : OSTCBStat[p]' = {} /\ OSTCBDly[p]' = 0 /\ pc[p]' = "app"
  BY <1>1, <1>2 DEF KernelInv, KernelTypeOK
<1> QED BY <1>3, <1>4, <1>5, <1>6, <1>7, <1>8 DEF KernelInv

\* A task that starts to wait gives up the processor at its OS_Sched().
LEMMA PendWaitInv ==
  ASSUME KernelInv, NEW t \in Prio, NEW n \in Nat, At(t, "app"), OSEventPtr = NoMsg,
         PendWait(t, n)
  PROVE  KernelInv'
<1> USE DEF At, PendWait, Goto
<1>1. t \in OSTCBPrioTbl /\ OSPrioCur # IdlePrio /\ OSTCBStat[t] = {}
  BY RunningReady, PrioAssumption
<1>2. KernelTypeOK'
  BY DEF KernelInv, KernelTypeOK
<1>3. RunsHighest'
  BY <1>1 DEF KernelInv, KernelTypeOK, RunsHighest
<1>4. ReadyIffUnblocked'
  BY DEF KernelInv, KernelTypeOK, ReadyIffUnblocked
<1>5. (MboxExclusive /\ WaitListExact)'
  BY DEF KernelInv, KernelTypeOK, MboxExclusive, WaitListExact
<1>6. \A p \in Prio : PendStatus(p)'
  BY DEF KernelInv, KernelTypeOK, PendStatus, Inside
<1> QED BY <1>1, <1>2, <1>3, <1>4, <1>5, <1>6, PrioAssumption DEF KernelInv, KernelTypeOK

\* What a call takes at once leaves the mailbox empty.
LEMMA TakeNowInv ==
  ASSUME KernelInv, NEW t \in Prio, TakeNow(t)
  PROVE  KernelInv'
BY DEF KernelInv, KernelTypeOK, TakeNow, tcbVars, RunsHighest, ReadyIffUnblocked,
       MboxExclusive, WaitListExact, PendStatus, Inside

\* OSMboxPend() returns with the three outcomes told apart.
LEMMA PendReturnInv ==
  ASSUME KernelInv, NEW t \in Prio, PendReturn(t)
  PROVE  KernelInv'
<1> USE DEF PendReturn, At, Goto
<1>1. t \in OSTCBPrioTbl /\ OSTCBStat[t] = {} /\ OSTCBDly[t] = 0 /\ t = Highest(OSRdyTbl)
  BY RunningReady
<1>2. KernelTypeOK'
  BY DEF KernelInv, KernelTypeOK
<1>3. RunsHighest'
  BY <1>1 DEF RunsHighest
<1>4. ReadyIffUnblocked'
  BY <1>1 DEF KernelInv, KernelTypeOK, ReadyIffUnblocked
<1>5. (MboxExclusive /\ WaitListExact)'
  BY <1>1 DEF KernelInv, KernelTypeOK, MboxExclusive, WaitListExact
<1>6. \A p \in Prio : PendStatus(p)'
  BY DEF KernelInv, KernelTypeOK, PendStatus, Inside
<1> QED BY <1>1, <1>2, <1>3, <1>4, <1>5, <1>6 DEF KernelInv, KernelTypeOK

\* A message is kept only when nobody waits.
LEMMA PostToSlotInv ==
  ASSUME KernelInv, NEW m \in Msg, PostToSlot(m)
  PROVE  KernelInv'
BY DEF KernelInv, KernelTypeOK, PostToSlot, tcbVars, RunsHighest, ReadyIffUnblocked,
       MboxExclusive, WaitListExact, PendStatus, Inside

\* The pointer to the mailbox becomes known.
LEMMA CreateMboxInv ==
  ASSUME KernelInv, NEW t \in Prio, OSMboxCreate(t)
  PROVE  KernelInv'
BY DEF KernelInv, KernelTypeOK, OSMboxCreate, tcbVars, RunsHighest, ReadyIffUnblocked,
       MboxExclusive, WaitListExact, PendStatus, Inside

\* The most urgent waiter is one of the waiters.
LEMMA WaiterMember ==
  ASSUME KernelInv, OSEventTbl # {}
  PROVE  Highest(OSEventTbl) \in OSEventTbl /\ \A q \in OSEventTbl : Highest(OSEventTbl) <= q
<1>1. OSEventTbl \in SUBSET Nat
  BY PrioAssumption DEF KernelInv, KernelTypeOK
<1> QED BY <1>1, HighestMember

\* A post either wakes a waiter or reaches the slot.
LEMMA PostInv ==
  ASSUME KernelInv, NEW t \in Prio, NEW m \in Msg, OSMboxPost(t, m)
  PROVE  KernelInv'
<1>1. CASE PostToWaiter(t, m)
  <2> DEFINE S == {Highest(OSEventTbl)}
  <2>1. S \in SUBSET OSEventTbl
    BY <1>1, WaiterMember DEF PostToWaiter
  <2>2. m # NoMsg
    BY MsgAssumption
  <2>3. At(t, "app") /\ OS_EventTaskRdy(S, m, "OK") /\ Goto(t, "sched")
        /\ UNCHANGED <<OSTCBPrioTbl, OSPrioCur, created, OSEventPtr, got>>
    BY <1>1 DEF PostToWaiter, OSMboxPost
  <2>4. created' \in BOOLEAN
    BY <2>3 DEF KernelInv, KernelTypeOK
  <2> HIDE DEF S
  <2> QED BY <2>1, <2>2, <2>3, <2>4, EventTaskRdyInv
<1>2. CASE PostToSlot(m)
  BY <1>2, PostToSlotInv
<1> QED BY <1>1, <1>2 DEF OSMboxPost

\* An abort wakes waiters without a message.
LEMMA PendAbortInv ==
  ASSUME KernelInv, NEW t \in Prio, OSMboxPendAbort(t)
  PROVE  KernelInv'
<1>1. PICK S \in {{Highest(OSEventTbl)}, OSEventTbl} : OS_EventTaskRdy(S, NoMsg, "ABORT")
  BY DEF OSMboxPendAbort
<1>2. S \in SUBSET OSEventTbl
  BY WaiterMember DEF OSMboxPendAbort
<1>3. At(t, "app") /\ Goto(t, "sched")
      /\ UNCHANGED <<OSTCBPrioTbl, OSPrioCur, created, OSEventPtr, got>>
  BY DEF OSMboxPendAbort
<1>4. created' \in BOOLEAN
  BY <1>3 DEF KernelInv, KernelTypeOK
<1> QED BY <1>1, <1>2, <1>3, <1>4, EventTaskRdyInv

\* A broadcast wakes all waiters with the message.
LEMMA PostOptInv ==
  ASSUME KernelInv, NEW t \in Prio, NEW m \in Msg, OSMboxPostOpt(t, m)
  PROVE  KernelInv'
<1>1. CASE PostToAll(t, m)
  <2>1. m # NoMsg
    BY MsgAssumption
  <2>2. /\ At(t, "app") /\ OS_EventTaskRdy(OSEventTbl, m, "OK") /\ Goto(t, "sched")
        /\ UNCHANGED <<OSTCBPrioTbl, OSPrioCur, created, OSEventPtr, got>>
    BY <1>1 DEF PostToAll, OSMboxPostOpt
  <2>3. created' \in BOOLEAN
    BY <2>2 DEF KernelInv, KernelTypeOK
  <2> QED BY <2>1, <2>2, <2>3, EventTaskRdyInv
<1>2. CASE PostToWaiter(t, m) \/ PostToSlot(m)
  BY <1>2, PostInv DEF OSMboxPost, OSMboxPostOpt
<1> QED BY <1>1, <1>2 DEF OSMboxPostOpt

\* The deletion of the mailbox wakes all waiters without a message.
LEMMA MboxDelInv ==
  ASSUME KernelInv, NEW t \in Prio, OSMboxDel(t)
  PROVE  KernelInv'
<1>1. CASE OSEventTbl = {}
  <2>1. UNCHANGED <<OSTCBPrioTbl, OSRdyTbl, OSPrioCur, tcbVars, OSEventTbl, pc, got>>
    BY <1>1 DEF OSMboxDel, OS_EventTaskRdy, Unsuspended, Goto, At, KernelInv, KernelTypeOK, tcbVars
  <2>2. OSEventPtr' = NoMsg
    BY DEF OSMboxDel
  <2>3. created' \in BOOLEAN
    BY DEF OSMboxDel
  <2> QED BY <1>1, <2>1, <2>2, <2>3
          DEF KernelInv, KernelTypeOK, tcbVars, RunsHighest, ReadyIffUnblocked, MboxExclusive,
              WaitListExact, PendStatus, Inside
<1>2. CASE OSEventTbl # {}
  <2>1. /\ At(t, "app") /\ OS_EventTaskRdy(OSEventTbl, NoMsg, "OK") /\ Goto(t, "sched")
        /\ DeletesWaited /\ OSEventPtr' = NoMsg /\ UNCHANGED <<OSTCBPrioTbl, OSPrioCur, got>>
    BY <1>2 DEF OSMboxDel
  <2>2. created' \in BOOLEAN
    BY DEF OSMboxDel
  <2> QED BY <2>1, <2>2, EventTaskRdyInv
<1> QED BY <1>1, <1>2

\* A deleted task is in no list, and the caller reschedules.
LEMMA TaskDelInv ==
  ASSUME KernelInv, NEW t \in Prio, NEW p \in Prio, OSTaskDel(t, p)
  PROVE  KernelInv'
<1>1. /\ t \in OSTCBPrioTbl /\ p \in OSTCBPrioTbl /\ t # IdlePrio /\ p # IdlePrio /\ OSPrioCur = t
      /\ pc[t] = "app"
  BY RunningReady, PrioAssumption DEF OSTaskDel, At
<1>2. /\ OSTCBPrioTbl' = OSTCBPrioTbl \ {p} /\ OSRdyTbl' = OSRdyTbl \ {p} /\ OSEventTbl' = OSEventTbl \ {p}
      /\ OSTCBStat' = [OSTCBStat EXCEPT ![p] = {}] /\ OSTCBStatPend' = [OSTCBStatPend EXCEPT ![p] = "OK"]
      /\ OSTCBDly' = [OSTCBDly EXCEPT ![p] = 0] /\ OSTCBMsg' = [OSTCBMsg EXCEPT ![p] = NoMsg]
      /\ UNCHANGED <<created, OSEventPtr, got>>
  BY DEF OSTaskDel
<1>3. /\ OSPrioCur' = IF p = t THEN Highest(OSRdyTbl') ELSE t
      /\ pc' = IF p = t THEN pc ELSE [pc EXCEPT ![t] = "sched", ![p] = "app"]
  BY <1>1 DEF OSTaskDel
<1>4. OSRdyTbl' \in SUBSET Nat /\ IdlePrio \in OSRdyTbl' /\ OSRdyTbl' \subseteq OSTCBPrioTbl' \cup {IdlePrio}
  BY <1>1, <1>2, ReadyShape DEF KernelInv
<1>5. Highest(OSRdyTbl') \in OSTCBPrioTbl' \cup {IdlePrio}
  BY <1>4, HighestMember
<1>6. OSPrioCur' \in OSTCBPrioTbl' \cup {IdlePrio}
  BY <1>1, <1>2, <1>3, <1>5
<1>7. KernelTypeOK'
  <2>1. created' \in BOOLEAN
    BY <1>2 DEF KernelInv, KernelTypeOK
  <2> QED BY <1>2, <1>3, <1>6, <2>1 DEF KernelInv, KernelTypeOK
<1>8. RunsHighest'
  BY <1>1, <1>2, <1>3 DEF KernelInv, KernelTypeOK, RunsHighest
<1>9. (ReadyIffUnblocked /\ MboxExclusive /\ WaitListExact)'
  BY <1>2 DEF KernelInv, KernelTypeOK, ReadyIffUnblocked, MboxExclusive, WaitListExact
<1>10. \A q \in Prio : PendStatus(q)'
  BY <1>1, <1>2, <1>3 DEF KernelInv, KernelTypeOK, PendStatus, Inside
<1>11. \A q \in Prio \ OSTCBPrioTbl' : OSTCBStat'[q] = {} /\ OSTCBDly'[q] = 0 /\ pc'[q] = "app"
  BY <1>1, <1>2, <1>3 DEF KernelInv, KernelTypeOK
<1> QED BY <1>4, <1>6, <1>7, <1>8, <1>9, <1>10, <1>11 DEF KernelInv

\* A new task is ready, blocked for nothing, and may be more urgent.
LEMMA TaskCreateInv ==
  ASSUME KernelInv, NEW t \in Prio, NEW p \in Prio, OSTaskCreate(t, p)
  PROVE  KernelInv'
<1> USE DEF OSTaskCreate, At, Goto, tcbVars, mboxVars
<1>1. OSPrioCur # IdlePrio
  BY PrioAssumption
<1>2. t \in OSTCBPrioTbl
  BY <1>1 DEF KernelInv
<1> QED BY <1>1, <1>2 DEF KernelInv, KernelTypeOK, RunsHighest, ReadyIffUnblocked,
                          MboxExclusive, WaitListExact, PendStatus, Inside

\* A task that delays itself leaves the ready list.
LEMMA TimeDlyInv ==
  ASSUME KernelInv, NEW t \in Prio, NEW n \in Nat, OSTimeDly(t, n)
  PROVE  KernelInv'
<1> USE DEF OSTimeDly, At, Goto, mboxVars
<1>1. t \in OSTCBPrioTbl /\ OSPrioCur # IdlePrio
  BY RunningReady, PrioAssumption
<1>2. KernelTypeOK'
  BY DEF KernelInv, KernelTypeOK
<1>3. ReadyIffUnblocked'
  BY DEF KernelInv, KernelTypeOK, ReadyIffUnblocked
<1>4. \A q \in Prio : PendStatus(q)'
  BY DEF KernelInv, KernelTypeOK, PendStatus, Inside
<1>5. RunsHighest'
  BY <1>1 DEF KernelInv, KernelTypeOK, RunsHighest
<1>6. (MboxExclusive /\ WaitListExact)'
  BY DEF KernelInv, MboxExclusive, WaitListExact
<1> QED BY <1>1, <1>2, <1>3, <1>4, <1>5, <1>6, PrioAssumption DEF KernelInv, KernelTypeOK

\* A delay cut short readies its task, unless it is suspended.
LEMMA TimeDlyResumeInv ==
  ASSUME KernelInv, NEW t \in Prio, NEW p \in Prio, OSTimeDlyResume(t, p)
  PROVE  KernelInv'
<1> USE DEF OSTimeDlyResume, TimeUp, Unsuspended, At, Goto, mboxVars
<1>1. t \in OSTCBPrioTbl /\ OSPrioCur # IdlePrio /\ OSTCBDly[t] = 0 /\ t # p
  BY RunningReady, PrioAssumption
<1>2. KernelTypeOK'
  BY DEF KernelInv, KernelTypeOK
<1>3. ReadyIffUnblocked'
  BY DEF KernelInv, KernelTypeOK, ReadyIffUnblocked
<1>4. \A q \in Prio : PendStatus(q)'
  BY <1>1 DEF KernelInv, KernelTypeOK, PendStatus, Inside
<1>5. RunsHighest'
  <2>1. CASE "SUSPEND" \in OSTCBStat[p]
    BY <2>1, RunningReady DEF KernelInv, KernelTypeOK, RunsHighest
  <2>2. CASE "SUSPEND" \notin OSTCBStat[p]
    BY <2>2, <1>1 DEF KernelInv, KernelTypeOK, RunsHighest
  <2> QED BY <2>1, <2>2
<1>6. (MboxExclusive /\ WaitListExact)'
  BY DEF KernelInv, KernelTypeOK, MboxExclusive, WaitListExact, PendStatus
<1> QED BY <1>1, <1>2, <1>3, <1>4, <1>5, <1>6, PrioAssumption DEF KernelInv, KernelTypeOK

\* A suspended task is not ready, whatever else blocks it.
LEMMA SuspendInv ==
  ASSUME KernelInv, NEW t \in Prio, NEW p \in Prio, OSTaskSuspend(t, p)
  PROVE  KernelInv'
<1> USE DEF OSTaskSuspend, At, Goto, mboxVars
<1>1. t \in OSTCBPrioTbl /\ OSPrioCur # IdlePrio /\ t \in OSRdyTbl
      /\ \A q \in OSRdyTbl : t <= q
  BY RunningReady, PrioAssumption
<1>2. KernelTypeOK'
  BY DEF KernelInv, KernelTypeOK
<1>3. ReadyIffUnblocked'
  BY DEF KernelInv, KernelTypeOK, ReadyIffUnblocked
<1>4. \A q \in Prio : PendStatus(q)'
  BY <1>1 DEF KernelInv, KernelTypeOK, PendStatus, Inside
<1>5. RunsHighest'
  <2>1. CASE p = t
    BY <2>1, <1>1 DEF KernelInv, KernelTypeOK, RunsHighest
  <2>2. CASE p # t
    <3>1. OSRdyTbl' \in SUBSET Nat /\ t \in OSRdyTbl' /\ \A q \in OSRdyTbl' : t <= q
      BY <2>2, <1>1, ReadyShape
    <3>2. t = Highest(OSRdyTbl')
      BY <3>1, HighestUnique
    <3> QED BY <3>2 DEF RunsHighest
  <2> QED BY <2>1, <2>2
<1>6. (MboxExclusive /\ WaitListExact)'
  BY DEF KernelInv, KernelTypeOK, MboxExclusive, WaitListExact
<1> QED BY <1>1, <1>2, <1>3, <1>4, <1>5, <1>6, PrioAssumption DEF KernelInv, KernelTypeOK

\* A resumed task is ready only when nothing else blocks it.
LEMMA ResumeInv ==
  ASSUME KernelInv, NEW t \in Prio, NEW p \in Prio, OSTaskResume(t, p)
  PROVE  KernelInv'
<1> USE DEF OSTaskResume, At, Goto, mboxVars
<1>1. t \in OSTCBPrioTbl /\ OSPrioCur # IdlePrio /\ OSTCBStat[t] = {}
  BY RunningReady, PrioAssumption
<1>2. KernelTypeOK'
  BY DEF KernelInv, KernelTypeOK
<1>3. ReadyIffUnblocked'
  BY DEF KernelInv, KernelTypeOK, ReadyIffUnblocked
<1>4. \A q \in Prio : PendStatus(q)'
  BY <1>1 DEF KernelInv, KernelTypeOK, PendStatus, Inside
<1>5. RunsHighest'
  <2>1. CASE OSTCBStat[p] = {"SUSPEND"} /\ OSTCBDly[p] = 0
    BY <2>1, <1>1 DEF KernelInv, KernelTypeOK, RunsHighest
  <2>2. CASE ~ (OSTCBStat[p] = {"SUSPEND"} /\ OSTCBDly[p] = 0)
    BY <2>2 DEF KernelInv, RunsHighest
  <2> QED BY <2>1, <2>2
<1>6. (MboxExclusive /\ WaitListExact)'
  BY DEF KernelInv, KernelTypeOK, MboxExclusive, WaitListExact
<1> QED BY <1>1, <1>2, <1>3, <1>4, <1>5, <1>6, PrioAssumption DEF KernelInv, KernelTypeOK

(***************************************************************************)
(* The theorems of the kernel.                                             *)
(***************************************************************************)
\* Every service and the tick keep the invariant.
LEMMA KernelNextInv == KernelInv /\ [KernelNext]_kernelVars => KernelInv'
<1> SUFFICES ASSUME KernelInv, [KernelNext]_kernelVars PROVE KernelInv'
  OBVIOUS
<1>1. CASE Tick
  BY <1>1, TickInv
<1>2. ASSUME NEW t \in OSTCBPrioTbl, Service(t) PROVE KernelInv'
  <2> t \in Prio
    BY DEF KernelInv, KernelTypeOK
  <2>1. CASE OSMboxCreate(t)
    BY <2>1, CreateMboxInv
  <2>2. CASE OSMboxAccept(t)
    BY <2>2, TakeNowInv DEF OSMboxAccept
  <2>3. CASE OSMboxPendAbort(t)
    BY <2>3, PendAbortInv
  <2>4. CASE PendReturn(t)
    BY <2>4, PendReturnInv
  <2>5. CASE OS_Sched(t)
    BY <2>5, SchedInv
  <2>6. ASSUME NEW n \in 0..MaxTimeout, OSMboxPend(t, n) PROVE KernelInv'
    <3> n \in Nat
      BY TimeoutAssumption
    <3>1. CASE created /\ OSEventPtr = NoMsg
      BY <3>1, <2>6, PendWaitInv DEF OSMboxPend
    <3>2. CASE ~ (created /\ OSEventPtr = NoMsg)
      BY <3>2, <2>6, TakeNowInv DEF OSMboxPend
    <3> QED BY <3>1, <3>2
  <2>7. ASSUME NEW n \in 0..MaxTimeout, OSTimeDly(t, n) PROVE KernelInv'
    <3> n \in Nat
      BY TimeoutAssumption
    <3> QED BY <2>7, TimeDlyInv
  <2>8. ASSUME NEW m \in Msg, OSMboxPost(t, m) PROVE KernelInv'
    BY <2>8, PostInv
  <2>9. ASSUME NEW p \in Prio,
               \/ OSTaskCreate(t, p) \/ OSTimeDlyResume(t, p)
               \/ OSTaskSuspend(t, p) \/ OSTaskResume(t, p)
        PROVE  KernelInv'
    BY <2>9, TaskCreateInv, TimeDlyResumeInv, SuspendInv, ResumeInv
  <2>10. ASSUME NEW p \in Prio, OSTaskDel(t, p) PROVE KernelInv'
    BY <2>10, TaskDelInv
  <2>11. CASE OSMboxDel(t)
    BY <2>11, MboxDelInv
  <2>12. ASSUME NEW m \in Msg, OSMboxPostOpt(t, m) PROVE KernelInv'
    BY <2>12, PostOptInv
  <2> QED BY <1>2, <2>1, <2>2, <2>3, <2>4, <2>5, <2>6, <2>7, <2>8, <2>9, <2>10, <2>11, <2>12 DEF Service
<1>3. CASE UNCHANGED kernelVars
  BY <1>3 DEF kernelVars, tcbVars, mboxVars, KernelInv, KernelTypeOK, RunsHighest,
              ReadyIffUnblocked, MboxExclusive, WaitListExact, PendStatus, Inside
<1> QED BY <1>1, <1>2, <1>3 DEF KernelNext

\* The invariant holds in every reachable state of the kernel.
THEOREM KernelSafe == KernelSpec => []KernelInv
BY KernelInitInv, KernelNextInv, PTL DEF KernelSpec

\* Every variable keeps its type.
THEOREM KernelTypes == KernelSpec => []KernelTypeOK
<1>1. KernelInv => KernelTypeOK
  BY DEF KernelInv
<1> QED BY <1>1, KernelSafe, PTL

\* Preemption is strict (OS_SchedNew() in OS_Sched() and OSIntExit()).
THEOREM StrictPreemption == KernelSpec => []RunsHighest
<1>1. KernelInv => RunsHighest
  BY DEF KernelInv
<1> QED BY <1>1, KernelSafe, PTL

\* The ready list agrees with status and delay, whichever event came first.
THEOREM ReadyListAgrees == KernelSpec => []ReadyIffUnblocked
<1>1. KernelInv => ReadyIffUnblocked
  BY DEF KernelInv
<1> QED BY <1>1, KernelSafe, PTL

\* No task sleeps on the mailbox while a message lies in it.
THEOREM NoSleepOnMessage == KernelSpec => []MboxExclusive
<1>1. KernelInv => MboxExclusive
  BY DEF KernelInv
<1> QED BY <1>1, KernelSafe, PTL

\* The wait list holds exactly the tasks a post must find.
THEOREM WaitListAgrees == KernelSpec => []WaitListExact
<1>1. KernelInv => WaitListExact
  BY DEF KernelInv
<1> QED BY <1>1, KernelSafe, PTL

\* OSMboxPend() tells success from timeout and abort by the message it holds, if no mailbox
\* is deleted while tasks wait for it.
THEOREM PendOutcomeCorrect == ASSUME ~ DeletesWaited PROVE KernelSpec => []PendOutcome
<1>1. KernelInv => PendOutcome
  <2> SUFFICES ASSUME KernelInv, NEW t \in Prio, At(t, "pended")
               PROVE  OSTCBStatPend[t] = "OK" <=> OSTCBMsg[t] # NoMsg
    BY DEF PendOutcome
  <2>1. OSTCBStat[t] = {}
    BY RunningReady DEF At
  <2> QED BY <2>1 DEF KernelInv, PendStatus, Inside, At
<1> QED BY <1>1, KernelSafe, PTL

\* A finished OSMboxPend() leaves no message and no place in the wait list behind.
THEOREM PendLeavesNothing == KernelSpec => []NothingLeftBehind
<1>1. KernelInv => NothingLeftBehind
  BY DEF KernelInv, NothingLeftBehind, PendStatus, Inside, WaitListExact
<1> QED BY <1>1, KernelSafe, PTL

(***************************************************************************)
(* The kernel's mailbox implements Mailbox.  A step that leaves the four   *)
(* variables of Mailbox alone is a stutter.                                *)
(***************************************************************************)
mailboxState == <<OSEventPtr, OSTCBMsg, OSEventTbl, got>>

\* A call that does not wait takes the message of the slot, or returns with none.
LEMMA TakeNowRefines ==
  ASSUME KernelInv, NEW t \in Prio, At(t, "app"), TakeNow(t)
  PROVE  Abstract!Next
<1>1. OSTCBMsg \in [Prio -> Msg \cup {NoMsg}] /\ OSTCBMsg[t] = NoMsg /\ t \notin OSEventTbl
  BY DEF KernelInv, KernelTypeOK, PendStatus, Inside, WaitListExact, At
<1>2. CASE OSEventPtr # NoMsg
  <2>1. Abstract!Take(t)
    BY <1>2 DEF TakeNow, tcbVars, Abstract!Take
  <2> QED BY <2>1 DEF Abstract!Next
<1>3. CASE OSEventPtr = NoMsg
  <2>1. Abstract!Return(t)
    BY <1>1, <1>3 DEF TakeNow, tcbVars, Abstract!Return
  <2> QED BY <2>1 DEF Abstract!Next
<1> QED BY <1>2, <1>3

\* The returning call hands out the message it was given, or none.
LEMMA PendReturnRefines ==
  ASSUME KernelInv, NEW t \in Prio, PendReturn(t)
  PROVE  Abstract!Return(t)
<1>1. OSTCBStat[t] = {}
  BY RunningReady DEF PendReturn, At
<1>2. OSTCBStatPend[t] # "TO" => t \notin OSEventTbl
  BY <1>1 DEF KernelInv, WaitListExact
<1>3. OSTCBStatPend[t] # "OK" => OSTCBMsg[t] = NoMsg
  BY DEF KernelInv, PendStatus
<1> QED BY <1>2, <1>3 DEF PendReturn, Abstract!Return

\* A post is accepted by the most urgent waiter or the slot, or is dropped.
LEMMA PostRefines ==
  ASSUME KernelInv, NEW t \in Prio, NEW m \in Msg, OSMboxPost(t, m)
  PROVE  Abstract!Deposit(m) \/ UNCHANGED mailboxState
<1>1. CASE PostToWaiter(t, m)
  <2> DEFINE p == Highest(OSEventTbl)
  <2>1. p \in OSEventTbl /\ \A q \in OSEventTbl : p <= q
    BY <1>1, WaiterMember DEF PostToWaiter
  <2>2. p \in Prio /\ OSTCBMsg \in [Prio -> Msg \cup {NoMsg}]
    BY <2>1 DEF KernelInv, KernelTypeOK
  <2>3. OSTCBMsg[p] = NoMsg
    BY <2>1, <2>2 DEF KernelInv, WaitListExact, PendStatus
  <2>4. OSTCBMsg' = [OSTCBMsg EXCEPT ![p] = m] /\ OSEventTbl' = OSEventTbl \ {p}
        /\ UNCHANGED <<OSEventPtr, got>>
    BY <1>1, <2>2 DEF PostToWaiter, OS_EventTaskRdy
  <2> HIDE DEF p
  <2> QED BY <2>1, <2>2, <2>3, <2>4 DEF Abstract!Deposit, Abstract!MostUrgent
<1>2. CASE PostToSlot(m)
  BY <1>2 DEF PostToSlot, tcbVars, mailboxState, Abstract!Deposit
<1> QED BY <1>1, <1>2 DEF OSMboxPost

\* A broadcast hands a message to all that wait.
LEMMA PostOptRefines ==
  ASSUME KernelInv, NEW t \in Prio, NEW m \in Msg, OSMboxPostOpt(t, m)
  PROVE  Abstract!Deposit(m) \/ Abstract!Broadcast(m) \/ UNCHANGED mailboxState
<1>1. CASE PostToAll(t, m)
  <2>1. \A p \in OSEventTbl : p \in Prio /\ OSTCBMsg[p] = NoMsg
    BY DEF KernelInv, KernelTypeOK, WaitListExact, PendStatus
  <2>2. Abstract!Broadcast(m)
    BY <1>1, <2>1 DEF PostToAll, OS_EventTaskRdy, Abstract!Broadcast
  <2> QED BY <2>2
<1>2. CASE PostToWaiter(t, m) \/ PostToSlot(m)
  BY <1>2, PostRefines DEF OSMboxPost, OSMboxPostOpt
<1> QED BY <1>1, <1>2 DEF OSMboxPostOpt

\* A deleted mailbox is empty and has no waiters.
LEMMA MboxDelRefines ==
  ASSUME KernelInv, NEW t \in Prio, OSMboxDel(t)
  PROVE  Abstract!Discard
<1>1. \A p \in OSEventTbl : p \in Prio /\ OSTCBMsg[p] = NoMsg
  BY DEF KernelInv, KernelTypeOK, WaitListExact, PendStatus
<1>2. UNCHANGED OSTCBMsg
  BY <1>1 DEF OSMboxDel, OS_EventTaskRdy, KernelInv, KernelTypeOK
<1> QED BY <1>2 DEF OSMboxDel, OS_EventTaskRdy, Abstract!Discard

\* An abort hands out nothing.
LEMMA PendAbortRefines ==
  ASSUME KernelInv, NEW t \in Prio, OSMboxPendAbort(t)
  PROVE  Abstract!Abort
<1>1. PICK S \in {{Highest(OSEventTbl)}, OSEventTbl} : OS_EventTaskRdy(S, NoMsg, "ABORT")
  BY DEF OSMboxPendAbort
<1>2. OSEventTbl # {} /\ UNCHANGED <<OSEventPtr, got>>
  BY DEF OSMboxPendAbort
<1>3. S \in SUBSET OSEventTbl /\ Highest(OSEventTbl) \in Prio
      /\ Abstract!MostUrgent(Highest(OSEventTbl))
  BY <1>2, WaiterMember DEF Abstract!MostUrgent, KernelInv, KernelTypeOK
<1>4. \A p \in S : p \in Prio /\ OSTCBMsg[p] = NoMsg
  BY <1>3 DEF KernelInv, KernelTypeOK, WaitListExact, PendStatus
<1>5. UNCHANGED OSTCBMsg
  BY <1>1, <1>4 DEF OS_EventTaskRdy, KernelInv, KernelTypeOK
<1>6. OSEventTbl' = OSEventTbl \ S
  BY <1>1 DEF OS_EventTaskRdy
<1> QED BY <1>2, <1>3, <1>5, <1>6 DEF Abstract!Abort

\* Every step of the kernel is a step of the mailbox or leaves it alone.
LEMMA KernelStepRefines ==
  KernelInv /\ [KernelNext]_kernelVars => [Abstract!Next]_(Abstract!vars)
<1> SUFFICES ASSUME KernelInv, [KernelNext]_kernelVars
             PROVE  Abstract!Next \/ UNCHANGED mailboxState
  BY DEF Abstract!vars, mailboxState
<1>1. CASE Tick
  BY <1>1 DEF Tick, mboxVars, mailboxState
<1>2. ASSUME NEW t \in OSTCBPrioTbl, Service(t)
      PROVE  Abstract!Next \/ UNCHANGED mailboxState
  <2> t \in Prio
    BY DEF KernelInv, KernelTypeOK
  <2>1. CASE OSMboxCreate(t) \/ OS_Sched(t)
    BY <2>1 DEF OSMboxCreate, OS_Sched, tcbVars, mboxVars, mailboxState
  <2>2. CASE OSMboxAccept(t)
    BY <2>2, TakeNowRefines DEF OSMboxAccept
  <2>3. CASE OSMboxPendAbort(t)
    BY <2>3, PendAbortRefines DEF Abstract!Next
  <2>4. CASE PendReturn(t)
    BY <2>4, PendReturnRefines DEF Abstract!Next
  <2>5. ASSUME NEW n \in 0..MaxTimeout, OSMboxPend(t, n)
        PROVE  Abstract!Next
    <3>1. CASE created /\ OSEventPtr = NoMsg
      <4>1. OSTCBMsg[t] = NoMsg
        BY <2>5 DEF OSMboxPend, At, KernelInv, PendStatus, Inside
      <4>2. Abstract!Wait(t)
        BY <2>5, <3>1, <4>1 DEF OSMboxPend, PendWait, Abstract!Wait
      <4> QED BY <4>2 DEF Abstract!Next
    <3>2. CASE ~ (created /\ OSEventPtr = NoMsg)
      BY <2>5, <3>2, TakeNowRefines DEF OSMboxPend
    <3> QED BY <3>1, <3>2
  <2>6. ASSUME NEW m \in Msg, OSMboxPost(t, m)
        PROVE  Abstract!Next \/ UNCHANGED mailboxState
    BY <2>6, PostRefines DEF Abstract!Next
  <2>7. ASSUME NEW n \in 0..MaxTimeout, OSTimeDly(t, n) PROVE UNCHANGED mailboxState
    BY <2>7 DEF OSTimeDly, mboxVars, mailboxState
  <2>8. ASSUME NEW p \in Prio,
               \/ OSTaskCreate(t, p) \/ OSTimeDlyResume(t, p)
               \/ OSTaskSuspend(t, p) \/ OSTaskResume(t, p)
        PROVE  UNCHANGED mailboxState
    BY <2>8 DEF OSTaskCreate, OSTimeDlyResume, OSTaskSuspend, OSTaskResume,
                tcbVars, mboxVars, mailboxState
  <2>9. ASSUME NEW p \in Prio, OSTaskDel(t, p) PROVE Abstract!Leave(p)
    BY <2>9 DEF OSTaskDel, Abstract!Leave
  <2>10. CASE OSMboxDel(t)
    BY <2>10, MboxDelRefines DEF Abstract!Next
  <2>11. ASSUME NEW m \in Msg, OSMboxPostOpt(t, m)
         PROVE  Abstract!Next \/ UNCHANGED mailboxState
    BY <2>11, PostOptRefines DEF Abstract!Next
  <2> QED BY <1>2, <2>1, <2>2, <2>3, <2>4, <2>5, <2>6, <2>7, <2>8, <2>9, <2>10, <2>11 DEF Service, Abstract!Next
<1>3. CASE UNCHANGED kernelVars
  BY <1>3 DEF kernelVars, tcbVars, mboxVars, mailboxState
<1> QED BY <1>1, <1>2, <1>3 DEF KernelNext

\* The mailbox loses no message it accepted, returns none twice and serves the most
\* urgent waiter first, for any number of tasks, messages and ticks.
THEOREM KernelImplementsMailbox == KernelSpec => ImplementsMailbox
<1>1. KernelInit => Abstract!Init
  BY DEF KernelInit, Abstract!Init
<1> QED BY <1>1, KernelStepRefines, KernelSafe, PTL DEF KernelSpec, ImplementsMailbox, Abstract!Spec
=============================================================================
