----------------------------- MODULE MutexProofs -----------------------------
(***************************************************************************)
(* The safety of the mutex for any set of tasks, users, ceiling and        *)
(* timeouts: an inductive invariant and the absence of priority inversion  *)
(* if the owner does not delay, and the implementation of PriorityLock     *)
(* whether it does or not.                                                 *)
(***************************************************************************)
EXTENDS Mutex, TLAPS, WellFoundedInduction

(***************************************************************************)
(* What Highest() returns.                                                 *)
(***************************************************************************)
\* The bitmap search returns a member, and none is more urgent.
LEMMA HighestMember ==
  ASSUME NEW S \in SUBSET Nat, S # {}
  PROVE  Highest(S) \in S /\ \A q \in S : Highest(S) <= q
<1> DEFINE Less == {ss \in Nat \X Nat : ss[1] < ss[2]}
<1>1. IsWellFoundedOn(Less, Nat)
  <2>1. OpToRel(<, Nat) = Less
    BY Zenon DEF OpToRel
  <2> QED BY <2>1, NatLessThanWellFounded
<1>2. PICK x \in S : \A q \in S : ~ (<<q, x>> \in Less)
  <2> HIDE DEF Less
  <2> QED BY <1>1, WFMin
<1>3. ASSUME NEW q \in S PROVE x <= q
  <2>1. <<q, x>> \in Nat \X Nat /\ <<q, x>>[1] = q /\ <<q, x>>[2] = x
    OBVIOUS
  <2>2. ~ (q < x)
    BY <1>2, <2>1, Zenon
  <2> QED BY <2>2
<1> QED BY <1>3 DEF Highest

\* There is only one most urgent member.
LEMMA HighestUnique ==
  ASSUME NEW S \in SUBSET Nat, NEW x \in S, \A q \in S : x <= q
  PROVE  Highest(S) = x
<1>1. Highest(S) \in S /\ Highest(S) <= x
  <2>1. S # {}
    OBVIOUS
  <2> QED BY <2>1, HighestMember
<1>2. Highest(S) \in Nat /\ x \in Nat /\ x <= Highest(S)
  BY <1>1
<1> HIDE DEF Highest
<1> QED BY <1>1, <1>2

(***************************************************************************)
(* What the invariant says of the tables and of a task that runs code.     *)
(***************************************************************************)
LEMMA Constants ==
  /\ Task \subseteq Nat /\ User \subseteq Task /\ Prio \subseteq Nat
  /\ IdlePrio \in Nat /\ PCP \in Nat /\ IdlePrio \notin Task /\ PCP \notin Task /\ PCP # IdlePrio
  /\ NoTask \notin Nat /\ Reserved \notin Nat /\ NoTask # Reserved
  /\ \A t \in Task : t < IdlePrio
  /\ \A u \in User : PCP < u
BY TaskAssumption, CeilingAssumption, NoTaskAssumption DEF Prio

\* No two tasks have one priority, and only the owner is at the ceiling.
LEMMA Priorities ==
  ASSUME TypeOK, TablesAgree
  PROVE  /\ \A t \in Task : OSTCBPrio[t] \in Nat /\ OSTCBPrio[t] < IdlePrio
         /\ \A t, u \in Task : OSTCBPrio[t] = OSTCBPrio[u] => t = u
         /\ \A t \in Task : t # OSEventPtr => OSTCBPrio[t] = t
         /\ \A t \in Task : OSTCBPrioTbl[OSTCBPrio[t]] = t
         /\ OSRdyTbl \in SUBSET Nat /\ OSRdyTbl # {}
BY Constants, CeilingAssumption DEF TypeOK, TablesAgree, AtCeiling

\* A task that executes its own code is ready, and none that is ready is more urgent.
LEMMA RunningReady ==
  ASSUME MutexInv, NEW t \in Task, OSTCBCur = t, pc[t] \in {"app", "pended"}
  PROVE  /\ OSPrioCur = OSTCBPrio[t] /\ OSTCBPrio[t] \in OSRdyTbl
         /\ OSTCBPrio[t] = Highest(OSRdyTbl)
         /\ OSTCBStat[t] = "RDY" /\ OSTCBDly[t] = 0
         /\ \A q \in OSRdyTbl : OSTCBPrio[t] <= q
<1>1. OSTCBPrio[t] = Highest(OSRdyTbl) /\ OSPrioCur = OSTCBPrio[t]
  BY DEF MutexInv, RunsHighest
<1>2. OSTCBPrio[t] \in OSRdyTbl /\ \A q \in OSRdyTbl : OSTCBPrio[t] <= q
  BY <1>1, HighestMember, Priorities DEF MutexInv
<1> QED BY <1>1, <1>2 DEF MutexInv, TablesAgree

\* While the owner is at the ceiling no other user of the mutex executes its own code.
LEMMA CeilingKeepsOut ==
  ASSUME MutexInv, NEW t \in User, OSTCBCur = t, pc[t] \in {"app", "pended"},
         OSEventPtr # NoTask, OSTCBPrio[OSEventPtr] = PCP
  PROVE  t = OSEventPtr
<1> SUFFICES ASSUME t # OSEventPtr PROVE FALSE
  OBVIOUS
<1>1. t \in Task /\ OSEventPtr \in Task
  BY Constants DEF MutexInv, TypeOK
<1>2. OSTCBPrio[t] = t /\ PCP < t
  BY <1>1, Constants, Priorities DEF MutexInv
<1>3. PCP \in OSRdyTbl
  BY <1>1 DEF MutexInv, TablesAgree, OwnerStatus
<1>4. t <= PCP
  BY <1>1, <1>2, <1>3, RunningReady
<1> QED BY <1>1, <1>2, <1>4, Constants

\* The task switched to is the one at the priority found.
LEMMA SwitchFinds ==
  ASSUME TypeOK', TablesAgree', UNCHANGED <<OSTCBPrio, OSTCBPrioTbl>>, OSRdyTbl \subseteq OSRdyTbl',
         OSTCBCur \in Task \cup {IdlePrio}, OSPrioCur \in Nat, CurrentStatus, Switch(Highest(OSRdyTbl'))
  PROVE  /\ OSPrioCur' = Highest(OSRdyTbl') /\ OSPrioCur' \in OSRdyTbl'
         /\ OSTCBCur' \in Task => OSTCBPrio'[OSTCBCur'] = OSPrioCur'
         /\ OSTCBCur' = IdlePrio => OSPrioCur' = IdlePrio
         /\ OSTCBCur' \in Task \cup {IdlePrio}
<1>1. /\ OSRdyTbl' \in SUBSET Nat /\ OSRdyTbl' # {}
      /\ \A t \in Task : OSTCBPrio'[t] \in Nat /\ OSTCBPrioTbl'[OSTCBPrio'[t]] = t
  BY Constants, CeilingAssumption DEF TypeOK, TablesAgree, AtCeiling
<1>2. Highest(OSRdyTbl') \in OSRdyTbl' /\ \A q \in OSRdyTbl' : Highest(OSRdyTbl') <= q
  BY <1>1, HighestMember
<1> DEFINE h == Highest(OSRdyTbl')
<1>3. h \in Nat /\ OSPrioCur' = h
  BY <1>1, <1>2 DEF Switch
<1>4. CASE h # OSPrioCur
  <2>1. OSTCBCur' = OSTCBPrioTbl'[h]
    BY <1>4 DEF Switch
  <2>2. h = IdlePrio \/ \E t \in Task : h = OSTCBPrio'[t]
    BY <1>2 DEF TablesAgree
  <2>3. h = IdlePrio => OSTCBPrioTbl'[h] = IdlePrio
    BY DEF TablesAgree
  <2> HIDE DEF h
  <2> QED BY <1>1, <1>2, <1>3, <2>1, <2>2, <2>3, Constants DEF h
<1>5. CASE h = OSPrioCur
  <2>1. OSTCBCur' = OSTCBCur
    BY <1>5 DEF Switch
  <2>2. ASSUME OSTCBCur \in Task PROVE OSTCBPrio[OSTCBCur] = h
    <3>1. OSTCBPrio[OSTCBCur] \in OSRdyTbl' => h <= OSTCBPrio[OSTCBCur]
      BY <1>2
    <3>2. OSTCBPrio[OSTCBCur] \in Nat
      BY <1>1, <2>2
    <3> HIDE DEF h
    <3> QED BY <1>3, <1>5, <2>2, <3>1, <3>2 DEF CurrentStatus
  <2> QED BY <1>2, <1>3, <1>5, <2>1, <2>2, Constants DEF CurrentStatus
<1> QED BY <1>4, <1>5

(***************************************************************************)
(* Each action keeps the invariant.                                        *)
(***************************************************************************)
LEMMA MutexInit == Init => MutexInv
<1> SUFFICES ASSUME Init PROVE MutexInv
  OBVIOUS
<1>1. OSRdyTbl \in SUBSET Nat /\ OSRdyTbl # {} /\ OSRdyTbl \subseteq Prio
  BY Constants DEF Init, Prio
<1>2. OSPrioCur \in OSRdyTbl
  BY <1>1, HighestMember DEF Init
<1>3. OSPrioCur \in Task \cup {IdlePrio} /\ OSTCBCur = OSPrioCur
  BY <1>2 DEF Init
<1>4. TypeOK
  BY <1>1, <1>3, Constants DEF Init, TypeOK, Prio
<1>5. TablesAgree
  BY Constants DEF Init, TablesAgree, Prio
<1>6. OwnerStatus /\ (\A t \in Task : WaitStatus(t))
  BY DEF Init, OwnerStatus, WaitStatus, Inside
<1>7. CurrentStatus /\ RunsHighest
  BY <1>3 DEF Init, CurrentStatus, RunsHighest
<1> QED BY <1>4, <1>5, <1>6, <1>7 DEF MutexInv

\* The scheduler changes nothing but who runs.
LEMMA SchedInv ==
  ASSUME MutexInv, NEW t \in Task, OS_Sched(t)
  PROVE  MutexInv'
<1> USE DEF OS_Sched, Goto, tcbVars, ecbVars
<1>1. TablesAgree'
  BY DEF MutexInv, TablesAgree, AtCeiling
<1>2. pc' \in [Task -> {"app", "sched", "pendSched", "pended"}] /\ \A u \in Task : Inside(u)' <=> Inside(u)
  BY DEF MutexInv, TypeOK, Inside
<1>3. OSPrioCur' \in Prio /\ OSTCBCur' \in Task \cup {IdlePrio}
  <2>1. /\ OSRdyTbl \in SUBSET Nat /\ OSRdyTbl # {} /\ OSRdyTbl \subseteq Prio
        /\ OSTCBCur \in Task
    BY Priorities DEF MutexInv, TypeOK
  <2>2. Highest(OSRdyTbl) \in OSRdyTbl
    BY <2>1, HighestMember
  <2>3. OSTCBPrioTbl[Highest(OSRdyTbl)] \in Task \cup {IdlePrio}
    <3>1. \A h \in OSRdyTbl : OSTCBPrioTbl[h] \in Task \cup {IdlePrio}
      BY Priorities, Constants DEF MutexInv, TablesAgree
    <3> QED BY <2>2, <3>1
  <2> QED BY <2>1, <2>2, <2>3 DEF Switch
<1>4. TypeOK'
  BY <1>2, <1>3 DEF MutexInv, TypeOK
<1>5. /\ OSPrioCur' = Highest(OSRdyTbl')
      /\ OSTCBCur' \in Task => OSTCBPrio'[OSTCBCur'] = OSPrioCur'
      /\ OSTCBCur' = IdlePrio => OSPrioCur' = IdlePrio
  BY <1>1, <1>4, SwitchFinds, Constants DEF MutexInv, TypeOK
<1>6. CurrentStatus' /\ RunsHighest'
  BY <1>5 DEF CurrentStatus, RunsHighest
<1>7. OwnerStatus'
  BY <1>2, Constants DEF MutexInv, TypeOK, OwnerStatus
<1>8. \A u \in Task : WaitStatus(u)'
  BY <1>2 DEF MutexInv, WaitStatus
<1> QED BY <1>1, <1>4, <1>6, <1>7, <1>8 DEF MutexInv

\* The timer interrupt readies the tasks it unblocks at the priority they have.
LEMMA TickInv ==
  ASSUME MutexInv, Tick
  PROVE  MutexInv'
<1> USE DEF Tick, ecbVars
<1>0. /\ OSTCBDly' \in [Task -> Nat] /\ OSTCBStat' \in [Task -> {"RDY", "MUTEX"}]
      /\ OSTCBStatPend' \in [Task -> {"OK", "TO"}]
      /\ OSRdyTbl' \subseteq Prio
  <2>1. OSTCBDly' \in [Task -> Nat]
    BY DEF MutexInv, TypeOK
  <2>2. OSTCBStat' \in [Task -> {"RDY", "MUTEX"}] /\ OSTCBStatPend' \in [Task -> {"OK", "TO"}]
    BY DEF MutexInv, TypeOK
  <2>3. OSRdyTbl' \subseteq Prio
    BY DEF MutexInv, TypeOK, Elapsed, Prio
  <2> QED BY <2>1, <2>2, <2>3
<1>1. TablesAgree'
  <2>1. \A u \in Task : OSTCBPrio[u] \in OSRdyTbl' <=> OSTCBPrio[u] \in OSRdyTbl \/ u \in Elapsed
    BY Priorities DEF MutexInv, Elapsed
  <2>2. \A u \in Task : OSTCBPrio'[u] \in OSRdyTbl' <=> OSTCBStat'[u] = "RDY" /\ OSTCBDly'[u] = 0
    BY <2>1, <1>0 DEF MutexInv, TypeOK, TablesAgree, Elapsed
  <2>3. IdlePrio \in OSRdyTbl' /\ OSRdyTbl' \subseteq {OSTCBPrio[u] : u \in Task} \cup {IdlePrio}
    BY DEF MutexInv, TablesAgree, Elapsed
  <2> QED BY <2>2, <2>3 DEF MutexInv, TablesAgree, AtCeiling
<1>3. OSPrioCur' \in Prio /\ OSTCBCur' \in Task \cup {IdlePrio}
  <2>1. /\ OSRdyTbl' \in SUBSET Nat /\ OSRdyTbl' # {}
        /\ OSTCBCur \in Task \cup {IdlePrio}
    BY <1>0, <1>1, Constants DEF MutexInv, TypeOK, TablesAgree
  <2>2. Highest(OSRdyTbl') \in OSRdyTbl'
    BY <2>1, HighestMember
  <2>3. OSTCBPrioTbl[Highest(OSRdyTbl')] \in Task \cup {IdlePrio}
    <3>1. \A h \in OSRdyTbl' : OSTCBPrioTbl[h] \in Task \cup {IdlePrio}
      BY <1>1, Priorities, Constants DEF MutexInv, TablesAgree
    <3> QED BY <2>2, <3>1
  <2> QED BY <1>0, <2>1, <2>2, <2>3 DEF Switch
<1>4. TypeOK'
  BY <1>0, <1>3 DEF MutexInv, TypeOK
<1>5. /\ OSPrioCur' = Highest(OSRdyTbl')
      /\ OSTCBCur' \in Task => OSTCBPrio'[OSTCBCur'] = OSPrioCur'
      /\ OSTCBCur' = IdlePrio => OSPrioCur' = IdlePrio
  BY <1>1, <1>4, SwitchFinds, Constants DEF MutexInv, TypeOK
<1>6. CurrentStatus' /\ RunsHighest'
  BY <1>5 DEF CurrentStatus, RunsHighest
<1>7. OwnerStatus'
  BY Constants DEF MutexInv, TypeOK, OwnerStatus, Elapsed, Inside
<1>8. \A u \in Task : WaitStatus(u)'
  BY DEF MutexInv, TypeOK, WaitStatus, Inside, Elapsed
<1> QED BY <1>1, <1>4, <1>6, <1>7, <1>8 DEF MutexInv

\* Only a task that does not own the mutex goes to sleep.
LEMMA TimeDlyInv ==
  ASSUME MutexInv, ~OwnerDelays, NEW t \in Task, NEW n \in Nat, OSTimeDly(t, n)
  PROVE  MutexInv'
<1> USE DEF OSTimeDly, Goto, At, ecbVars
<1>1. t # OSEventPtr /\ n > 0 /\ OSTCBCur = t /\ pc[t] = "app"
  OBVIOUS
<1>2. /\ OSPrioCur = OSTCBPrio[t] /\ OSTCBPrio[t] \in OSRdyTbl
      /\ OSTCBStat[t] = "RDY" /\ OSTCBDly[t] = 0
  BY <1>1, RunningReady
<1>3. TypeOK'
  BY DEF MutexInv, TypeOK
<1>4. TablesAgree'
  <2>1. \A u \in Task : OSTCBPrio[u] \in OSRdyTbl' <=> OSTCBPrio[u] \in OSRdyTbl /\ u # t
    BY Priorities DEF MutexInv
  <2>2. \A u \in Task : OSTCBPrio'[u] \in OSRdyTbl' <=> OSTCBStat'[u] = "RDY" /\ OSTCBDly'[u] = 0
    BY <2>1, <1>1, <1>2 DEF MutexInv, TypeOK, TablesAgree
  <2>3. IdlePrio \in OSRdyTbl' /\ OSRdyTbl' \subseteq {OSTCBPrio[u] : u \in Task} \cup {IdlePrio}
    BY Priorities DEF MutexInv, TablesAgree
  <2> QED BY <2>2, <2>3 DEF MutexInv, TablesAgree, AtCeiling
<1>5. OwnerStatus'
  BY <1>1, Constants DEF MutexInv, TypeOK, OwnerStatus, Inside
<1>6. CurrentStatus' /\ RunsHighest'
  BY <1>1, <1>2, Constants DEF MutexInv, TypeOK, CurrentStatus, RunsHighest
<1>7. \A u \in Task : WaitStatus(u)'
  BY <1>1, <1>2 DEF MutexInv, TypeOK, WaitStatus, Inside
<1> QED BY <1>3, <1>4, <1>5, <1>6, <1>7 DEF MutexInv

(***************************************************************************)
(* The mutex services.                                                     *)
(***************************************************************************)
\* A free mutex has no waiters, and everybody who was told to own it has released it.
LEMMA TakeInv ==
  ASSUME MutexInv, NEW t \in User, At(t, "app"), OSEventType = "MUTEX", Take(t)
  PROVE  MutexInv'
<1> USE DEF Take, At, tcbVars
<1>1. t \in Task /\ OSTCBCur = t /\ pc[t] = "app" /\ OSEventPtr = NoTask
  BY Constants DEF MutexInv, OwnerStatus
<1>2. OSEventTbl = {} /\ holds = {} /\ (\A u \in Task : ~ Inside(u))
  BY <1>1, Constants DEF MutexInv, TypeOK, OwnerStatus, WaitStatus
<1>3. \A u \in Task : OSTCBPrio[u] = u
  BY <1>1, Constants, Priorities DEF MutexInv
<1>4. OSTCBStat[t] = "RDY" /\ OSTCBDly[t] = 0
  BY <1>1, RunningReady
<1>5. TypeOK'
  BY <1>1 DEF MutexInv, TypeOK
<1>6. TablesAgree'
  BY <1>3, <1>1 DEF MutexInv, TablesAgree
<1>7. OwnerStatus'
  BY <1>1, <1>2, <1>3, <1>4, Constants DEF OwnerStatus
<1>8. CurrentStatus' /\ RunsHighest'
  BY DEF MutexInv, CurrentStatus, RunsHighest
<1>9. \A u \in Task : WaitStatus(u)'
  <2>1. \A u \in Task : ~ Inside(u)'
    BY <1>2 DEF Inside
  <2> QED BY <1>2, <2>1 DEF MutexInv, WaitStatus
<1> QED BY <1>5, <1>6, <1>7, <1>8, <1>9 DEF MutexInv

\* The owner, not promoted so far, is as urgent as its waiters when the pend is over.
LEMMA PendWaitInv ==
  ASSUME MutexInv, NEW t \in User, NEW n \in Nat, At(t, "app"), OSEventType = "MUTEX",
         OSEventPtr # t, PendWait(t, n)
  PROVE  MutexInv'
<1> USE DEF PendWait, At, Goto
<1>1. t \in Task /\ OSTCBCur = t /\ pc[t] = "app"
  BY Constants
<1>2. OSEventPtr \in User /\ OSEventPtr \in Task /\ OSEventPtr # NoTask /\ OSOwnerPrio = OSEventPtr
  BY Constants DEF MutexInv, TypeOK, OwnerStatus
<1>3. OSTCBPrio[t] = t /\ OSTCBPrio[OSEventPtr] = OSEventPtr
  BY <1>1, <1>2, CeilingKeepsOut, Priorities DEF MutexInv, TablesAgree, AtCeiling
<1>4. \A u \in Task : OSTCBPrio[u] = u
  BY <1>2, <1>3, Priorities DEF MutexInv
<1>5. ToPromote(t) <=> OSEventPtr > t
  BY <1>2, <1>3, Constants DEF ToPromote
<1>6. OSTCBStat[t] = "RDY" /\ OSTCBDly[t] = 0 /\ OSPrioCur = t
  BY <1>1, <1>3, RunningReady
<1>7. OSEventPtr \in OSRdyTbl
  BY <1>2, <1>3 DEF MutexInv, TablesAgree, OwnerStatus
<1>8. /\ \A u \in Task : OSTCBPrio'[u] = IF u = OSEventPtr /\ OSEventPtr > t THEN PCP ELSE u
      /\ OSTCBPrioTbl'[PCP] = IF OSEventPtr > t THEN OSEventPtr ELSE OSTCBPrioTbl[PCP]
      /\ \A p \in Task \cup {IdlePrio} : OSTCBPrioTbl'[p] = OSTCBPrioTbl[p]
      /\ OSTCBPrioTbl' \in [Prio -> Prio \cup {Reserved, NoTask}]
      /\ OSTCBPrio' \in [Task -> Task \cup {PCP}]
  BY <1>2, <1>4, <1>5, Constants DEF MutexInv, TypeOK, Prio
<1>9. OSRdyTbl' = IF OSEventPtr > t THEN ((OSRdyTbl \ {OSEventPtr}) \cup {PCP}) \ {t} ELSE OSRdyTbl \ {t}
  BY <1>3, <1>5, <1>7 DEF Promoted
<1>10. OSEventTbl' = OSEventTbl \cup {t}
  BY <1>3
<1>11. TypeOK'
  <2>1. OSRdyTbl' \subseteq Prio
    BY <1>9 DEF MutexInv, TypeOK, Prio
  <2> QED BY <1>8, <1>10, <2>1 DEF MutexInv, TypeOK
<1>12. TablesAgree'
  <2>1. \A u \in Task : OSTCBPrio'[u] \in OSRdyTbl' <=> u # t /\ u \in OSRdyTbl
    BY <1>2, <1>7, <1>8, <1>9, Constants DEF MutexInv, TypeOK, TablesAgree
  <2>2. \A u \in Task : OSTCBPrio'[u] \in OSRdyTbl' <=> OSTCBStat'[u] = "RDY" /\ OSTCBDly'[u] = 0
    BY <2>1, <1>1, <1>4 DEF MutexInv, TypeOK, TablesAgree
  <2>3. IdlePrio \in OSRdyTbl' /\ OSRdyTbl' \subseteq {OSTCBPrio'[u] : u \in Task} \cup {IdlePrio}
    <3>1. ASSUME NEW q \in OSRdyTbl' PROVE q = IdlePrio \/ \E u \in Task : q = OSTCBPrio'[u]
      <4>1. CASE q = PCP /\ OSEventPtr > t
        BY <4>1, <1>2, <1>8
      <4>2. CASE q \in OSRdyTbl /\ ~ (q = OSEventPtr /\ OSEventPtr > t)
        <5>1. q = IdlePrio \/ q \in Task
          BY <4>2, <1>4 DEF MutexInv, TablesAgree
        <5> QED BY <5>1, <4>2, <1>8
      <4> QED BY <4>1, <4>2, <1>9, <1>2, Constants
    <3>2. IdlePrio \in OSRdyTbl'
      BY <1>1, <1>2, <1>9, Constants DEF MutexInv, TablesAgree
    <3> QED BY <3>1, <3>2
  <2>4. \A u \in Task : OSTCBPrio'[u] = u \/ AtCeiling(u)'
    BY <1>8 DEF AtCeiling
  <2> QED BY <1>8, <2>2, <2>3, <2>4 DEF MutexInv, TablesAgree
<1>13. OwnerStatus'
  <2>1. \A w \in OSEventTbl' : OSTCBPrio'[OSEventPtr] <= w
    BY <1>2, <1>3, <1>8, <1>10, Constants DEF MutexInv, TypeOK, OwnerStatus
  <2>2. Inside(OSEventPtr)' \/ OSEventPtr \in holds
    BY <1>2 DEF MutexInv, OwnerStatus, Inside, TypeOK
  <2>3. OSTCBStat'[OSEventPtr] = "RDY" /\ OSTCBDly'[OSEventPtr] = 0
    BY <1>2 DEF MutexInv, OwnerStatus, TypeOK
  <2> QED BY <1>2, <1>10, <2>1, <2>2, <2>3 DEF MutexInv, OwnerStatus
<1>14. CurrentStatus' /\ RunsHighest'
  BY <1>1, <1>6, <1>8, <1>2, Constants DEF MutexInv, TypeOK, CurrentStatus, RunsHighest
<1>15. \A u \in Task : WaitStatus(u)'
  BY <1>1, <1>2, <1>6, <1>10 DEF MutexInv, TypeOK, WaitStatus, Inside
<1> QED BY <1>11, <1>12, <1>13, <1>14, <1>15 DEF MutexInv

\* A task whose time is up leaves the wait list of an owner that is not at the ceiling.
LEMMA PendReturnInv ==
  ASSUME MutexInv, NEW t \in Task, PendReturn(t)
  PROVE  MutexInv'
<1> USE DEF PendReturn, At, Goto
<1>1. OSTCBCur = t /\ pc[t] = "pended" /\ Inside(t)
  BY DEF Inside
<1>2. /\ OSTCBStat[t] = "RDY" /\ OSTCBDly[t] = 0
      /\ OSPrioCur = OSTCBPrio[t] /\ OSPrioCur = Highest(OSRdyTbl)
  BY <1>1, RunningReady
<1>3. OSTCBStatPend[t] = "OK" => t \notin OSEventTbl /\ holds' = holds \cup {t} /\ OSEventTbl' = OSEventTbl
  BY <1>2 DEF MutexInv, WaitStatus
<1>4. OSTCBStatPend[t] # "OK" =>
        /\ t \in User /\ t # OSEventPtr /\ OSEventPtr # NoTask
        /\ OSEventTbl' = OSEventTbl \ {t} /\ holds' = holds
        /\ OSTCBPrio[OSEventPtr] # PCP
  <2> SUFFICES ASSUME OSTCBStatPend[t] # "OK"
               PROVE  /\ t \in User /\ t # OSEventPtr /\ OSEventPtr # NoTask
                      /\ OSEventTbl' = OSEventTbl \ {t} /\ holds' = holds
                      /\ OSTCBPrio[OSEventPtr] # PCP
    OBVIOUS
  <2>1. t \in OSEventTbl
    BY DEF MutexInv, TypeOK, WaitStatus
  <2>2. t \in User /\ t # OSEventPtr /\ OSEventPtr # NoTask
    BY <2>1 DEF MutexInv, TypeOK, WaitStatus
  <2>3. OSTCBPrio[t] = t
    BY <2>2, Priorities DEF MutexInv
  <2>4. OSTCBPrio[OSEventPtr] # PCP
    BY <1>1, <2>2, CeilingKeepsOut
  <2> QED BY <2>2, <2>3, <2>4
<1>5. TypeOK'
  BY <1>3, <1>4 DEF MutexInv, TypeOK
<1>6. TablesAgree'
  <2>1. \A u \in Task : OSTCBStat'[u] = OSTCBStat[u]
    BY <1>2 DEF MutexInv, TypeOK
  <2> QED BY <2>1 DEF MutexInv, TablesAgree, AtCeiling
<1>7. OwnerStatus'
  BY <1>1, <1>2, <1>3, <1>4, Constants DEF MutexInv, TypeOK, OwnerStatus, WaitStatus, Inside
<1>8. CurrentStatus' /\ RunsHighest'
  BY <1>1, <1>2, Constants DEF MutexInv, CurrentStatus, RunsHighest
<1>9. \A u \in Task : WaitStatus(u)'
  BY <1>1, <1>2, <1>3, <1>4 DEF MutexInv, TypeOK, WaitStatus, Inside
<1> QED BY <1>5, <1>6, <1>7, <1>8, <1>9 DEF MutexInv

\* A priority in the wait list is that of the task which waits there.
LEMMA WaitersNamed ==
  ASSUME TypeOK, TablesAgree, NEW S \in SUBSET OSEventTbl
  PROVE  {OSTCBPrioTbl[p] : p \in S} = S /\ S \subseteq User /\ S \in SUBSET Nat
<1>1. S \subseteq User /\ S \subseteq Task
  BY Constants DEF TypeOK
<1>2. \A p \in S : OSTCBPrioTbl[p] = p
  BY <1>1 DEF TablesAgree
<1> QED BY <1>1, <1>2, Constants

\* The most urgent waiter becomes the owner, at its own priority; so does the old owner
\* return to its own, and OS_Sched() is called if there was a waiter.
LEMMA PostInv ==
  ASSUME MutexInv, NEW t \in Task, OSMutexPost(t)
  PROVE  MutexInv'
<1> USE DEF OSMutexPost, At, Goto
<1> DEFINE F == FirstOf(OSEventTbl)
<1>1. OSTCBCur = t /\ pc[t] = "app" /\ OSEventPtr = t /\ OSEventType = "MUTEX"
      /\ OSEventPtr # NoTask /\ OSOwnerPrio = t
  BY Constants DEF MutexInv, OwnerStatus
<1>2. /\ F \subseteq OSEventTbl /\ (OSEventTbl = {} <=> F = {})
      /\ OSEventTbl # {} => /\ Highest(OSEventTbl) \in OSEventTbl /\ F = {Highest(OSEventTbl)}
                            /\ \A w \in OSEventTbl : Highest(OSEventTbl) <= w
  <2>1. OSEventTbl \in SUBSET Nat
    BY WaitersNamed DEF MutexInv
  <2> QED BY <2>1, HighestMember DEF FirstOf
<1>3. F \subseteq User /\ F \subseteq Task /\ {OSTCBPrioTbl[p] : p \in F} = F
  <2>1. {OSTCBPrioTbl[p] : p \in F} = F /\ F \subseteq User
    <3> HIDE DEF F
    <3> QED BY <1>2, WaitersNamed DEF MutexInv
  <2> QED BY <2>1, Constants
<1>4. /\ OSPrioCur = OSTCBPrio[t] /\ OSTCBPrio[t] \in OSRdyTbl
      /\ OSPrioCur = Highest(OSRdyTbl)
  BY <1>1, RunningReady
<1>5. /\ OSTCBPrio' \in [Task -> Task \cup {PCP}]
      /\ \A u \in Task : OSTCBPrio'[u] = u
      /\ OSPrioCur' = t
      /\ OSRdyTbl' = (IF OSTCBPrio[t] = PCP THEN (OSRdyTbl \ {PCP}) \cup {t} ELSE OSRdyTbl) \cup F
  <2>1. \A u \in Task : u # t => OSTCBPrio[u] = u
    BY <1>1, Priorities DEF MutexInv
  <2>2. OSTCBPrio[t] = t \/ OSTCBPrio[t] = PCP
    BY DEF MutexInv, TablesAgree, AtCeiling
  <2>3. OSTCBPrio \in [Task -> Task \cup {PCP}]
    BY DEF MutexInv, TypeOK
  <2> HIDE DEF F
  <2> QED BY <1>1, <1>4, <2>1, <2>2, <2>3, Constants DEF RdyAtPrio, Restored, F
<1>6. /\ OSTCBStat' \in [Task -> {"RDY", "MUTEX"}] /\ OSTCBStatPend' \in [Task -> {"OK", "TO"}]
      /\ OSTCBDly' \in [Task -> Nat]
      /\ \A u \in Task : /\ OSTCBStat'[u] = IF u \in F THEN "RDY" ELSE OSTCBStat[u]
                         /\ OSTCBStatPend'[u] = IF u \in F THEN "OK" ELSE OSTCBStatPend[u]
                         /\ OSTCBDly'[u] = IF u \in F THEN 0 ELSE OSTCBDly[u]
  <2> HIDE DEF F
  <2>1. Readied(F)
    BY <1>3 DEF F
  <2>2. /\ OSTCBStat \in [Task -> {"RDY", "MUTEX"}] /\ OSTCBStatPend \in [Task -> {"OK", "TO"}]
        /\ OSTCBDly \in [Task -> Nat]
    BY DEF MutexInv, TypeOK
  <2> QED BY <2>1, <2>2 DEF Readied
<1>7. /\ OSEventTbl' = OSEventTbl \ F /\ holds' = {}
      /\ F = {} => OSEventPtr' = NoTask /\ pc' = pc
      /\ OSOwnerPrio' = OSEventPtr'
      /\ F # {} => /\ F = {OSEventPtr'} /\ OSEventPtr' \in OSEventTbl
                   /\ \A w \in OSEventTbl : OSEventPtr' <= w
                   /\ pc' = [pc EXCEPT ![t] = "sched"]
  <2>1. holds' = {}
    BY <1>1 DEF MutexInv, OwnerStatus
  <2>2. F # {} => OSTCBPrioTbl[Highest(OSEventTbl)] = Highest(OSEventTbl)
    BY <1>2, <1>3 DEF MutexInv, TablesAgree
  <2> QED BY <1>2, <2>1, <2>2
<1>8. TypeOK'
  <2>1. OSRdyTbl' \subseteq Prio
    <3> HIDE DEF F
    <3> QED BY <1>3, <1>5 DEF MutexInv, TypeOK, Prio
  <2>2. OSEventPtr' \in User \cup {NoTask}
    BY <1>3, <1>7
  <2>3. OSTCBPrioTbl' \in [Prio -> Prio \cup {Reserved, NoTask}]
    BY DEF MutexInv, TypeOK
  <2>4. pc' \in [Task -> {"app", "sched", "pendSched", "pended"}]
    BY <1>7 DEF MutexInv, TypeOK
  <2> HIDE DEF F
  <2>5. OSPrioCur' \in Prio /\ OSTCBCur' = OSTCBCur /\ OSEventType' = OSEventType
    BY <1>5 DEF Prio
  <2> QED BY <1>5, <1>6, <1>7, <2>1, <2>2, <2>3, <2>4, <2>5 DEF MutexInv, TypeOK
<1> HIDE DEF F
<1>9. TablesAgree'
  <2>1. \A u \in Task : u \in OSRdyTbl' <=> OSTCBPrio[u] \in OSRdyTbl \/ u \in F
    <3>1. \A u \in Task : u # t => OSTCBPrio[u] = u
      BY <1>1, Priorities DEF MutexInv
    <3>2. OSTCBPrio[t] = t \/ OSTCBPrio[t] = PCP
      BY DEF MutexInv, TablesAgree, AtCeiling
    <3>3. PCP \notin Task /\ \A u \in Task : OSTCBPrio[u] = u \/ u = t
      BY <3>1, Constants
    <3>4. CASE OSTCBPrio[t] = PCP
      <4>1. OSRdyTbl' = ((OSRdyTbl \ {PCP}) \cup {t}) \cup F
        BY <1>5, <3>4, Zenon
      <4> QED BY <4>1, <1>4, <3>3, <3>4
    <3>5. CASE OSTCBPrio[t] # PCP
      <4>1. OSRdyTbl' = OSRdyTbl \cup F /\ OSTCBPrio[t] = t
        BY <1>5, <3>2, <3>5, Zenon
      <4> QED BY <4>1, <3>3
    <3> QED BY <3>4, <3>5
  <2>2. \A u \in F : OSTCBStat'[u] = "RDY" /\ OSTCBDly'[u] = 0
    BY <1>3, <1>6
  <2>3. \A u \in Task : OSTCBPrio'[u] \in OSRdyTbl' <=> OSTCBStat'[u] = "RDY" /\ OSTCBDly'[u] = 0
    BY <1>5, <1>6, <2>1, <2>2 DEF MutexInv, TablesAgree
  <2>4. IdlePrio \in OSRdyTbl' /\ OSRdyTbl' \subseteq {OSTCBPrio'[u] : u \in Task} \cup {IdlePrio}
    <3>1. \A q \in OSRdyTbl' : q = IdlePrio \/ q \in Task
      <4>1. \A q \in OSRdyTbl : q = IdlePrio \/ q = OSTCBPrio[t] \/ q \in Task
        BY <1>1, Priorities DEF MutexInv, TablesAgree
      <4> QED BY <1>3, <1>5, <4>1 DEF MutexInv, TablesAgree, AtCeiling
    <3>2. IdlePrio \in OSRdyTbl /\ IdlePrio # PCP
      BY Constants DEF MutexInv, TablesAgree
    <3>3. IdlePrio \in OSRdyTbl'
      BY <1>5, <3>2
    <3> QED BY <1>5, <3>1, <3>3
  <2>5. \A p \in Task \cup {IdlePrio} : OSTCBPrioTbl'[p] = p
    BY Constants DEF MutexInv, TypeOK, TablesAgree
  <2> QED BY <1>5, <2>3, <2>4, <2>5 DEF TablesAgree
<1>10. OwnerStatus'
  <2>1. CASE F = {}
    BY <2>1, <1>1, <1>7 DEF OwnerStatus
  <2>2. CASE F # {}
    <3>1. OSEventPtr' \in Task /\ OSEventPtr' \in F
      BY <2>2, <1>3, <1>7
    <3> DEFINE o == OSEventPtr'
    <3>2. Inside(o) /\ o # t
      BY <2>2, <1>1, <1>7, <3>1 DEF MutexInv, WaitStatus
    <3>3. pc'[o] = pc[o]
      <4>1. pc \in [Task -> {"app", "sched", "pendSched", "pended"}]
        BY DEF MutexInv, TypeOK
      <4>2. pc' = [pc EXCEPT ![t] = "sched"]
        BY <2>2, <1>7
      <4> HIDE DEF o
      <4> QED BY <3>1, <3>2, <4>1, <4>2 DEF o
    <3>4. Inside(OSEventPtr)'
      BY <3>2, <3>3 DEF Inside
    <3>5. OSTCBPrio'[o] = o /\ o # PCP /\ o # NoTask
      BY <3>1, <1>5, Constants
    <3>6. OSTCBStat'[o] = "RDY" /\ OSTCBDly'[o] = 0
      BY <3>1, <1>6
    <3>7. \A w \in OSEventTbl' : o <= w
      BY <2>2, <1>7
    <3>8. OSEventType' = "MUTEX" /\ OSOwnerPrio' = o /\ holds' = {}
      BY <1>1, <1>7
    <3> QED BY <3>4, <3>5, <3>6, <3>7, <3>8 DEF OwnerStatus
  <2> QED BY <2>1, <2>2
<1>11. CurrentStatus' /\ RunsHighest'
  <2>1. F = {} => OSTCBPrio[t] = t
    BY <1>1, <1>2 DEF MutexInv, OwnerStatus, TablesAgree, AtCeiling, F
  <2>2. F # {} => pc'[t] = "sched"
    BY <1>7 DEF MutexInv, TypeOK
  <2>3. OSTCBCur' = t /\ OSTCBPrio'[t] = OSPrioCur' /\ t # IdlePrio
    BY <1>1, <1>5, Constants
  <2>4. F = {} => OSRdyTbl' = OSRdyTbl
    BY <1>5, <2>1, Constants
  <2> QED BY <1>4, <1>5, <2>1, <2>2, <2>3, <2>4 DEF CurrentStatus, RunsHighest
<1>12. \A u \in Task : WaitStatus(u)'
  <2>1. \A u \in Task : u # t => pc'[u] = pc[u]
    <3>1. pc \in [Task -> {"app", "sched", "pendSched", "pended"}]
      BY DEF MutexInv, TypeOK
    <3> QED BY <1>7, <3>1
  <2>2. \A u \in Task : Inside(u)' <=> Inside(u)
    BY <1>1, <1>7, <2>1 DEF MutexInv, TypeOK, Inside
  <2> SUFFICES ASSUME NEW u \in Task PROVE WaitStatus(u)'
    OBVIOUS
  <2>3. WaitStatus(u) /\ ~ Inside(t)
    BY <1>1 DEF MutexInv, Inside
  <2>4. CASE u \in F
    <3>1. u \in OSEventTbl /\ u \notin OSEventTbl'
      BY <2>4, <1>2, <1>7, Zenon
    <3>2. OSTCBStat'[u] = "RDY" /\ OSTCBStatPend'[u] = "OK" /\ OSTCBDly'[u] = 0
      BY <2>4, <1>6, Zenon
    <3>3. OSEventPtr' = u
      <4>1. F = {OSEventPtr'}
        BY <2>4, <1>7, Zenon
      <4> QED BY <2>4, <4>1, Zenon
    <3> QED BY <3>1, <3>2, <3>3 DEF WaitStatus
  <2>5. CASE u \notin F
    <3>1. u \in OSEventTbl' => OSEventPtr' \notin {u, NoTask}
      BY <2>5, <1>2, <1>3, <1>7, Constants
    <3>2. u \in OSEventTbl' <=> u \in OSEventTbl
      BY <2>5, <1>7
    <3>3. Inside(u) => u \in OSEventTbl
      BY <1>1, <2>3 DEF WaitStatus
    <3> QED BY <2>2, <2>3, <2>5, <3>1, <3>2, <3>3, <1>6 DEF WaitStatus
  <2> QED BY <2>4, <2>5
<1> QED BY <1>8, <1>9, <1>10, <1>11, <1>12 DEF MutexInv

\* All waiters are made ready.  Another task than the promoted owner runs only if it is
\* more urgent than the ceiling, and then it calls OS_Sched() with OSPrioCur too low.
LEMMA DelInv ==
  ASSUME MutexInv, NEW t \in Task, OSMutexDel(t)
  PROVE  MutexInv'
<1> USE DEF OSMutexDel, At, Goto
<1> DEFINE Promoted0 == OSEventPtr # NoTask /\ OSTCBPrio[OSEventPtr] = PCP
<1>1. /\ OSTCBCur = t /\ pc[t] = "app" /\ OSEventType = "MUTEX" /\ OSOwnerPrio = OSEventPtr
      /\ OSEventPtr \in Task \cup {NoTask} /\ NoTask \notin Task
      /\ Promoted0 => OSEventTbl # {} /\ OSEventPtr \in Task
  BY Constants DEF MutexInv, TypeOK, OwnerStatus
<1>2. OSEventTbl \subseteq Task /\ OSEventTbl \subseteq User /\ {OSTCBPrioTbl[p] : p \in OSEventTbl} = OSEventTbl
  BY WaitersNamed, Constants DEF MutexInv
<1>3. /\ OSPrioCur = OSTCBPrio[t] /\ OSTCBPrio[t] \in OSRdyTbl
      /\ OSPrioCur = Highest(OSRdyTbl) /\ \A q \in OSRdyTbl : OSTCBPrio[t] <= q
  BY <1>1, RunningReady
<1>4. /\ \A u \in Task : OSTCBPrio[u] = IF Promoted0 /\ u = OSEventPtr THEN PCP ELSE u
      /\ Promoted0 => PCP \in OSRdyTbl
  <2>1. \A u \in Task : u # OSEventPtr => OSTCBPrio[u] = u
    BY Priorities DEF MutexInv
  <2>2. Promoted0 => PCP \in OSRdyTbl
    BY <1>1 DEF MutexInv, TablesAgree, OwnerStatus
  <2> QED BY <1>1, <2>1, <2>2 DEF MutexInv, TablesAgree, AtCeiling
<1>5. /\ OSTCBPrio' \in [Task -> Task \cup {PCP}]
      /\ \A u \in Task : OSTCBPrio'[u] = u
      /\ OSPrioCur' = (IF Promoted0 THEN OSEventPtr ELSE OSPrioCur)
      /\ OSRdyTbl' = (IF Promoted0 THEN (OSRdyTbl \ {PCP}) \cup {OSEventPtr} ELSE OSRdyTbl) \cup OSEventTbl
  <2>1. OSTCBPrio \in [Task -> Task \cup {PCP}]
    BY DEF MutexInv, TypeOK
  <2>2. CASE Promoted0
    BY <2>1, <2>2, <1>1, <1>4 DEF RdyAtPrio, Restored
  <2>3. CASE ~ Promoted0
    BY <2>1, <2>3, <1>4
  <2> QED BY <2>2, <2>3
<1>6. /\ OSTCBStat' \in [Task -> {"RDY", "MUTEX"}] /\ OSTCBStatPend' \in [Task -> {"OK", "TO"}]
      /\ OSTCBDly' \in [Task -> Nat]
      /\ \A u \in Task : /\ OSTCBStat'[u] = IF u \in OSEventTbl THEN "RDY" ELSE OSTCBStat[u]
                         /\ OSTCBStatPend'[u] = IF u \in OSEventTbl THEN "OK" ELSE OSTCBStatPend[u]
                         /\ OSTCBDly'[u] = IF u \in OSEventTbl THEN 0 ELSE OSTCBDly[u]
  <2>1. Readied(OSEventTbl)
    BY <1>2
  <2>2. /\ OSTCBStat \in [Task -> {"RDY", "MUTEX"}] /\ OSTCBStatPend \in [Task -> {"OK", "TO"}]
        /\ OSTCBDly \in [Task -> Nat]
    BY DEF MutexInv, TypeOK
  <2> QED BY <2>1, <2>2 DEF Readied
<1>7. /\ pc' \in [Task -> {"app", "sched", "pendSched", "pended"}]
      /\ pc'[t] = IF OSEventTbl = {} THEN "app" ELSE "sched"
      /\ OSEventType' = "UNUSED" /\ OSOwnerPrio' = NoTask /\ OSEventPtr' = NoTask /\ OSEventTbl' = {}
      /\ OSTCBCur' = t /\ holds' = holds
      /\ \A u \in Task : Inside(u)' <=> Inside(u)
  <2>1. pc \in [Task -> {"app", "sched", "pendSched", "pended"}]
    BY DEF MutexInv, TypeOK
  <2>2. pc' = [pc EXCEPT ![t] = IF OSEventTbl = {} THEN "app" ELSE "sched"]
    OBVIOUS
  <2>3. pc' \in [Task -> {"app", "sched", "pendSched", "pended"}]
    BY <2>1, <2>2
  <2>4. \A u \in Task : Inside(u)' <=> Inside(u)
    BY <1>1, <2>1, <2>2 DEF Inside
  <2> QED BY <1>1, <2>1, <2>2, <2>3, <2>4
<1>8. TypeOK'
  <2>1. OSRdyTbl' \subseteq Prio
    BY <1>1, <1>2, <1>5 DEF MutexInv, TypeOK, Prio
  <2>2. OSTCBPrioTbl' \in [Prio -> Prio \cup {Reserved, NoTask}]
    BY DEF MutexInv, TypeOK
  <2>3. OSPrioCur' \in Prio
    BY <1>1, <1>5 DEF MutexInv, TypeOK, Prio
  <2> QED BY <1>5, <1>6, <1>7, <2>1, <2>2, <2>3 DEF MutexInv, TypeOK
<1>9. TablesAgree'
  <2>1. \A u \in Task : u \in OSRdyTbl' <=> OSTCBPrio[u] \in OSRdyTbl \/ u \in OSEventTbl
    BY <1>1, <1>4, <1>5, Constants
  <2>2. \A u \in OSEventTbl : OSTCBStat'[u] = "RDY" /\ OSTCBDly'[u] = 0
    BY <1>2, <1>6
  <2>3. \A u \in Task : OSTCBPrio'[u] \in OSRdyTbl' <=> OSTCBStat'[u] = "RDY" /\ OSTCBDly'[u] = 0
    BY <1>5, <1>6, <2>1, <2>2 DEF MutexInv, TablesAgree
  <2>4. IdlePrio \in OSRdyTbl' /\ OSRdyTbl' \subseteq {OSTCBPrio'[u] : u \in Task} \cup {IdlePrio}
    <3>1. \A q \in OSRdyTbl : q = IdlePrio \/ q \in Task \/ (Promoted0 /\ q = PCP)
      BY <1>4 DEF MutexInv, TablesAgree
    <3>2. \A q \in OSRdyTbl' : q = IdlePrio \/ q \in Task
      BY <1>1, <1>2, <1>5, <3>1
    <3>3. IdlePrio \in OSRdyTbl /\ IdlePrio # PCP
      BY Constants DEF MutexInv, TablesAgree
    <3>4. IdlePrio \in OSRdyTbl'
      BY <1>5, <3>3
    <3> QED BY <1>5, <3>2, <3>4
  <2>5. \A p \in Task \cup {IdlePrio} : OSTCBPrioTbl'[p] = p
    BY Constants DEF MutexInv, TypeOK, TablesAgree
  <2> QED BY <1>5, <2>3, <2>4, <2>5 DEF TablesAgree
<1>10. OwnerStatus'
  BY <1>7 DEF OwnerStatus
<1>11. CurrentStatus' /\ RunsHighest'
  <2>1. t # IdlePrio
    BY Constants
  <2>2. CASE Promoted0
    <3>1. pc'[t] = "sched"
      BY <1>1, <1>7, <2>2
    <3>2. ASSUME t # OSEventPtr PROVE t \in OSRdyTbl' /\ t < OSEventPtr
      <4>1. t <= PCP /\ t \in OSRdyTbl /\ t # PCP
        BY <1>3, <1>4, <2>2, <3>2, Constants
      <4>2. PCP < OSEventPtr /\ PCP \in Nat /\ OSEventPtr \in Nat /\ t \in Nat
        BY <2>2, Constants DEF MutexInv, TypeOK
      <4> QED BY <1>5, <4>1, <4>2
    <3> QED BY <1>5, <1>7, <2>1, <2>2, <3>1, <3>2 DEF CurrentStatus, RunsHighest
  <2>3. CASE ~ Promoted0
    <3>1. OSPrioCur' = OSTCBPrio'[t]
      BY <2>3, <1>3, <1>4, <1>5
    <3>2. pc'[t] = "app" => OSRdyTbl' = OSRdyTbl
      BY <2>3, <1>5, <1>7
    <3> QED BY <1>3, <1>5, <1>7, <2>1, <2>3, <3>1, <3>2 DEF CurrentStatus, RunsHighest
  <2> QED BY <2>2, <2>3
<1>12. \A u \in Task : WaitStatus(u)'
  <2> SUFFICES ASSUME NEW u \in Task PROVE WaitStatus(u)'
    OBVIOUS
  <2>1. WaitStatus(u)
    BY DEF MutexInv
  <2> QED BY <1>6, <1>7, <2>1 DEF WaitStatus
<1> QED BY <1>8, <1>9, <1>10, <1>11, <1>12 DEF MutexInv

\* With nobody waiting the owner is not at the ceiling, so no priority is lost.
LEMMA DelNoPendInv ==
  ASSUME MutexInv, NEW t \in Task, OSMutexDelNoPend(t)
  PROVE  MutexInv'
<1> USE DEF OSMutexDelNoPend, At, tcbVars
<1>1. \A u \in Task : OSTCBPrio[u] = u
  BY Constants DEF MutexInv, TablesAgree, AtCeiling, OwnerStatus
<1>2. TypeOK'
  BY DEF MutexInv, TypeOK
<1>3. TablesAgree'
  <2>1. \A p \in Task \cup {IdlePrio} : OSTCBPrioTbl'[p] = p
    BY Constants DEF MutexInv, TypeOK, TablesAgree
  <2> QED BY <1>1, <2>1 DEF MutexInv, TablesAgree
<1>4. OwnerStatus' /\ CurrentStatus' /\ RunsHighest'
  BY DEF MutexInv, OwnerStatus, CurrentStatus, RunsHighest
<1>5. \A u \in Task : WaitStatus(u)'
  BY DEF MutexInv, WaitStatus, Inside
<1> QED BY <1>2, <1>3, <1>4, <1>5 DEF MutexInv

LEMMA MutexNext ==
  ASSUME ~OwnerDelays, MutexInv, [Next]_vars
  PROVE  MutexInv'
<1>1. CASE UNCHANGED vars
  BY <1>1 DEF vars, tcbVars, ecbVars, MutexInv, TypeOK, TablesAgree, AtCeiling, OwnerStatus,
              CurrentStatus, RunsHighest, WaitStatus, Inside
<1>2. CASE Tick
  BY <1>2, TickInv
<1>3. ASSUME NEW t \in Task, Service(t) PROVE MutexInv'
  <2>1. CASE OS_Sched(t)
    BY <2>1, SchedInv
  <2>2. CASE PendReturn(t)
    BY <2>2, PendReturnInv
  <2>3. CASE OSMutexAccept(t)
    BY <2>3, TakeInv DEF OSMutexAccept
  <2>4. CASE OSMutexPost(t)
    BY <2>4, PostInv
  <2>5. CASE OSMutexDel(t)
    BY <2>5, DelInv
  <2>6. CASE OSMutexDelNoPend(t)
    BY <2>6, DelNoPendInv
  <2>7. ASSUME NEW n \in 0..MaxTimeout, OSMutexPend(t, n) \/ OSTimeDly(t, n) PROVE MutexInv'
    <3>1. n \in Nat
      BY BoundAssumption
    <3>2. CASE OSMutexPend(t, n)
      BY <3>1, <3>2, TakeInv, PendWaitInv DEF OSMutexPend
    <3>3. CASE OSTimeDly(t, n)
      BY <3>1, <3>3, TimeDlyInv
    <3> QED BY <2>7, <3>2, <3>3
  <2> QED BY <1>3, <2>1, <2>2, <2>3, <2>4, <2>5, <2>6, <2>7 DEF Service
<1> QED BY <1>1, <1>2, <1>3 DEF Next

(***************************************************************************)
(* The theorems.                                                           *)
(***************************************************************************)
\* The tables, the wait list and the owner agree through promotion, timeout, hand-over
\* and deletion.
THEOREM MutexSafe ==
  ASSUME ~OwnerDelays PROVE Spec => []MutexInv
<1>1. MutexInv /\ [Next]_vars => MutexInv'
  BY MutexNext
<1> QED BY <1>1, MutexInit, PTL DEF Spec

\* Whoever runs code of its own is the most urgent ready task, at any priority it has.
THEOREM MutexRunsHighest ==
  ASSUME ~OwnerDelays PROVE Spec => []RunsHighest
<1>1. MutexInv => RunsHighest
  BY DEF MutexInv
<1> QED BY <1>1, MutexSafe, PTL

\* A task blocked on the mutex is held up by its owner and by more urgent tasks only.
THEOREM NoInversionHolds ==
  ASSUME ~OwnerDelays PROVE Spec => []NoInversion
<1>1. ASSUME MutexInv PROVE NoInversion
  <2> SUFFICES ASSUME NEW w \in Task, OSTCBStat[w] = "MUTEX", OSTCBCur \in Task,
                      pc[OSTCBCur] \in {"app", "pended"}, OSTCBCur # OSEventPtr
               PROVE  OSTCBPrio[OSTCBCur] < w
    BY DEF NoInversion
  <2> DEFINE r == OSTCBCur  o == OSEventPtr
  <2>1. w \in OSEventTbl /\ o # NoTask /\ o \in Task /\ OSTCBPrio[o] <= w
    BY <1>1, Constants DEF MutexInv, TypeOK, WaitStatus, OwnerStatus
  <2>2. OSTCBPrio[o] \in OSRdyTbl
    BY <1>1, <2>1 DEF MutexInv, TablesAgree, OwnerStatus
  <2>3. OSTCBPrio[r] <= OSTCBPrio[o]
    BY <1>1, <2>2, RunningReady
  <2>4. OSTCBPrio[r] # OSTCBPrio[o] /\ OSTCBPrio[r] \in Nat /\ OSTCBPrio[o] \in Nat /\ w \in Nat
    BY <1>1, <2>1, Priorities, Constants DEF MutexInv
  <2> HIDE DEF r, o
  <2>5. OSTCBPrio[r] < w
    BY <2>1, <2>3, <2>4
  <2> QED BY <2>5 DEF r
<1> QED BY <1>1, MutexSafe, PTL

(***************************************************************************)
(* The owner may delay.  It then sleeps at the ceiling or at its own       *)
(* priority, users run beside it, and OSMutexPost() may leave a more       *)
(* urgent task waiting for the tick; until the mutex is deleted the lock   *)
(* it implements does not suffer.                                          *)
(***************************************************************************)
\* A task that executes its own code is ready.
LEMMA LockRunning ==
  ASSUME LockInv, OSEventType = "MUTEX", NEW t \in Task, OSTCBCur = t, pc[t] \in {"app", "pended"}
  PROVE  /\ OSPrioCur = OSTCBPrio[t] /\ OSTCBPrio[t] \in OSRdyTbl
         /\ OSTCBStat[t] = "RDY" /\ OSTCBDly[t] = 0
BY DEF LockInv, CurrentReady, TablesAgree

\* The task switched to is ready, and OSPrioCur is its priority.
LEMMA LockSwitch ==
  ASSUME LockInv, OSEventType = "MUTEX", TablesAgree', OSRdyTbl' \subseteq Prio,
         OSRdyTbl \subseteq OSRdyTbl', UNCHANGED <<OSTCBPrio, OSTCBPrioTbl>>, Switch(Highest(OSRdyTbl'))
  PROVE  OSPrioCur' \in Prio /\ OSTCBCur' \in Task \cup {IdlePrio} /\ CurrentReady'
<1>1. TypeOK /\ TablesAgree /\ CurrentReady
  BY DEF LockInv
<1>2. /\ OSRdyTbl' \in SUBSET Nat /\ OSRdyTbl' # {}
      /\ OSPrioCur \in Nat /\ OSTCBCur \in Task \cup {IdlePrio}
  BY <1>1, Constants DEF TypeOK, TablesAgree
<1> DEFINE h == Highest(OSRdyTbl')
<1>3. h \in OSRdyTbl' /\ \A q \in OSRdyTbl' : h <= q
  BY <1>2, HighestMember
<1>4. \A q \in OSRdyTbl' : /\ OSTCBPrioTbl[q] \in Task \cup {IdlePrio}
                           /\ OSTCBPrioTbl[q] \in Task => OSTCBPrio[OSTCBPrioTbl[q]] = q
                           /\ OSTCBPrioTbl[q] = IdlePrio => q = IdlePrio
  BY <1>1, Priorities, Constants DEF TablesAgree
<1> HIDE DEF h
<1>5. OSPrioCur' = h /\ OSTCBCur' = IF h = OSPrioCur THEN OSTCBCur ELSE OSTCBPrioTbl[h]
  BY DEF Switch, h
<1>6. /\ OSTCBCur' \in Task \cup {IdlePrio}
      /\ OSTCBCur' = IdlePrio => h = IdlePrio
      /\ OSTCBCur' \in Task => h = OSTCBPrio[OSTCBCur']
  <2>1. CASE h = OSPrioCur
    BY <1>1, <1>2, <1>5, <2>1 DEF CurrentReady
  <2>2. CASE h # OSPrioCur
    BY <1>3, <1>4, <1>5, <2>2
  <2> QED BY <2>1, <2>2
<1> QED BY <1>3, <1>5, <1>6 DEF CurrentReady

LEMMA LockInit == Init => LockInv
<1> SUFFICES ASSUME Init PROVE LockInv
  OBVIOUS
<1>1. TypeOK /\ TablesAgree /\ \A t \in Task : WaitStatus(t)
  BY MutexInit DEF MutexInv
<1>2. CurrentReady
  <2>1. OSPrioCur \in OSRdyTbl /\ OSTCBCur = OSPrioCur
    BY <1>1, Priorities, HighestMember DEF Init
  <2> QED BY <2>1 DEF Init, CurrentReady
<1>3. OwnerTold
  BY DEF Init, OwnerTold
<1> QED BY <1>1, <1>2, <1>3 DEF LockInv, Init

\* A task leaves OS_Sched() at once, but goes on only when it is ready.
LEMMA LockSched ==
  ASSUME LockInv, OSEventType = "MUTEX", NEW t \in Task, OS_Sched(t)
  PROVE  LockInv'
<1> USE DEF OS_Sched, Goto, tcbVars, ecbVars
<1>1. TypeOK /\ TablesAgree /\ CurrentReady /\ OwnerTold /\ \A u \in Task : WaitStatus(u)
  BY DEF LockInv
<1>2. TablesAgree'
  BY <1>1 DEF TablesAgree, AtCeiling
<1>3. pc' \in [Task -> {"app", "sched", "pendSched", "pended"}] /\ \A u \in Task : Inside(u)' <=> Inside(u)
  BY <1>1 DEF TypeOK, Inside
<1>4. OSPrioCur' \in Prio /\ OSTCBCur' \in Task \cup {IdlePrio} /\ CurrentReady'
  BY <1>1, <1>2, LockSwitch DEF TypeOK
<1>5. TypeOK'
  BY <1>1, <1>3, <1>4 DEF TypeOK
<1>6. OwnerTold'
  BY <1>1, <1>3, Constants DEF TypeOK, OwnerTold
<1>7. \A u \in Task : WaitStatus(u)'
  BY <1>1, <1>3 DEF WaitStatus
<1> QED BY <1>2, <1>4, <1>5, <1>6, <1>7 DEF LockInv

LEMMA LockTick ==
  ASSUME LockInv, OSEventType = "MUTEX", Tick
  PROVE  LockInv'
<1> USE DEF Tick, ecbVars
<1>1. TypeOK /\ TablesAgree /\ CurrentReady /\ OwnerTold /\ \A u \in Task : WaitStatus(u)
  BY DEF LockInv
<1>2. /\ OSTCBDly' \in [Task -> Nat] /\ OSTCBStat' \in [Task -> {"RDY", "MUTEX"}]
      /\ OSTCBStatPend' \in [Task -> {"OK", "TO"}]
  BY <1>1 DEF TypeOK
<1>3. OSRdyTbl' \subseteq Prio
  BY <1>1 DEF TypeOK, Elapsed, Prio
<1>4. TablesAgree'
  <2>1. \A u \in Task : OSTCBPrio[u] \in OSRdyTbl' <=> OSTCBPrio[u] \in OSRdyTbl \/ u \in Elapsed
    BY <1>1, Priorities DEF Elapsed
  <2>2. \A u \in Task : OSTCBPrio'[u] \in OSRdyTbl' <=> OSTCBStat'[u] = "RDY" /\ OSTCBDly'[u] = 0
    BY <2>1, <1>1, <1>2 DEF TypeOK, TablesAgree, Elapsed
  <2>3. IdlePrio \in OSRdyTbl' /\ OSRdyTbl' \subseteq {OSTCBPrio[u] : u \in Task} \cup {IdlePrio}
    BY <1>1 DEF TablesAgree, Elapsed
  <2> QED BY <1>1, <2>2, <2>3 DEF TablesAgree, AtCeiling
<1>5. OSPrioCur' \in Prio /\ OSTCBCur' \in Task \cup {IdlePrio} /\ CurrentReady'
  BY <1>3, <1>4, LockSwitch
<1>6. TypeOK'
  BY <1>1, <1>2, <1>3, <1>5 DEF TypeOK
<1>7. OwnerTold'
  BY <1>1 DEF OwnerTold, Inside
<1>8. \A u \in Task : WaitStatus(u)'
  BY <1>1 DEF TypeOK, WaitStatus, Inside, Elapsed
<1> QED BY <1>4, <1>5, <1>6, <1>7, <1>8 DEF LockInv

\* Any task may go to sleep, the owner too.
LEMMA LockTimeDly ==
  ASSUME LockInv, OSEventType = "MUTEX", NEW t \in Task, NEW n \in Nat, OSTimeDly(t, n)
  PROVE  LockInv'
<1> USE DEF OSTimeDly, Goto, At, ecbVars
<1>1. TypeOK /\ TablesAgree /\ CurrentReady /\ OwnerTold /\ \A u \in Task : WaitStatus(u)
  BY DEF LockInv
<1>2. n > 0 /\ OSTCBCur = t /\ pc[t] = "app"
  OBVIOUS
<1>3. /\ OSPrioCur = OSTCBPrio[t] /\ OSTCBPrio[t] \in OSRdyTbl
      /\ OSTCBStat[t] = "RDY" /\ OSTCBDly[t] = 0
  BY <1>2, LockRunning
<1>4. TypeOK'
  BY <1>1 DEF TypeOK
<1>5. TablesAgree'
  <2>1. \A u \in Task : OSTCBPrio[u] \in OSRdyTbl' <=> OSTCBPrio[u] \in OSRdyTbl /\ u # t
    BY <1>1, Priorities
  <2>2. \A u \in Task : OSTCBPrio'[u] \in OSRdyTbl' <=> OSTCBStat'[u] = "RDY" /\ OSTCBDly'[u] = 0
    BY <2>1, <1>1, <1>2, <1>3 DEF TypeOK, TablesAgree
  <2>3. IdlePrio \in OSRdyTbl' /\ OSRdyTbl' \subseteq {OSTCBPrio[u] : u \in Task} \cup {IdlePrio}
    BY <1>1, Priorities DEF TablesAgree
  <2> QED BY <1>1, <2>2, <2>3 DEF TablesAgree, AtCeiling
<1>6. CurrentReady'
  BY <1>1, <1>2, Constants DEF TypeOK, CurrentReady
<1>7. OwnerTold'
  BY <1>1, <1>2, Constants DEF TypeOK, OwnerTold, Inside
<1>8. \A u \in Task : WaitStatus(u)'
  BY <1>1, <1>2, <1>3 DEF TypeOK, WaitStatus, Inside
<1> QED BY <1>4, <1>5, <1>6, <1>7, <1>8 DEF LockInv

\* A free mutex has no waiters, and everybody who was told to own it has released it.
LEMMA LockTake ==
  ASSUME LockInv, NEW t \in User, At(t, "app"), OSEventType = "MUTEX", Take(t)
  PROVE  LockInv'
<1> USE DEF Take, At, tcbVars
<1>1. TypeOK /\ TablesAgree /\ CurrentReady /\ OwnerTold /\ \A u \in Task : WaitStatus(u)
  BY DEF LockInv
<1>2. t \in Task /\ OSTCBCur = t /\ pc[t] = "app" /\ OSEventPtr = NoTask /\ NoTask \notin Task
  BY <1>1, Constants DEF OwnerTold
<1>3. OSEventTbl = {} /\ holds = {} /\ (\A u \in Task : ~ Inside(u))
  BY <1>1, <1>2, Constants DEF TypeOK, OwnerTold, WaitStatus
<1>4. \A u \in Task : OSTCBPrio[u] = u
  BY <1>1, <1>2, Priorities
<1>5. TypeOK'
  BY <1>1, <1>2 DEF TypeOK
<1>6. TablesAgree'
  BY <1>1, <1>4 DEF TablesAgree
<1>7. CurrentReady' /\ OwnerTold'
  BY <1>1, <1>2, <1>3, <1>4 DEF CurrentReady, OwnerTold
<1>8. \A u \in Task : WaitStatus(u)'
  <2>1. \A u \in Task : ~ Inside(u)'
    BY <1>3 DEF Inside
  <2> QED BY <1>1, <1>3, <2>1 DEF WaitStatus
<1> QED BY <1>5, <1>6, <1>7, <1>8 DEF LockInv

\* An owner that sleeps is promoted without becoming ready.
LEMMA LockPendWait ==
  ASSUME LockInv, NEW t \in User, NEW n \in Nat, At(t, "app"), OSEventType = "MUTEX",
         OSEventPtr # t, PendWait(t, n)
  PROVE  LockInv'
<1> USE DEF PendWait, At, Goto
<1> DEFINE o == OSEventPtr
<1>1. TypeOK /\ TablesAgree /\ CurrentReady /\ OwnerTold /\ \A u \in Task : WaitStatus(u)
  BY DEF LockInv
<1>2. /\ t \in Task /\ OSTCBCur = t /\ pc[t] = "app"
      /\ o \in User /\ o \in Task /\ o # NoTask /\ o # t
  BY <1>1, Constants DEF TypeOK, OwnerTold
<1>3. \A u \in Task : u # o => OSTCBPrio[u] = u
  BY <1>1, Priorities
<1>4. /\ OSTCBStat[t] = "RDY" /\ OSTCBDly[t] = 0 /\ OSPrioCur = t /\ OSTCBPrio[t] = t
  BY <1>2, <1>3, LockRunning
<1>5. OSEventTbl' = OSEventTbl \cup {t}
  BY <1>4
<1>6. /\ OSTCBPrio' \in [Task -> Task \cup {PCP}]
      /\ OSTCBPrioTbl' \in [Prio -> Prio \cup {Reserved, NoTask}]
      /\ \A p \in Task \cup {IdlePrio} : OSTCBPrioTbl'[p] = OSTCBPrioTbl[p]
      /\ \A u \in Task : u # o => OSTCBPrio'[u] = OSTCBPrio[u]
      /\ AtCeiling(o)' \/ (OSTCBPrio'[o] = OSTCBPrio[o] /\ OSTCBPrioTbl' = OSTCBPrioTbl)
  BY <1>1, <1>2, Constants DEF TypeOK, Prio, AtCeiling
<1>7. /\ OSRdyTbl' \subseteq Prio /\ IdlePrio \in OSRdyTbl'
      /\ \A u \in Task : OSTCBPrio'[u] \in OSRdyTbl' <=> u # t /\ OSTCBPrio[u] \in OSRdyTbl
      /\ \A q \in OSRdyTbl' : q = IdlePrio \/ \E u \in Task : q = OSTCBPrio'[u]
  <2>1. /\ \A q \in OSRdyTbl : q = IdlePrio \/ \E u \in Task : q = OSTCBPrio[u]
        /\ IdlePrio \in OSRdyTbl /\ OSRdyTbl \subseteq Prio
        /\ \A u \in Task : OSTCBPrio[u] # IdlePrio
    BY <1>1, Priorities DEF TablesAgree, TypeOK
  <2>2. CASE ToPromote(t)
    <3>1. OSTCBPrio[o] = o /\ PCP \notin OSRdyTbl
      BY <2>1, <2>2, <1>1, <1>2, <1>3, Constants DEF ToPromote, TablesAgree, AtCeiling
    <3>2. OSRdyTbl' = (IF o \in OSRdyTbl THEN (OSRdyTbl \ {o}) \cup {PCP} ELSE OSRdyTbl) \ {t}
      BY <2>2, <1>4, <3>1 DEF Promoted
    <3>3. \A u \in Task : OSTCBPrio'[u] = IF u = o THEN PCP ELSE u
      BY <2>2, <1>1, <1>2, <1>3 DEF TypeOK
    <3>4. \A q \in OSRdyTbl' : q = IdlePrio \/ q = PCP \/ (q \in Task /\ q # o)
      BY <2>1, <3>1, <3>2, <1>2, <1>3, Constants
    <3>5. \A u \in Task : OSTCBPrio'[u] \in OSRdyTbl' <=> u # t /\ OSTCBPrio[u] \in OSRdyTbl
      BY <1>2, <1>3, <3>1, <3>2, <3>3, Constants
    <3>6. IdlePrio \in OSRdyTbl' /\ OSRdyTbl' \subseteq Prio
      BY <1>2, <2>1, <3>2, Constants DEF Prio
    <3> QED BY <1>2, <3>3, <3>4, <3>5, <3>6
  <2>3. CASE ~ ToPromote(t)
    <3>1. OSRdyTbl' = OSRdyTbl \ {t} /\ OSTCBPrio' = OSTCBPrio
      BY <2>3, <1>4
    <3>2. \A u \in Task : OSTCBPrio[u] = t <=> u = t
      BY <1>1, <1>2, <1>4, Priorities
    <3> QED BY <1>2, <2>1, <3>1, <3>2, Constants
  <2> QED BY <2>2, <2>3
<1>8. TypeOK'
  BY <1>1, <1>2, <1>5, <1>6, <1>7 DEF TypeOK
<1>9. TablesAgree'
  <2>1. \A u \in Task : OSTCBPrio'[u] \in OSRdyTbl' <=> OSTCBStat'[u] = "RDY" /\ OSTCBDly'[u] = 0
    BY <1>1, <1>2, <1>7 DEF TypeOK, TablesAgree
  <2>2. \A u \in Task : OSTCBPrio'[u] = u \/ AtCeiling(u)'
    BY <1>1, <1>3, <1>6 DEF TablesAgree, AtCeiling
  <2> QED BY <1>1, <1>6, <1>7, <2>1, <2>2 DEF TablesAgree
<1>10. CurrentReady'
  BY <1>1, <1>2, <1>4, <1>6, Constants DEF TypeOK, CurrentReady
<1>11. OwnerTold'
  BY <1>1, <1>2 DEF OwnerTold, Inside, TypeOK
<1>12. \A u \in Task : WaitStatus(u)'
  BY <1>1, <1>2, <1>4, <1>5 DEF TypeOK, WaitStatus, Inside
<1> QED BY <1>8, <1>9, <1>10, <1>11, <1>12 DEF LockInv

\* A task whose time is up leaves the wait list, whatever the owner does.
LEMMA LockPendReturn ==
  ASSUME LockInv, OSEventType = "MUTEX", NEW t \in Task, PendReturn(t)
  PROVE  LockInv'
<1> USE DEF PendReturn, At, Goto
<1>1. TypeOK /\ TablesAgree /\ CurrentReady /\ OwnerTold /\ \A u \in Task : WaitStatus(u)
  BY DEF LockInv
<1>2. OSTCBCur = t /\ pc[t] = "pended" /\ Inside(t)
  BY DEF Inside
<1>3. OSTCBStat[t] = "RDY" /\ OSTCBDly[t] = 0
  BY <1>2, LockRunning
<1>4. OSTCBStatPend[t] = "OK" =>
        t \notin OSEventTbl /\ OSEventPtr = t /\ holds' = holds \cup {t} /\ OSEventTbl' = OSEventTbl
  BY <1>1, <1>2, <1>3 DEF WaitStatus
<1>5. OSTCBStatPend[t] # "OK" =>
        t \in User /\ t # OSEventPtr /\ OSEventTbl' = OSEventTbl \ {t} /\ holds' = holds
  <2>1. OSTCBStatPend[t] # "OK" => t \in OSEventTbl /\ t \in User /\ t # OSEventPtr
    BY <1>1 DEF TypeOK, WaitStatus
  <2>2. t # OSEventPtr => OSTCBPrio[t] = t
    BY <1>1, Priorities
  <2> QED BY <2>1, <2>2
<1>6. TypeOK'
  BY <1>1, <1>4, <1>5 DEF TypeOK
<1>7. TablesAgree'
  <2>1. \A u \in Task : OSTCBStat'[u] = OSTCBStat[u]
    BY <1>1, <1>3 DEF TypeOK
  <2> QED BY <1>1, <2>1 DEF TablesAgree, AtCeiling
<1>8. CurrentReady'
  BY <1>1, <1>2, Constants DEF CurrentReady
<1>9. OwnerTold'
  BY <1>1, <1>2, <1>4, <1>5 DEF OwnerTold, Inside, TypeOK
<1>10. \A u \in Task : WaitStatus(u)'
  BY <1>1, <1>2, <1>3, <1>4, <1>5 DEF TypeOK, WaitStatus, Inside
<1> QED BY <1>6, <1>7, <1>8, <1>9, <1>10 DEF LockInv

\* The most urgent waiter becomes the owner and is told so, whether the old owner slept
\* at the ceiling before or was never promoted.
LEMMA LockPost ==
  ASSUME LockInv, OSEventType = "MUTEX", NEW t \in Task, OSMutexPost(t)
  PROVE  LockInv'
<1> USE DEF OSMutexPost, At, Goto
<1> DEFINE F == FirstOf(OSEventTbl)
<1>0. TypeOK /\ TablesAgree /\ CurrentReady /\ OwnerTold /\ \A u \in Task : WaitStatus(u)
  BY DEF LockInv
<1>1. /\ OSTCBCur = t /\ pc[t] = "app" /\ OSEventPtr = t /\ OSEventType' = "MUTEX"
      /\ OSEventPtr # NoTask /\ OSOwnerPrio = t /\ ~ Inside(t)
  BY <1>0, Constants DEF OwnerTold, Inside
<1>2. /\ F \subseteq OSEventTbl /\ (OSEventTbl = {} <=> F = {})
      /\ OSEventTbl # {} => Highest(OSEventTbl) \in OSEventTbl /\ F = {Highest(OSEventTbl)}
  <2>1. OSEventTbl \in SUBSET Nat
    BY <1>0, WaitersNamed
  <2> QED BY <2>1, HighestMember DEF FirstOf
<1>3. F \subseteq User /\ F \subseteq Task /\ {OSTCBPrioTbl[p] : p \in F} = F
  <2>1. {OSTCBPrioTbl[p] : p \in F} = F /\ F \subseteq User
    <3> HIDE DEF F
    <3> QED BY <1>0, <1>2, WaitersNamed
  <2> QED BY <2>1, Constants
<1>4. OSPrioCur = OSTCBPrio[t] /\ OSTCBPrio[t] \in OSRdyTbl
  BY <1>1, LockRunning
<1>5. /\ OSTCBPrio' \in [Task -> Task \cup {PCP}]
      /\ \A u \in Task : OSTCBPrio'[u] = u
      /\ OSPrioCur' = t
      /\ OSRdyTbl' = (IF OSTCBPrio[t] = PCP THEN (OSRdyTbl \ {PCP}) \cup {t} ELSE OSRdyTbl) \cup F
  <2>1. \A u \in Task : u # t => OSTCBPrio[u] = u
    BY <1>0, <1>1, Priorities
  <2>2. OSTCBPrio[t] = t \/ OSTCBPrio[t] = PCP
    BY <1>0 DEF TablesAgree, AtCeiling
  <2>3. OSTCBPrio \in [Task -> Task \cup {PCP}]
    BY <1>0 DEF TypeOK
  <2> HIDE DEF F
  <2> QED BY <1>1, <1>4, <2>1, <2>2, <2>3, Constants DEF RdyAtPrio, Restored, F
<1>6. /\ OSTCBStat' \in [Task -> {"RDY", "MUTEX"}] /\ OSTCBStatPend' \in [Task -> {"OK", "TO"}]
      /\ OSTCBDly' \in [Task -> Nat]
      /\ \A u \in Task : /\ OSTCBStat'[u] = IF u \in F THEN "RDY" ELSE OSTCBStat[u]
                         /\ OSTCBStatPend'[u] = IF u \in F THEN "OK" ELSE OSTCBStatPend[u]
                         /\ OSTCBDly'[u] = IF u \in F THEN 0 ELSE OSTCBDly[u]
  <2> HIDE DEF F
  <2>1. Readied(F)
    BY <1>3 DEF F
  <2>2. /\ OSTCBStat \in [Task -> {"RDY", "MUTEX"}] /\ OSTCBStatPend \in [Task -> {"OK", "TO"}]
        /\ OSTCBDly \in [Task -> Nat]
    BY <1>0 DEF TypeOK
  <2> QED BY <2>1, <2>2 DEF Readied
<1>7. /\ OSEventTbl' = OSEventTbl \ F /\ holds' = {} /\ OSOwnerPrio' = OSEventPtr'
      /\ F = {} => OSEventPtr' = NoTask /\ pc' = pc
      /\ F # {} => /\ F = {OSEventPtr'} /\ OSEventPtr' \in OSEventTbl
                   /\ pc' = [pc EXCEPT ![t] = "sched"]
  <2>1. holds' = {}
    BY <1>0, <1>1 DEF OwnerTold
  <2>2. F # {} => OSTCBPrioTbl[Highest(OSEventTbl)] = Highest(OSEventTbl)
    BY <1>0, <1>2, <1>3 DEF TablesAgree
  <2> QED BY <1>2, <2>1, <2>2
<1>8. /\ pc' \in [Task -> {"app", "sched", "pendSched", "pended"}]
      /\ \A u \in Task : Inside(u)' <=> Inside(u)
  BY <1>0, <1>1, <1>7 DEF TypeOK, Inside
<1>9. TypeOK'
  <2>1. OSRdyTbl' \subseteq Prio
    <3> HIDE DEF F
    <3> QED BY <1>0, <1>3, <1>5 DEF TypeOK, Prio
  <2>2. OSEventPtr' \in User \cup {NoTask}
    BY <1>3, <1>7
  <2>3. OSTCBPrioTbl' \in [Prio -> Prio \cup {Reserved, NoTask}]
    BY <1>0 DEF TypeOK
  <2> HIDE DEF F
  <2>4. OSPrioCur' \in Prio /\ OSTCBCur' = OSTCBCur
    BY <1>5 DEF Prio
  <2> QED BY <1>0, <1>1, <1>5, <1>6, <1>7, <1>8, <2>1, <2>2, <2>3, <2>4 DEF TypeOK
<1> HIDE DEF F
<1>10. TablesAgree'
  <2>1. \A u \in Task : u \in OSRdyTbl' <=> OSTCBPrio[u] \in OSRdyTbl \/ u \in F
    <3>1. \A u \in Task : u # t => OSTCBPrio[u] = u
      BY <1>0, <1>1, Priorities
    <3>2. OSTCBPrio[t] = t \/ OSTCBPrio[t] = PCP
      BY <1>0 DEF TablesAgree, AtCeiling
    <3>3. PCP \notin Task /\ \A u \in Task : OSTCBPrio[u] = u \/ u = t
      BY <3>1, Constants
    <3>4. CASE OSTCBPrio[t] = PCP
      <4>1. OSRdyTbl' = ((OSRdyTbl \ {PCP}) \cup {t}) \cup F
        BY <1>5, <3>4, Zenon
      <4> QED BY <4>1, <1>4, <3>3, <3>4
    <3>5. CASE OSTCBPrio[t] # PCP
      <4>1. OSRdyTbl' = OSRdyTbl \cup F /\ OSTCBPrio[t] = t
        BY <1>5, <3>2, <3>5, Zenon
      <4> QED BY <4>1, <3>3
    <3> QED BY <3>4, <3>5
  <2>2. \A u \in F : OSTCBStat'[u] = "RDY" /\ OSTCBDly'[u] = 0
    BY <1>3, <1>6
  <2>3. \A u \in Task : OSTCBPrio'[u] \in OSRdyTbl' <=> OSTCBStat'[u] = "RDY" /\ OSTCBDly'[u] = 0
    BY <1>0, <1>5, <1>6, <2>1, <2>2 DEF TablesAgree
  <2>4. IdlePrio \in OSRdyTbl' /\ OSRdyTbl' \subseteq {OSTCBPrio'[u] : u \in Task} \cup {IdlePrio}
    <3>1. \A q \in OSRdyTbl' : q = IdlePrio \/ q \in Task
      <4>1. \A q \in OSRdyTbl : q = IdlePrio \/ q = OSTCBPrio[t] \/ q \in Task
        BY <1>0, <1>1, Priorities DEF TablesAgree
      <4> QED BY <1>0, <1>3, <1>5, <4>1 DEF TablesAgree, AtCeiling
    <3>2. IdlePrio \in OSRdyTbl'
      BY <1>0, <1>5, Constants DEF TablesAgree
    <3> QED BY <1>5, <3>1, <3>2
  <2>5. \A p \in Task \cup {IdlePrio} : OSTCBPrioTbl'[p] = p
    BY <1>0, Constants DEF TypeOK, TablesAgree
  <2> QED BY <1>5, <2>3, <2>4, <2>5 DEF TablesAgree
<1>11. CurrentReady'
  <2>1. t \in OSRdyTbl'
    BY <1>0, <1>1, <1>4, <1>5 DEF TablesAgree, AtCeiling
  <2> QED BY <1>1, <1>5, <2>1, Constants DEF CurrentReady
<1>12. OwnerTold'
  <2>1. F # {} => Inside(OSEventPtr')
    BY <1>0, <1>3, <1>7 DEF WaitStatus
  <2>2. F # {} => OSEventPtr' \in Task
    BY <1>3, <1>7
  <2> QED BY <1>7, <1>8, <2>1, <2>2 DEF OwnerTold, Inside
<1>13. \A u \in Task : WaitStatus(u)'
  <2> SUFFICES ASSUME NEW u \in Task PROVE WaitStatus(u)'
    OBVIOUS
  <2>1. WaitStatus(u)
    BY <1>0
  <2>2. CASE u \in F
    <3>1. u \in OSEventTbl /\ u \notin OSEventTbl' /\ OSEventPtr' = u
      BY <2>2, <1>2, <1>7
    <3>2. OSTCBStat'[u] = "RDY" /\ OSTCBStatPend'[u] = "OK" /\ OSTCBDly'[u] = 0
      BY <2>2, <1>6
    <3> QED BY <3>1, <3>2, Zenon DEF WaitStatus
  <2>3. CASE u \notin F
    <3>1. u \in OSEventTbl' => OSEventPtr' \notin {u, NoTask}
      BY <2>3, <1>2, <1>3, <1>7, Constants
    <3>2. u \in OSEventTbl' <=> u \in OSEventTbl
      BY <2>3, <1>7
    <3>3. Inside(u) => u \in OSEventTbl
      BY <1>1, <2>1 DEF WaitStatus
    <3> QED BY <1>6, <1>8, <2>1, <2>3, <3>1, <3>2, <3>3 DEF WaitStatus
  <2> QED BY <2>2, <2>3
<1> QED BY <1>1, <1>9, <1>10, <1>11, <1>12, <1>13 DEF LockInv

\* Nothing brings a deleted mutex back.
LEMMA StaysDeleted ==
  ASSUME LockInv, OSEventType # "MUTEX", [Next]_vars
  PROVE  OSEventType' = "UNUSED"
BY DEF LockInv, Next, vars, ecbVars, Tick, Service, OS_Sched, PendReturn, OSMutexAccept,
       OSMutexPost, OSMutexDel, OSMutexDelNoPend, OSMutexPend, OSTimeDly

LEMMA LockNext ==
  ASSUME LockInv, [Next]_vars
  PROVE  LockInv'
<1>1. CASE UNCHANGED vars
  BY <1>1 DEF vars, tcbVars, ecbVars, LockInv, TypeOK, TablesAgree, AtCeiling, CurrentReady,
              OwnerTold, WaitStatus, Inside
<1>2. CASE OSEventType # "MUTEX"
  BY <1>2, StaysDeleted DEF LockInv
<1>3. CASE OSEventType = "MUTEX" /\ Tick
  BY <1>3, LockTick
<1>4. ASSUME OSEventType = "MUTEX", NEW t \in Task, Service(t) PROVE LockInv'
  <2>1. CASE OS_Sched(t)
    BY <1>4, <2>1, LockSched
  <2>2. CASE PendReturn(t)
    BY <1>4, <2>2, LockPendReturn
  <2>3. CASE OSMutexAccept(t)
    BY <2>3, LockTake DEF OSMutexAccept
  <2>4. CASE OSMutexPost(t)
    BY <1>4, <2>4, LockPost
  <2>5. CASE OSMutexDel(t) \/ OSMutexDelNoPend(t)
    BY <2>5 DEF OSMutexDel, OSMutexDelNoPend, LockInv
  <2>6. ASSUME NEW n \in 0..MaxTimeout, OSMutexPend(t, n) \/ OSTimeDly(t, n) PROVE LockInv'
    <3>1. n \in Nat
      BY BoundAssumption
    <3>2. CASE OSMutexPend(t, n)
      BY <3>1, <3>2, LockTake, LockPendWait DEF OSMutexPend
    <3>3. CASE OSTimeDly(t, n)
      BY <1>4, <3>1, <3>3, LockTimeDly
    <3> QED BY <2>6, <3>2, <3>3
  <2> QED BY <1>4, <2>1, <2>2, <2>3, <2>4, <2>5, <2>6 DEF Service
<1> QED BY <1>1, <1>2, <1>3, <1>4 DEF Next

\* The owner of the mutex is the one task that was told so, and every waiter is told how
\* its wait ended, although the owner may sleep with the mutex.
THEOREM LockSafe == Spec => []LockInv
<1>1. LockInv /\ [Next]_vars => LockInv'
  BY LockNext
<1> QED BY <1>1, LockInit, PTL DEF Spec

(***************************************************************************)
(* The mutex implements PriorityLock, whether its owner delays or not.  A  *)
(* step that leaves the four variables of the lock alone is a stutter.     *)
(***************************************************************************)
LEMMA MutexStepRefines ==
  ASSUME LockInv, [Next]_vars
  PROVE  [Abstract!Next]_(Abstract!vars)
<1> DEFINE Stutters == UNCHANGED <<OSEventType, OSEventPtr, OSEventTbl, holds>>
<1>1. Stutters => UNCHANGED Abstract!vars
  BY DEF Abstract!vars
<1>2. CASE UNCHANGED vars
  BY <1>1, <1>2 DEF vars, ecbVars
<1>3. CASE OSEventType # "MUTEX"
  <2>1. Abstract!Gone
    BY <1>3, StaysDeleted DEF Abstract!Gone
  <2> QED BY <2>1 DEF Abstract!Next
<1>4. CASE Tick
  BY <1>1, <1>4 DEF Tick, ecbVars
<1>5. OSEventType = "MUTEX" =>
        TypeOK /\ TablesAgree /\ OwnerTold /\ \A u \in Task : WaitStatus(u)
  BY DEF LockInv
<1>6. ASSUME NEW t \in User, Take(t), At(t, "app"), OSEventType = "MUTEX" PROVE Abstract!Next
  <2>1. t \in Task /\ OSEventPtr = NoTask
    BY <1>5, <1>6, Constants DEF Take, OwnerTold
  <2>2. Abstract!Take(t)
    BY <1>6, <2>1 DEF Take, Abstract!Take
  <2> QED BY <2>1, <2>2 DEF Abstract!Next
<1>7. ASSUME NEW t \in Task, OSMutexPost(t) PROVE Abstract!Next
  <2>1. OSEventPtr = t /\ OSEventType = "MUTEX" /\ OSEventType' = "MUTEX" /\ holds' = holds \ {t}
    BY <1>7 DEF OSMutexPost
  <2>2. t \in holds
    BY <1>5, <1>7, <2>1, Constants DEF OSMutexPost, At, OwnerTold, Inside
  <2>3. CASE OSEventTbl = {}
    <3>1. OSEventPtr' = NoTask /\ OSEventTbl' = {}
      BY <1>7, <2>3 DEF OSMutexPost
    <3>2. Abstract!Release(t)
      BY <2>1, <2>2, <2>3, <3>1 DEF Abstract!Release
    <3> QED BY <3>2 DEF Abstract!Next
  <2>4. CASE OSEventTbl # {}
    <3> DEFINE w == Highest(OSEventTbl)
    <3>1. w \in OSEventTbl /\ \A u \in OSEventTbl : w <= u
      BY <1>5, <2>1, <2>4, WaitersNamed, HighestMember
    <3>2. OSTCBPrioTbl[w] = w
      <4>1. w \in Task
        BY <1>5, <2>1, <3>1, Constants DEF TypeOK
      <4> HIDE DEF w
      <4> QED BY <1>5, <2>1, <4>1 DEF TablesAgree
    <3>3. OSEventTbl' = OSEventTbl \ {w} /\ OSEventPtr' = OSTCBPrioTbl[w]
      BY <1>7, <2>4 DEF OSMutexPost, FirstOf
    <3> HIDE DEF w
    <3>4. Abstract!Release(t)
      BY <2>1, <2>2, <3>1, <3>2, <3>3 DEF Abstract!Release
    <3> QED BY <3>4 DEF Abstract!Next
  <2> QED BY <2>3, <2>4
<1>8. ASSUME NEW t \in Task, PendReturn(t), OSEventType = "MUTEX" PROVE Abstract!Next
  <2>1. Inside(t) /\ OSTCBStat[t] = "RDY" /\ WaitStatus(t)
    BY <1>5, <1>8, LockRunning DEF PendReturn, At, Inside
  <2>2. UNCHANGED <<OSEventType, OSEventPtr>>
    BY <1>8 DEF PendReturn
  <2>3. CASE OSTCBStatPend[t] = "OK"
    <3>1. t \notin OSEventTbl /\ OSEventPtr = t
      BY <1>8, <2>1, <2>3 DEF WaitStatus
    <3>2. holds' = holds \cup {t} /\ OSEventTbl' = OSEventTbl
      BY <1>8, <2>3 DEF PendReturn
    <3>3. Abstract!Enter(t)
      BY <2>2, <3>1, <3>2 DEF Abstract!Enter
    <3> QED BY <3>3 DEF Abstract!Next
  <2>4. CASE OSTCBStatPend[t] # "OK"
    <3>1. t \in OSEventTbl
      BY <1>5, <1>8, <2>1, <2>4 DEF TypeOK, WaitStatus
    <3>2. OSTCBPrio[t] = t
      BY <1>5, <1>8, <2>1, <3>1, Priorities DEF WaitStatus
    <3>3. OSEventTbl' = OSEventTbl \ {t} /\ holds' = holds
      BY <1>8, <2>4, <3>2 DEF PendReturn
    <3>4. Abstract!GiveUp(t)
      BY <2>2, <3>3 DEF Abstract!GiveUp
    <3> QED BY <3>4 DEF Abstract!Next
  <2> QED BY <2>3, <2>4
<1>9. ASSUME NEW t \in Task, OSMutexDel(t) \/ OSMutexDelNoPend(t) PROVE Abstract!Next
  BY <1>9 DEF OSMutexDel, OSMutexDelNoPend, Abstract!Next, Abstract!Delete
<1>10. ASSUME NEW t \in User, NEW n \in 0..MaxTimeout, At(t, "app"), OSEventType = "MUTEX",
              OSEventPtr # t, PendWait(t, n)
       PROVE  Abstract!Next
  <2>1. t \in Task /\ OSEventPtr # NoTask /\ OSTCBPrio[t] = t
    BY <1>5, <1>10, Constants, Priorities DEF PendWait, OwnerTold
  <2>2. OSEventTbl' = OSEventTbl \cup {t}
    BY <1>10, <2>1 DEF PendWait
  <2>3. Abstract!Wait(t)
    BY <1>10, <2>1, <2>2 DEF PendWait, Abstract!Wait
  <2> QED BY <2>1, <2>3 DEF Abstract!Next
<1>11. ASSUME OSEventType = "MUTEX", NEW t \in Task, Service(t)
       PROVE  [Abstract!Next]_(Abstract!vars)
  <2>1. CASE OS_Sched(t)
    BY <2>1, <1>1 DEF OS_Sched, ecbVars
  <2>2. ASSUME NEW n \in 0..MaxTimeout, OSTimeDly(t, n) PROVE Stutters
    BY <2>2 DEF OSTimeDly, ecbVars
  <2>3. CASE OSMutexAccept(t)
    BY <2>3, <1>6 DEF OSMutexAccept
  <2>4. ASSUME NEW n \in 0..MaxTimeout, OSMutexPend(t, n) PROVE Abstract!Next
    BY <2>4, <1>6, <1>10 DEF OSMutexPend
  <2> QED BY <1>1, <1>7, <1>8, <1>9, <1>11, <2>1, <2>2, <2>3, <2>4 DEF Service
<1> QED BY <1>2, <1>3, <1>4, <1>11 DEF Next

\* One owner at a time, the most urgent waiter next, and a wait that reports success
\* exactly to the owner: with the priorities, the ready list and the owner's sleep out of
\* sight, the mutex is a lock until it is deleted.
THEOREM MutexImplementsLock == Spec => ImplementsLock
<1>1. Init => Abstract!Init
  BY DEF Init, Abstract!Init
<1>2. LockInv /\ [Next]_vars => [Abstract!Next]_(Abstract!vars)
  BY MutexStepRefines
<1> QED BY <1>1, <1>2, LockSafe, PTL DEF Spec, ImplementsLock, Abstract!Spec
=============================================================================
