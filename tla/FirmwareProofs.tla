---------------------------- MODULE FirmwareProofs ----------------------------
(***************************************************************************)
(* The firmware on the proved kernel, for any subset of the tasks AD and   *)
(* TURN, any keys, times of the key scan and timeouts of the pages.        *)
(* Safety: its steps are steps of the kernel, and the user interface runs  *)
(* only while all the others sleep at the end of a round.  Progress: when  *)
(* the idle task runs, the user interface sleeps for a tick or for a key.  *)
(***************************************************************************)
EXTENDS Firmware, KernelProofs

(***************************************************************************)
(* The tasks.                                                              *)
(***************************************************************************)
LEMMA AppFacts ==
  /\ APP_START_TASK_PRIO \in Prio /\ APP_SPEED_PRIO \in Prio /\ APP_KEY_PRIO \in Prio /\ APP_UI_PRIO \in Prio
  /\ APP_START_TASK_PRIO # APP_SPEED_PRIO /\ APP_START_TASK_PRIO # APP_KEY_PRIO
  /\ APP_START_TASK_PRIO # APP_UI_PRIO /\ APP_SPEED_PRIO # APP_KEY_PRIO
  /\ APP_SPEED_PRIO # APP_UI_PRIO /\ APP_KEY_PRIO # APP_UI_PRIO
  /\ APP_START_TASK_PRIO < APP_UI_PRIO /\ APP_SPEED_PRIO < APP_UI_PRIO /\ APP_KEY_PRIO < APP_UI_PRIO
  /\ StartPrio = APP_START_TASK_PRIO
  /\ \A t \in {APP_AD_PRIO, APP_TURN_PRIO} :
       t \notin {APP_START_TASK_PRIO, APP_SPEED_PRIO, APP_KEY_PRIO, APP_UI_PRIO}
  /\ Prio \subseteq AppPrio /\ Prio \subseteq Nat
  /\ Msg = 1..5 /\ NoMsg = 0 /\ Pressed \subseteq Msg
BY AppAssumption, PrioAssumption
DEF AppPrio, APP_START_TASK_PRIO, APP_AD_PRIO, APP_SPEED_PRIO, APP_TURN_PRIO, APP_KEY_PRIO, APP_UI_PRIO,
    Priorities

\* Where each task may stand, without the cases.
LEMMA Places ==
  /\ Place(APP_START_TASK_PRIO) = {"boot", "suspend"} /\ Resting(APP_START_TASK_PRIO) = {"suspend"}
  /\ Place(APP_SPEED_PRIO) = {"body", "ch3", "ch2", "delay"} /\ Resting(APP_SPEED_PRIO) = {"body"}
  /\ Place(APP_KEY_PRIO) = {"create", "body", "delay"} /\ Resting(APP_KEY_PRIO) = {"body"}
  /\ Place(APP_UI_PRIO) = {"page", "brake3", "brake2", "pend", "key", "handle", "stop3", "stop2", "delay"}
  /\ Resting(APP_UI_PRIO) = {"page", "key"}
  /\ \A t \in {APP_AD_PRIO, APP_TURN_PRIO} : Place(t) = {"body", "delay"} /\ Resting(t) = {"body"}
BY AppFacts DEF Place, Resting

\* A task that runs its own code exists and is ready.
LEMMA RunsIn ==
  ASSUME FirmwareInv, NEW t \in AppPrio, NEW s, In(t, s)
  PROVE  /\ t \in Prio /\ t \in OSTCBPrioTbl /\ t \in OSRdyTbl
         /\ OSPrioCur = t /\ pc[t] = "app" /\ step[t] = s
<1>1. t \in OSTCBPrioTbl \cup {IdlePrio} /\ OSPrioCur = t /\ pc[t] = "app" /\ step[t] = s
  BY DEF FirmwareInv, KernelInv, In, At
<1>2. t # IdlePrio
  <2>1. t <= APP_UI_PRIO /\ t \in Nat
    BY DEF AppPrio, APP_START_TASK_PRIO, APP_AD_PRIO, APP_SPEED_PRIO, APP_TURN_PRIO, APP_KEY_PRIO,
           APP_UI_PRIO, Priorities
  <2>2. APP_UI_PRIO < IdlePrio /\ IdlePrio \in Nat /\ APP_UI_PRIO \in Nat
    BY AppFacts, PrioAssumption
  <2> QED BY <2>1, <2>2
<1>3. t \in Prio
  BY <1>1, <1>2 DEF FirmwareInv, KernelInv, KernelTypeOK
<1> QED BY <1>1, <1>2, <1>3, RunningReady DEF FirmwareInv

\* While any task but the start task runs its own code, boot is over and the more urgent
\* tasks rest.
LEMMA MoreUrgentRest ==
  ASSUME FirmwareInv, NEW t \in AppPrio, NEW s, In(t, s), APP_START_TASK_PRIO < t
  PROVE  /\ OSTCBPrioTbl = Prio
         /\ \A q \in Prio : q < t => step[q] \in Resting(q)
<1>1. OSPrioCur = t /\ pc[t] = "app" /\ t \in Prio /\ t \in Nat
  BY RunsIn, AppFacts
<1>2. \A q \in OSRdyTbl : t <= q
  BY <1>1, RunningReady DEF FirmwareInv
<1>3. APP_START_TASK_PRIO \in Prio /\ APP_START_TASK_PRIO \notin OSRdyTbl
  BY <1>1, <1>2, AppFacts
<1>4. step[APP_START_TASK_PRIO] = "suspend"
  BY <1>3, AppFacts, Places DEF FirmwareInv, RoundsRest, BootOrder
<1>5. OSTCBPrioTbl = Prio
  BY <1>4 DEF FirmwareInv, BootOrder
<1>6. \A q \in Prio : q < t => q \notin OSRdyTbl
  BY <1>1, <1>2, AppFacts
<1> QED BY <1>5, <1>6 DEF FirmwareInv, RoundsRest

\* While the user interface runs its own code, the key task has created the mailbox, and
\* the speed task sleeps between two rounds.
LEMMA UiRunsAlone ==
  ASSUME FirmwareInv, NEW s, In(APP_UI_PRIO, s)
  PROVE  created /\ OSTCBPrioTbl = Prio /\ step[APP_SPEED_PRIO] = "body"
<1>1. APP_UI_PRIO \in AppPrio
  BY DEF AppPrio
<1>2. /\ OSTCBPrioTbl = Prio
      /\ step[APP_SPEED_PRIO] \in Resting(APP_SPEED_PRIO) /\ step[APP_KEY_PRIO] \in Resting(APP_KEY_PRIO)
  BY <1>1, AppFacts, MoreUrgentRest
<1> QED BY <1>2, Places DEF FirmwareInv, BootOrder

(***************************************************************************)
(* The steps of the firmware are steps of the kernel.                      *)
(***************************************************************************)
LEMMA FirmwareStepIsKernelStep ==
  ASSUME FirmwareInv, [Next]_vars
  PROVE  [KernelNext]_kernelVars
<1>1. CASE UNCHANGED vars
  BY <1>1 DEF vars
<1>2. CASE SysTick
  BY <1>2 DEF SysTick, KernelNext
<1>3. CASE ServiceStep
  BY <1>3 DEF ServiceStep, KernelNext, Service
<1>4. ASSUME NEW t \in AppPrio, NEW s, EndRound(t, s) PROVE KernelNext
  <2>1. t \in OSTCBPrioTbl
    BY <1>4, RunsIn DEF EndRound
  <2>2. OSTimeDly(t, 1) /\ 1 \in 0..MaxTimeout
    BY <1>4, TimeAssumption, TimeoutAssumption DEF EndRound
  <2> QED BY <2>1, <2>2 DEF KernelNext, Service
<1>5. CASE StartStep
  <2>1. APP_START_TASK_PRIO \in AppPrio
    BY DEF AppPrio
  <2>2. CASE CreateNext
    <3>1. PICK p : OSTaskCreate(APP_START_TASK_PRIO, p)
      BY <2>2 DEF CreateNext
    <3>2. APP_START_TASK_PRIO \in OSTCBPrioTbl /\ p \in Prio
      BY <2>1, <2>2, <3>1, RunsIn DEF CreateNext, OSTaskCreate
    <3> QED BY <3>1, <3>2 DEF KernelNext, Service
  <2>3. CASE StartTick
    BY <2>3 DEF StartTick
  <2>4. CASE StartSuspends
    <3>1. APP_START_TASK_PRIO \in OSTCBPrioTbl /\ APP_START_TASK_PRIO \in Prio
      BY <2>1, <2>4, RunsIn DEF StartSuspends
    <3> QED BY <2>4, <3>1 DEF StartSuspends, KernelNext, Service
  <2> QED BY <1>5, <2>2, <2>3, <2>4 DEF StartStep
<1>6. CASE SteeringStep
  <2>1. \A t \in {APP_AD_PRIO, APP_TURN_PRIO} : t \in AppPrio
    BY DEF AppPrio
  <2> QED BY <1>4, <1>6, <2>1 DEF SteeringStep, SteeringWork
<1>7. CASE SpeedStep
  <2>1. APP_SPEED_PRIO \in AppPrio
    BY DEF AppPrio
  <2> QED BY <1>4, <1>7, <2>1 DEF SpeedStep, SpeedReads, SpeedDrivesCH3, SpeedDrivesCH2
<1>8. CASE KeyStep
  <2>1. APP_KEY_PRIO \in AppPrio
    BY DEF AppPrio
  <2>2. CASE KeyCreatesMbox
    <3>1. APP_KEY_PRIO \in OSTCBPrioTbl
      BY <2>1, <2>2, RunsIn DEF KeyCreatesMbox
    <3> QED BY <2>2, <3>1 DEF KeyCreatesMbox, KernelNext, Service
  <2>3. ASSUME NEW k \in Pressed \cup {0}, ScanKey(k) PROVE [KernelNext]_kernelVars
    <3>1. APP_KEY_PRIO \in OSTCBPrioTbl
      BY <2>1, <2>3, RunsIn DEF ScanKey
    <3>2. CASE Released(k) \/ Repeats(k)
      <4>1. keysave \in Msg
        BY <3>2, AppFacts DEF FirmwareInv, TypeOK, Released, Repeats, Held
      <4>2. OSMboxPost(APP_KEY_PRIO, keysave)
        BY <2>3, <3>2 DEF ScanKey
      <4> QED BY <3>1, <4>1, <4>2 DEF KernelNext, Service
    <3>3. CASE ~ (Released(k) \/ Repeats(k))
      BY <2>3, <3>3 DEF ScanKey
    <3> QED BY <3>2, <3>3
  <2> QED BY <1>4, <1>8, <2>1, <2>2, <2>3 DEF KeyStep
<1>9. CASE UiStep
  <2>1. APP_UI_PRIO \in AppPrio
    BY DEF AppPrio
  <2>2. CASE WaitForKey
    <3>1. APP_UI_PRIO \in OSTCBPrioTbl /\ step[APP_UI_PRIO] = "pend"
      BY <2>1, <2>2, RunsIn DEF WaitForKey
    <3>2. ID \in {"Menu", "Run", "State", "Set", "Read"}
      BY <3>1 DEF FirmwareInv, TypeOK, MotorOwner
    <3>3. KeyTimeout[ID] \in 0..MaxTimeout
      BY <3>2, TimeAssumption
    <3> QED BY <2>2, <3>1, <3>3 DEF WaitForKey, KernelNext, Service
  <2> QED BY <1>4, <1>9, <2>1, <2>2 DEF UiStep, EnterPage, MenuBrakesCH3, MenuBrakesCH2, GetKey, MenuKey,
             RunKey, StateKey, StopCH3, StopCH2, ReadKey, SetKey
<1> QED BY <1>1, <1>2, <1>3, <1>5, <1>6, <1>7, <1>8, <1>9 DEF Next, TaskStep

(***************************************************************************)
(* What a step of one task leaves alone.                                   *)
(***************************************************************************)
Everywhere == {"boot", "suspend", "create", "body", "delay", "ch3", "ch2", "page",
               "brake3", "brake2", "pend", "key", "handle", "stop3", "stop2"}

\* What a step of task t that ends at r may do to the tables of the kernel.
Sleeps(t, r) ==
  /\ UNCHANGED OSTCBPrioTbl /\ (created => created')
  /\ OSRdyTbl \ {t} \subseteq OSRdyTbl'
  /\ t \in OSRdyTbl' \/ r \in Resting(t)

\* A statement that calls no service, and the call that ends a round, do no more.
LEMMA Quiet ==
  ASSUME FirmwareInv, NEW t \in AppPrio, NEW s, NEW r, In(t, s), UNCHANGED kernelVars
  PROVE  Sleeps(t, r)
BY RunsIn DEF kernelVars, mboxVars, Sleeps

LEMMA Delays ==
  ASSUME NEW t \in AppPrio, NEW r \in Resting(t), EndRound(t, r)
  PROVE  Sleeps(t, r)
BY DEF EndRound, OSTimeDly, mboxVars, Sleeps

\* A task that moves on keeps the others where they are, and sleeps only where it may.
LEMMA Moves ==
  ASSUME FirmwareInv, NEW t \in AppPrio, NEW s, NEW r, In(t, s), To(t, r), r \in Place(t), Sleeps(t, r)
  PROVE  /\ RoundsRest' /\ step' \in [Prio -> Everywhere]
         /\ \A p \in Prio : step'[p] = IF p = t THEN r ELSE step[p]
<1>1. t \in Prio /\ step \in [Prio -> Everywhere]
  BY RunsIn DEF FirmwareInv, TypeOK, Everywhere
<1>2. r \in Everywhere
  BY Places DEF AppPrio, Everywhere
<1>3. \A p \in Prio : step'[p] = IF p = t THEN r ELSE step[p]
  BY <1>1 DEF To
<1>4. step' \in [Prio -> Everywhere]
  BY <1>1, <1>2 DEF To
<1>5. RoundsRest'
  BY <1>3 DEF FirmwareInv, RoundsRest, Sleeps
<1> QED BY <1>3, <1>4, <1>5

\* The application's part of the invariant.
AppInv == TypeOK /\ RoundsRest /\ BootOrder /\ MotorOwner /\ MotorOnlyOnRun /\ PressStartsFresh

\* A step that leaves the application where it is.
LEMMA AppStays ==
  ASSUME FirmwareInv, UNCHANGED <<step, systick, keyVars, pageVars, motorVars>>,
         OSTCBPrioTbl \subseteq OSTCBPrioTbl', created => created',
         OSTCBPrioTbl' \ OSRdyTbl' \subseteq OSTCBPrioTbl \ OSRdyTbl,
         step[APP_START_TASK_PRIO] = "suspend" => OSTCBPrioTbl' = OSTCBPrioTbl
  PROVE  AppInv'
<1>1. TypeOK' /\ PressStartsFresh'
  BY DEF FirmwareInv, TypeOK, PressStartsFresh, keyVars, pageVars, motorVars
<1>2. RoundsRest'
  BY DEF FirmwareInv, RoundsRest
<1>3. BootOrder'
  BY DEF FirmwareInv, BootOrder
<1>4. MotorOwner' /\ MotorOnlyOnRun'
  BY DEF FirmwareInv, MotorOwner, MotorOnlyOnRun, pageVars, motorVars
<1> QED BY <1>1, <1>2, <1>3, <1>4 DEF AppInv

\* A step of a task that is not the user interface and leaves the motor alone.
LEMMA WorkerStays ==
  ASSUME FirmwareInv, NEW t \in AppPrio \ {APP_UI_PRIO}, NEW s, NEW r, In(t, s), To(t, r), r \in Place(t),
         Sleeps(t, r), t = APP_START_TASK_PRIO => OSTCBPrioTbl = Prio, UNCHANGED <<systick, pageVars, motorVars>>,
         t = APP_SPEED_PRIO /\ r \in {"ch3", "ch2"} => speedswitch = 1,
         t = APP_KEY_PRIO => created',
         keysave' \in 0..5, T' \in 0..(LongPressTime + 1), Ti' \in 0..(LongPressSpeed + 1), PressStartsFresh'
  PROVE  AppInv'
<1>1. /\ RoundsRest' /\ step' \in [Prio -> Everywhere]
      /\ \A p \in Prio : step'[p] = IF p = t THEN r ELSE step[p]
  BY Moves
<1>2. TypeOK'
  BY <1>1 DEF FirmwareInv, TypeOK, Everywhere, pageVars, motorVars
<1>3. step[t] = s
  BY RunsIn
<1>4. BootOrder'
  BY <1>1, <1>3, AppFacts DEF FirmwareInv, BootOrder, Sleeps
<1>5. /\ step'[APP_UI_PRIO] = step[APP_UI_PRIO]
      /\ step'[APP_SPEED_PRIO] \in {"ch3", "ch2"} => speedswitch = 1
  BY <1>1, AppFacts DEF FirmwareInv, MotorOwner
<1>6. MotorOwner' /\ MotorOnlyOnRun'
  BY <1>5 DEF FirmwareInv, MotorOwner, MotorOnlyOnRun, pageVars, motorVars
<1> QED BY <1>1, <1>2, <1>4, <1>6 DEF AppInv

\* A statement of the user interface, from s to r, with what it leaves in the motor.
UiOwns(ui, id, sw, c3, c2) ==
  /\ sw = 1 => id = "Run" /\ ui \notin {"stop3", "stop2"}
  /\ ui \in {"brake3", "brake2"} => id = "Menu"
  /\ id = "Record" => ui \in {"page", "delay"}
  /\ ui = "brake2" => c3 = "brake"
  /\ ui = "stop2" => c3 = "off"
  /\ id # "Run" /\ ui \notin {"brake2", "stop2"} => c3 = c2
  /\ id # "Run" => sw = 0 /\ c3 # "pid"

LEMMA UiOwnsMotor ==
  ASSUME FirmwareInv, NEW s, In(APP_UI_PRIO, s)
  PROVE  UiOwns(s, ID, speedswitch, CH3, CH2)
<1>1. step[APP_UI_PRIO] = s
  BY DEF In
<1> QED BY <1>1 DEF FirmwareInv, MotorOwner, MotorOnlyOnRun, UiOwns

LEMMA UiStays ==
  ASSUME FirmwareInv, NEW s, NEW r, In(APP_UI_PRIO, s), To(APP_UI_PRIO, r), r \in Place(APP_UI_PRIO),
         Sleeps(APP_UI_PRIO, r), UNCHANGED <<systick, keyVars>>,
         ID' \in {"Menu", "Run", "State", "Set", "Record", "Read"}, key' \in 0..5, Arrow' \in 3..7,
         speedswitch' \in 0..1, CH3' \in {"off", "brake", "pid"}, CH2' \in {"off", "brake"},
         UiOwns(r, ID', speedswitch', CH3', CH2')
  PROVE  AppInv'
<1>1. APP_UI_PRIO \in AppPrio
  BY DEF AppPrio
<1>2. /\ RoundsRest' /\ step' \in [Prio -> Everywhere]
      /\ \A p \in Prio : step'[p] = IF p = APP_UI_PRIO THEN r ELSE step[p]
  BY <1>1, Moves
<1>3. TypeOK' /\ PressStartsFresh'
  BY <1>2 DEF FirmwareInv, TypeOK, Everywhere, PressStartsFresh, keyVars
<1>4. BootOrder'
  BY <1>2, AppFacts DEF FirmwareInv, BootOrder, Sleeps
<1>5. step'[APP_UI_PRIO] = r /\ step'[APP_SPEED_PRIO] = "body"
  BY <1>2, AppFacts, UiRunsAlone
<1>6. MotorOwner' /\ MotorOnlyOnRun'
  BY <1>5 DEF MotorOwner, MotorOnlyOnRun, UiOwns
<1> QED BY <1>2, <1>3, <1>4, <1>6 DEF AppInv

(***************************************************************************)
(* Each group of actions keeps the invariant.                              *)
(***************************************************************************)
LEMMA FirmwareInit == Init => FirmwareInv
<1> SUFFICES ASSUME Init PROVE FirmwareInv
  OBVIOUS
<1>1. KernelInv
  BY KernelInitInv DEF Init
<1>2. \A p \in Prio : step[p] = CASE p = APP_START_TASK_PRIO -> "boot" [] p = APP_KEY_PRIO -> "create"
                                  [] p = APP_UI_PRIO -> "page" [] OTHER -> "body"
  BY DEF Init
<1>3. /\ step[APP_START_TASK_PRIO] = "boot" /\ step[APP_KEY_PRIO] = "create" /\ step[APP_UI_PRIO] = "page"
      /\ \A p \in Prio \ {APP_START_TASK_PRIO, APP_KEY_PRIO, APP_UI_PRIO} : step[p] = "body"
  <2>1. step[APP_START_TASK_PRIO] = "boot"
    BY <1>2, AppFacts
  <2>2. step[APP_KEY_PRIO] = "create"
    BY <1>2, AppFacts
  <2>3. step[APP_UI_PRIO] = "page"
    BY <1>2, AppFacts
  <2>4. ASSUME NEW p \in Prio \ {APP_START_TASK_PRIO, APP_KEY_PRIO, APP_UI_PRIO} PROVE step[p] = "body"
    BY <1>2
  <2> QED BY <2>1, <2>2, <2>3, <2>4
<1>4. TypeOK
  <2>1. step \in [Prio -> Everywhere]
    <3>1. step = [p \in Prio |-> step[p]]
      BY DEF Init
    <3>2. \A p \in Prio : step[p] \in Everywhere
      BY <1>3 DEF Everywhere
    <3> QED BY <3>1, <3>2
  <2>2. keysave \in 0..5
    BY AppFacts DEF Init
  <2>3. /\ T = 0 /\ Ti = 0 /\ ID = "Menu" /\ key = 0 /\ Arrow = 3
        /\ speedswitch = 0 /\ CH3 = "off" /\ CH2 = "off"
    BY DEF Init
  <2>4. T \in 0..(LongPressTime + 1) /\ Ti \in 0..(LongPressSpeed + 1)
    BY <2>3, TimeAssumption
  <2>5. key \in 0..5 /\ Arrow \in 3..7 /\ speedswitch \in 0..1
    BY <2>3
  <2>6. /\ ID \in {"Menu", "Run", "State", "Set", "Record", "Read"}
        /\ CH3 \in {"off", "brake", "pid"} /\ CH2 \in {"off", "brake"}
    BY <2>3
  <2>7. systick \in BOOLEAN
    BY Zenon DEF Init
  <2> QED BY <2>1, <2>2, <2>4, <2>5, <2>6, <2>7 DEF TypeOK, Everywhere
<1>5. RoundsRest
  <2>1. OSTCBPrioTbl \subseteq OSRdyTbl
    BY DEF Init, KernelInit
  <2>2. \A p \in Prio : p \in AppPrio
    BY AppFacts
  <2>3. \A p \in Prio : step[p] \in Place(p)
    BY <1>3, <2>2, Places, AppFacts DEF AppPrio
  <2> QED BY <2>1, <2>3 DEF RoundsRest
<1>6. BootOrder /\ MotorOwner /\ MotorOnlyOnRun /\ PressStartsFresh
  BY <1>3, AppFacts DEF Init, KernelInit, BootOrder, MotorOwner, MotorOnlyOnRun, PressStartsFresh
<1> QED BY <1>1, <1>4, <1>5, <1>6 DEF FirmwareInv

LEMMA KernelKeepsApp ==
  ASSUME FirmwareInv, SysTick \/ ServiceStep
  PROVE  AppInv'
<1>1. UNCHANGED <<step, systick, keyVars, pageVars, motorVars, OSTCBPrioTbl, created>>
  BY DEF SysTick, ServiceStep, Tick, OS_Sched, PendReturn, mboxVars
<1>2. OSRdyTbl \subseteq OSRdyTbl'
  BY DEF SysTick, ServiceStep, Tick, TimeUp, OS_Sched, PendReturn
<1> QED BY <1>1, <1>2, AppStays

LEMMA StartKeepsApp ==
  ASSUME FirmwareInv, StartStep
  PROVE  AppInv'
<1>1. APP_START_TASK_PRIO \in AppPrio /\ APP_START_TASK_PRIO # APP_UI_PRIO
  BY AppFacts DEF AppPrio
<1>2. ASSUME CreateNext PROVE AppInv'
  <2>1. step[APP_START_TASK_PRIO] = "boot"
    BY <1>2 DEF CreateNext, In
  <2>2. PICK p : OSTaskCreate(APP_START_TASK_PRIO, p)
    BY <1>2 DEF CreateNext
  <2>3. /\ UNCHANGED <<step, systick, keyVars, pageVars, motorVars, created>>
        /\ OSTCBPrioTbl' = OSTCBPrioTbl \cup {p} /\ OSRdyTbl' = OSRdyTbl \cup {p}
    BY <1>2, <2>2 DEF CreateNext, OSTaskCreate, mboxVars
  <2> QED BY <2>1, <2>3, AppStays
<1>3. ASSUME StartTick PROVE AppInv'
  <2>1. /\ In(APP_START_TASK_PRIO, "boot") /\ To(APP_START_TASK_PRIO, "suspend") /\ ToCreate = {}
        /\ UNCHANGED <<kernelVars, keyVars, pageVars, motorVars>>
    BY <1>3 DEF StartTick
  <2>2. systick' \in BOOLEAN
    BY <1>3, Zenon DEF StartTick
  <2>3. Sleeps(APP_START_TASK_PRIO, "suspend") /\ "suspend" \in Place(APP_START_TASK_PRIO)
    BY <1>1, <2>1, Quiet, Places
  <2>4. OSTCBPrioTbl = Prio
    <3>1. APP_START_TASK_PRIO \in OSTCBPrioTbl /\ OSTCBPrioTbl \subseteq Prio
      BY AppFacts DEF FirmwareInv, BootOrder, KernelInv, KernelTypeOK
    <3>2. \A p \in AppPrio \ {APP_START_TASK_PRIO} : \E i \in DOMAIN CreateOrder : CreateOrder[i] = p
      BY DEF AppPrio, CreateOrder
    <3> QED BY <2>1, <3>1, <3>2, AppFacts DEF ToCreate
  <2>5. /\ RoundsRest' /\ step' \in [Prio -> Everywhere]
        /\ \A p \in Prio : step'[p] = IF p = APP_START_TASK_PRIO THEN "suspend" ELSE step[p]
    BY <1>1, <2>1, <2>3, Moves
  <2>6. BootOrder'
    BY <2>3, <2>4, <2>5, AppFacts DEF FirmwareInv, BootOrder, Sleeps
  <2>7. TypeOK' /\ PressStartsFresh'
    BY <2>1, <2>2, <2>5
    DEF FirmwareInv, TypeOK, PressStartsFresh, Everywhere, keyVars, pageVars, motorVars
  <2>8. MotorOwner' /\ MotorOnlyOnRun'
    BY <2>1, <2>5, AppFacts DEF FirmwareInv, MotorOwner, MotorOnlyOnRun, pageVars, motorVars
  <2> QED BY <2>5, <2>6, <2>7, <2>8 DEF AppInv
<1>4. ASSUME StartSuspends PROVE AppInv'
  <2>1. step[APP_START_TASK_PRIO] = "suspend"
    BY <1>4 DEF StartSuspends, In
  <2>2. /\ UNCHANGED <<step, systick, keyVars, pageVars, motorVars, OSTCBPrioTbl, created>>
        /\ OSRdyTbl' = OSRdyTbl \ {APP_START_TASK_PRIO}
    BY <1>4 DEF StartSuspends, OSTaskSuspend, mboxVars
  <2>3. RoundsRest'
    BY <2>1, <2>2, Places DEF FirmwareInv, RoundsRest
  <2>4. TypeOK' /\ PressStartsFresh'
    BY <2>2 DEF FirmwareInv, TypeOK, PressStartsFresh, keyVars, pageVars, motorVars
  <2>5. BootOrder' /\ MotorOwner' /\ MotorOnlyOnRun'
    BY <2>2 DEF FirmwareInv, BootOrder, MotorOwner, MotorOnlyOnRun, pageVars, motorVars
  <2> QED BY <2>3, <2>4, <2>5 DEF AppInv
<1> QED BY <1>2, <1>3, <1>4 DEF StartStep

\* The end of a round of any task but the user interface.
LEMMA RoundEnds ==
  ASSUME FirmwareInv, NEW t \in AppPrio \ {APP_UI_PRIO, APP_START_TASK_PRIO}, EndRound(t, "body")
  PROVE  AppInv'
<1>1. /\ In(t, "delay") /\ To(t, "body") /\ UNCHANGED <<systick, keyVars, pageVars, motorVars>>
  BY DEF EndRound
<1>2. "body" \in Place(t) /\ "body" \in Resting(t)
  BY Places DEF AppPrio
<1>3. Sleeps(t, "body")
  BY <1>2, Delays
<1>4. t = APP_KEY_PRIO => created'
  <2>1. step[t] = "delay"
    BY <1>1 DEF In
  <2> QED BY <1>3, <2>1 DEF FirmwareInv, BootOrder, Sleeps
<1>5. /\ keysave' \in 0..5 /\ T' \in 0..(LongPressTime + 1) /\ Ti' \in 0..(LongPressSpeed + 1)
      /\ PressStartsFresh'
  BY <1>1 DEF FirmwareInv, TypeOK, PressStartsFresh, keyVars
<1> QED BY <1>1, <1>2, <1>3, <1>4, <1>5, WorkerStays

LEMMA SteeringKeepsApp ==
  ASSUME FirmwareInv, SteeringStep
  PROVE  AppInv'
<1>1. PICK t \in {APP_AD_PRIO, APP_TURN_PRIO} : SteeringWork(t) \/ EndRound(t, "body")
  BY DEF SteeringStep
<1>2. t \in AppPrio \ {APP_UI_PRIO, APP_START_TASK_PRIO, APP_SPEED_PRIO, APP_KEY_PRIO}
  BY AppFacts DEF AppPrio
<1>3. ASSUME SteeringWork(t) PROVE AppInv'
  <2>1. /\ In(t, "body") /\ To(t, "delay") /\ UNCHANGED <<kernelVars, systick, keyVars, pageVars, motorVars>>
    BY <1>3 DEF SteeringWork
  <2>2. Sleeps(t, "delay") /\ "delay" \in Place(t)
    BY <1>1, <1>2, <2>1, Quiet, Places
  <2>3. /\ keysave' \in 0..5 /\ T' \in 0..(LongPressTime + 1) /\ Ti' \in 0..(LongPressSpeed + 1)
        /\ PressStartsFresh'
    BY <2>1 DEF FirmwareInv, TypeOK, PressStartsFresh, keyVars
  <2> QED BY <1>2, <2>1, <2>2, <2>3, WorkerStays
<1> QED BY <1>1, <1>2, <1>3, RoundEnds

LEMMA SpeedKeepsApp ==
  ASSUME FirmwareInv, SpeedStep
  PROVE  AppInv'
<1>1. /\ APP_SPEED_PRIO \in AppPrio \ {APP_UI_PRIO, APP_START_TASK_PRIO, APP_KEY_PRIO}
      /\ Place(APP_SPEED_PRIO) = {"body", "ch3", "ch2", "delay"}
  BY AppFacts, Places DEF AppPrio
<1>2. ASSUME SpeedReads PROVE AppInv'
  <2> DEFINE r == IF speedswitch = 1 THEN "ch3" ELSE "delay"
  <2>1. /\ In(APP_SPEED_PRIO, "body") /\ To(APP_SPEED_PRIO, r)
        /\ UNCHANGED <<kernelVars, systick, keyVars, pageVars, motorVars>>
    BY <1>2 DEF SpeedReads
  <2>2. r \in Place(APP_SPEED_PRIO) /\ (r \in {"ch3", "ch2"} => speedswitch = 1)
    BY <1>1
  <2> HIDE DEF r
  <2>3. Sleeps(APP_SPEED_PRIO, r)
    BY <1>1, <2>1, Quiet
  <2>4. /\ keysave' \in 0..5 /\ T' \in 0..(LongPressTime + 1) /\ Ti' \in 0..(LongPressSpeed + 1)
        /\ PressStartsFresh'
    BY <2>1 DEF FirmwareInv, TypeOK, PressStartsFresh, keyVars
  <2> QED BY <1>1, <2>1, <2>2, <2>3, <2>4, WorkerStays
\* The two writes: the motor is on, so the page is Run and does not write the duties.
<1>3. ASSUME SpeedDrivesCH3 \/ SpeedDrivesCH2 PROVE AppInv'
  <2>1. PICK s \in {"ch3", "ch2"}, r \in {"ch2", "delay"} :
          /\ In(APP_SPEED_PRIO, s) /\ To(APP_SPEED_PRIO, r)
          /\ UNCHANGED <<kernelVars, systick, keyVars, pageVars, speedswitch>>
          /\ CH3' \in {"pid", CH3} /\ CH2' \in {"off", CH2}
    BY <1>3 DEF SpeedDrivesCH3, SpeedDrivesCH2
  <2>2. speedswitch = 1 /\ ID = "Run" /\ step[APP_UI_PRIO] \notin {"stop3", "stop2", "brake3", "brake2"}
    <3>1. step[APP_SPEED_PRIO] \in {"ch3", "ch2"}
      BY <2>1 DEF In
    <3> QED BY <3>1 DEF FirmwareInv, MotorOwner
  <2>3. Sleeps(APP_SPEED_PRIO, r)
    BY <1>1, <2>1, Quiet
  <2>4. /\ RoundsRest' /\ step' \in [Prio -> Everywhere]
        /\ \A p \in Prio : step'[p] = IF p = APP_SPEED_PRIO THEN r ELSE step[p]
    BY <1>1, <2>1, <2>3, Moves
  <2>5. /\ step'[APP_UI_PRIO] = step[APP_UI_PRIO] /\ step'[APP_KEY_PRIO] = step[APP_KEY_PRIO]
        /\ step'[APP_START_TASK_PRIO] = step[APP_START_TASK_PRIO]
    BY <2>4, AppFacts
  <2>6. TypeOK' /\ PressStartsFresh'
    BY <2>1, <2>4 DEF FirmwareInv, TypeOK, PressStartsFresh, Everywhere, keyVars, pageVars
  <2>7. BootOrder'
    BY <2>3, <2>5 DEF FirmwareInv, BootOrder, Sleeps
  <2>8. MotorOwner' /\ MotorOnlyOnRun'
    BY <2>1, <2>2, <2>5 DEF FirmwareInv, MotorOwner, MotorOnlyOnRun, pageVars
  <2> QED BY <2>4, <2>6, <2>7, <2>8 DEF AppInv
<1> QED BY <1>1, <1>2, <1>3, RoundEnds DEF SpeedStep

LEMMA KeyKeepsApp ==
  ASSUME FirmwareInv, KeyStep
  PROVE  AppInv'
<1>1. /\ APP_KEY_PRIO \in AppPrio \ {APP_UI_PRIO, APP_START_TASK_PRIO, APP_SPEED_PRIO}
      /\ Place(APP_KEY_PRIO) = {"create", "body", "delay"} /\ Resting(APP_KEY_PRIO) = {"body"}
  BY AppFacts, Places DEF AppPrio
<1>2. ASSUME KeyCreatesMbox PROVE AppInv'
  <2>1. /\ In(APP_KEY_PRIO, "create") /\ To(APP_KEY_PRIO, "body")
        /\ UNCHANGED <<OSTCBPrioTbl, OSRdyTbl, systick, keyVars, pageVars, motorVars>>
    BY <1>2 DEF KeyCreatesMbox, OSMboxCreate
  <2>2. created'
    BY <1>2 DEF KeyCreatesMbox, OSMboxCreate
  <2>3. Sleeps(APP_KEY_PRIO, "body")
    BY <1>1, <2>1, <2>2, RunsIn DEF Sleeps
  <2>4. /\ keysave' \in 0..5 /\ T' \in 0..(LongPressTime + 1) /\ Ti' \in 0..(LongPressSpeed + 1)
        /\ PressStartsFresh'
    BY <2>1 DEF FirmwareInv, TypeOK, PressStartsFresh, keyVars
  <2> QED BY <1>1, <2>1, <2>2, <2>3, <2>4, WorkerStays
<1>3. ASSUME NEW k \in Pressed \cup {0}, ScanKey(k) PROVE AppInv'
  <2>1. /\ In(APP_KEY_PRIO, "body") /\ To(APP_KEY_PRIO, "delay") /\ UNCHANGED <<systick, pageVars, motorVars>>
        /\ T' = Age(k) /\ Ti' = RepeatCount(k) /\ keysave' = k
    BY <1>3 DEF ScanKey
  <2>2. UNCHANGED <<OSTCBPrioTbl, created>> /\ OSRdyTbl \subseteq OSRdyTbl'
    <3>1. CASE UNCHANGED kernelVars
      BY <3>1 DEF kernelVars, mboxVars
    <3>2. CASE OSMboxPost(APP_KEY_PRIO, keysave)
      BY <3>2 DEF OSMboxPost, PostToWaiter, PostToSlot, OS_EventTaskRdy
    <3> QED BY <1>3, <3>1, <3>2 DEF ScanKey
  <2>3. step[APP_KEY_PRIO] = "body" /\ created'
    BY <2>1, <2>2 DEF In, FirmwareInv, BootOrder
  <2>4. Sleeps(APP_KEY_PRIO, "delay")
    BY <1>1, <2>1, <2>2, RunsIn DEF Sleeps
  <2>5. keysave' \in 0..5
    BY <2>1, AppFacts
  <2>6. T' \in 0..(LongPressTime + 1)
    BY <2>1, TimeAssumption DEF FirmwareInv, TypeOK, Age
  <2>7. Ti' \in 0..(LongPressSpeed + 1)
    BY <2>1, TimeAssumption DEF FirmwareInv, TypeOK, RepeatCount, Repeats
  \* No key now: the key of the last scan, if any, is released.
  <2>8. PressStartsFresh'
    <3>1. CASE keysave = 0
      BY <2>1, <3>1 DEF FirmwareInv, PressStartsFresh, Age, RepeatCount, Repeats, Released, Held
    <3>2. CASE keysave # 0
      BY <2>1, <3>2 DEF PressStartsFresh, Age, RepeatCount, Released
    <3> QED BY <3>1, <3>2
  <2> QED BY <1>1, <2>1, <2>3, <2>4, <2>5, <2>6, <2>7, <2>8, WorkerStays
<1> QED BY <1>1, <1>2, <1>3, RoundEnds DEF KeyStep

LEMMA UiKeepsApp ==
  ASSUME FirmwareInv, UiStep
  PROVE  AppInv'
<1> DEFINE Types == /\ ID \in {"Menu", "Run", "State", "Set", "Record", "Read"} /\ key \in 0..5
                    /\ Arrow \in 3..7 /\ speedswitch \in 0..1
                    /\ CH3 \in {"off", "brake", "pid"} /\ CH2 \in {"off", "brake"}
<1>1. /\ APP_UI_PRIO \in AppPrio
      /\ Place(APP_UI_PRIO) = {"page", "brake3", "brake2", "pend", "key", "handle", "stop3", "stop2", "delay"}
      /\ Resting(APP_UI_PRIO) = {"page", "key"}
      /\ Types
  BY Places DEF AppPrio, FirmwareInv, TypeOK
\* What is left of an action that calls no service.
<1>2. ASSUME NEW s, NEW r \in Place(APP_UI_PRIO), In(APP_UI_PRIO, s), To(APP_UI_PRIO, r),
             UNCHANGED <<kernelVars, systick, keyVars>>, Types',
             UiOwns(s, ID, speedswitch, CH3, CH2) => UiOwns(r, ID', speedswitch', CH3', CH2')
      PROVE  AppInv'
  <2>1. Sleeps(APP_UI_PRIO, r)
    BY <1>1, <1>2, Quiet
  <2> QED BY <1>2, <2>1, UiOwnsMotor, UiStays
<1>3. ASSUME EnterPage PROVE AppInv'
  <2> DEFINE r == IF ID = "Record" THEN "delay" ELSE IF ID = "Menu" THEN "brake3" ELSE "pend"
  <2>1. In(APP_UI_PRIO, "page") /\ To(APP_UI_PRIO, r) /\ UNCHANGED <<kernelVars, systick, keyVars>>
    BY <1>3 DEF EnterPage
  <2>2. Types' /\ r \in Place(APP_UI_PRIO)
    BY <1>1, <1>3 DEF EnterPage, motorVars
  <2>3. UiOwns("page", ID, speedswitch, CH3, CH2) => UiOwns(r, ID', speedswitch', CH3', CH2')
    BY <1>3 DEF EnterPage, motorVars, UiOwns
  <2> QED BY <1>2, <2>1, <2>2, <2>3
<1>4. ASSUME MenuBrakesCH3 PROVE AppInv'
  <2>1. UiOwns("brake3", ID, speedswitch, CH3, CH2) => UiOwns("brake2", ID', speedswitch', CH3', CH2')
    BY <1>4 DEF MenuBrakesCH3, pageVars, UiOwns
  <2> QED BY <1>1, <1>2, <1>4, <2>1 DEF MenuBrakesCH3, pageVars
<1>5. ASSUME MenuBrakesCH2 PROVE AppInv'
  <2>1. UiOwns("brake2", ID, speedswitch, CH3, CH2) => UiOwns("pend", ID', speedswitch', CH3', CH2')
    BY <1>5 DEF MenuBrakesCH2, pageVars, UiOwns
  <2> QED BY <1>1, <1>2, <1>5, <2>1 DEF MenuBrakesCH2, pageVars
<1>6. ASSUME GetKey PROVE AppInv'
  <2>1. UiOwns("key", ID, speedswitch, CH3, CH2) => UiOwns("handle", ID', speedswitch', CH3', CH2')
    BY <1>6 DEF GetKey, motorVars, UiOwns
  <2>2. got[APP_UI_PRIO] \in 0..5
    BY AppFacts DEF FirmwareInv, KernelInv, KernelTypeOK
  <2> QED BY <1>1, <1>2, <1>6, <2>1, <2>2 DEF GetKey, motorVars
<1>7. ASSUME MenuKey PROVE AppInv'
  <2>1. ID' \in {"Menu", "Run", "State", "Set", "Record", "Read"}
    <3>1. MenuItem[Arrow] \in {"Menu", "Run", "State", "Set", "Record", "Read"}
      BY <1>1 DEF MenuItem
    <3> QED BY <1>1, <1>7, <3>1 DEF MenuKey, Leave, Stay
  <2>2. Arrow' \in 3..7
    BY <1>1, <1>7 DEF MenuKey
  <2>3. PICK r \in {"delay", "brake3", "pend"} :
          To(APP_UI_PRIO, r) /\ (r # "delay" => ID' = ID) /\ (r = "brake3" => ID = "Menu")
    BY <1>7 DEF MenuKey, Leave, Stay
  <2>4. UiOwns("handle", ID, speedswitch, CH3, CH2) => UiOwns(r, ID', speedswitch', CH3', CH2')
    BY <1>7, <2>3 DEF MenuKey, motorVars, UiOwns
  <2>5. In(APP_UI_PRIO, "handle") /\ UNCHANGED <<kernelVars, systick, keyVars, key, motorVars>>
    BY <1>7 DEF MenuKey
  <2>6. Types'
    BY <1>1, <2>1, <2>2, <2>5 DEF motorVars
  <2> QED BY <1>1, <1>2, <2>3, <2>4, <2>5, <2>6
<1>8. ASSUME RunKey PROVE AppInv'
  <2> DEFINE r == IF key = 4 THEN "stop3" ELSE "pend"
  <2>1. /\ In(APP_UI_PRIO, "handle") /\ To(APP_UI_PRIO, r) /\ ID = "Run"
        /\ UNCHANGED <<kernelVars, systick, keyVars, pageVars, CH3, CH2>>
    BY <1>8 DEF RunKey
  <2>2. speedswitch' \in 0..1 /\ (key = 4 => speedswitch' = 0)
    BY <1>1, <1>8 DEF RunKey
  <2>3. Types' /\ r \in Place(APP_UI_PRIO)
    BY <1>1, <2>1, <2>2 DEF pageVars
  <2>4. UiOwns("handle", ID, speedswitch, CH3, CH2) => UiOwns(r, ID', speedswitch', CH3', CH2')
    BY <2>1, <2>2 DEF pageVars, UiOwns
  <2> QED BY <1>2, <2>1, <2>3, <2>4
<1>9. ASSUME StateKey PROVE AppInv'
  <2> DEFINE r == IF key = 4 THEN "stop3" ELSE "pend"
  <2>1. /\ In(APP_UI_PRIO, "handle") /\ To(APP_UI_PRIO, r) /\ ID = "State"
        /\ UNCHANGED <<kernelVars, systick, keyVars, pageVars, motorVars>>
    BY <1>9 DEF StateKey
  <2>2. Types' /\ r \in Place(APP_UI_PRIO)
    BY <1>1, <2>1 DEF pageVars, motorVars
  <2>3. UiOwns("handle", ID, speedswitch, CH3, CH2) => UiOwns(r, ID', speedswitch', CH3', CH2')
    BY <2>1 DEF pageVars, motorVars, UiOwns
  <2> QED BY <1>2, <2>1, <2>2, <2>3
<1>10. ASSUME StopCH3 PROVE AppInv'
  <2>1. UiOwns("stop3", ID, speedswitch, CH3, CH2) => UiOwns("stop2", ID', speedswitch', CH3', CH2')
    BY <1>1, <1>10 DEF StopCH3, pageVars, UiOwns
  <2> QED BY <1>1, <1>2, <1>10, <2>1 DEF StopCH3, pageVars
<1>11. ASSUME StopCH2 PROVE AppInv'
  <2>1. UiOwns("stop2", ID, speedswitch, CH3, CH2) => UiOwns("delay", ID', speedswitch', CH3', CH2')
    BY <1>1, <1>11 DEF StopCH2, Leave, UiOwns
  <2> QED BY <1>1, <1>2, <1>11, <2>1 DEF StopCH2, Leave
<1>12. ASSUME ReadKey \/ SetKey PROVE AppInv'
  <2>1. /\ In(APP_UI_PRIO, "handle") /\ ID \in {"Read", "Set"}
        /\ UNCHANGED <<kernelVars, systick, keyVars, key, Arrow, motorVars>>
    BY <1>12 DEF ReadKey, SetKey
  <2>2. PICK r \in {"delay", "pend"} :
          To(APP_UI_PRIO, r) /\ ID' \in {"Menu", "Read", "Set"} /\ (r = "pend" => ID' = ID)
    BY <1>12, <2>1 DEF ReadKey, SetKey, Leave, Stay
  <2>3. Types'
    BY <1>1, <2>1, <2>2 DEF motorVars
  <2>4. UiOwns("handle", ID, speedswitch, CH3, CH2) => UiOwns(r, ID', speedswitch', CH3', CH2')
    BY <2>1, <2>2 DEF motorVars, UiOwns
  <2> QED BY <1>1, <1>2, <2>1, <2>2, <2>3, <2>4
\* The two places where the user interface may go to sleep.
<1>13. ASSUME WaitForKey PROVE AppInv'
  <2>1. /\ In(APP_UI_PRIO, "pend") /\ To(APP_UI_PRIO, "key")
        /\ UNCHANGED <<systick, keyVars, pageVars, motorVars>>
    BY <1>13 DEF WaitForKey
  <2>2. UNCHANGED <<OSTCBPrioTbl, created>> /\ OSRdyTbl \ {APP_UI_PRIO} \subseteq OSRdyTbl'
    BY <1>13 DEF WaitForKey, OSMboxPend, PendWait, TakeNow
  <2>3. Sleeps(APP_UI_PRIO, "key")
    BY <1>1, <2>2 DEF Sleeps
  <2>4. UiOwns("key", ID', speedswitch', CH3', CH2')
    BY <2>1, UiOwnsMotor DEF UiOwns, pageVars, motorVars
  <2> QED BY <1>1, <2>1, <2>3, <2>4, UiStays DEF pageVars, motorVars
<1>14. ASSUME EndRound(APP_UI_PRIO, "page") PROVE AppInv'
  <2>1. /\ In(APP_UI_PRIO, "delay") /\ To(APP_UI_PRIO, "page")
        /\ UNCHANGED <<systick, keyVars, pageVars, motorVars>>
    BY <1>14 DEF EndRound
  <2>2. Sleeps(APP_UI_PRIO, "page")
    BY <1>1, <1>14, Delays
  <2>3. UiOwns("page", ID', speedswitch', CH3', CH2')
    BY <2>1, UiOwnsMotor DEF UiOwns, pageVars, motorVars
  <2> QED BY <1>1, <2>1, <2>2, <2>3, UiStays DEF pageVars, motorVars
<1> QED BY <1>3, <1>4, <1>5, <1>6, <1>7, <1>8, <1>9, <1>10, <1>11, <1>12, <1>13, <1>14 DEF UiStep

LEMMA FirmwareNextInv == FirmwareInv /\ [Next]_vars => FirmwareInv'
<1> SUFFICES ASSUME FirmwareInv, [Next]_vars PROVE FirmwareInv'
  OBVIOUS
<1>1. KernelInv'
  BY FirmwareStepIsKernelStep, KernelNextInv DEF FirmwareInv
<1>2. AppInv'
  <2>1. CASE UNCHANGED vars
    <3>1. UNCHANGED <<step, systick, keyVars, pageVars, motorVars, OSTCBPrioTbl, OSRdyTbl, created>>
      BY <2>1 DEF vars, kernelVars, mboxVars
    <3> QED BY <3>1, AppStays
  <2> QED BY <2>1, KernelKeepsApp, StartKeepsApp, SteeringKeepsApp, SpeedKeepsApp, KeyKeepsApp, UiKeepsApp
          DEF Next, TaskStep
<1> QED BY <1>1, <1>2 DEF FirmwareInv, AppInv

(***************************************************************************)
(* The theorems.                                                           *)
(***************************************************************************)
\* Types, where each task sleeps, the order of boot and who writes the motor's duties, in
\* every state of the firmware.
THEOREM FirmwareSafe == Spec => []FirmwareInv
BY FirmwareInit, FirmwareNextInv, PTL DEF Spec

\* The tasks of app.c use the kernel as its specification allows: every behaviour of the
\* firmware is one of the kernel, so that the kernel's theorems hold of it.
THEOREM FirmwareRunsOnKernel == Spec => KernelSpec
<1>1. Init => KernelInit
  BY DEF Init
<1>2. FirmwareInv /\ [Next]_vars => [KernelNext]_kernelVars
  BY FirmwareStepIsKernelStep
<1> QED BY <1>1, <1>2, FirmwareSafe, PTL DEF Spec, KernelSpec

\* The key mailbox of the firmware is the mailbox its tasks rely on: what KeyStartTask()
\* posts is delivered once, to one page, or dropped while another key lies in it.
THEOREM FirmwareImplementsMailbox == Spec => ImplementsMailbox
BY FirmwareRunsOnKernel, KernelImplementsMailbox, PTL

\* A task moves on only in a step of its own.
LEMMA OwnStep ==
  ASSUME [Next]_vars, step \in [Prio -> Everywhere], NEW t \in Prio, step'[t] # step[t]
  PROVE  t \in AppPrio /\ \E s : In(t, s)
<1>1. ASSUME NEW u, NEW s, NEW r, In(u, s), To(u, r) PROVE \E x : In(t, x)
  <2>1. t = u
    BY <1>1 DEF To
  <2> QED BY <1>1, <2>1
<1>2. ~ UNCHANGED step
  OBVIOUS
<1>3. ~ UNCHANGED vars /\ ~ SysTick /\ ~ ServiceStep /\ ~ CreateNext /\ ~ StartSuspends
  BY <1>2 DEF vars, SysTick, ServiceStep, CreateNext, StartSuspends
<1>4. \A u, s : EndRound(u, s) => \E x : In(t, x)
  BY <1>1 DEF EndRound
<1>5. StartStep \/ SteeringStep \/ SpeedStep \/ KeyStep => \E x : In(t, x)
  BY <1>1, <1>3, <1>4 DEF StartStep, StartTick, SteeringStep, SteeringWork, SpeedStep, SpeedReads,
     SpeedDrivesCH3, SpeedDrivesCH2, KeyStep, KeyCreatesMbox, ScanKey
<1>6. UiStep => \E x : In(t, x)
  BY <1>1, <1>4 DEF UiStep, EnterPage, MenuBrakesCH3, MenuBrakesCH2, WaitForKey, GetKey, MenuKey,
     RunKey, StateKey, StopCH3, StopCH2, ReadKey, SetKey, Leave, Stay
<1> QED BY <1>3, <1>5, <1>6, AppFacts DEF Next, TaskStep

\* Preemption nests whole rounds: when a task goes on, every more urgent one has ended its
\* round, from the moment boot is over and for any choice of keys, timeouts and times.
THEOREM RoundsAreNested == Spec => RoundsNest
<1>1. FirmwareInv /\ [Next]_vars =>
        [\A j \in DOMAIN Urgency : \A i \in 1..(j - 1) :
           /\ Urgency[i] \in Prio /\ Urgency[j] \in Prio
           /\ step'[Urgency[j]] # step[Urgency[j]]
           => step[Urgency[i]] \in Resting(Urgency[i])]_vars
  <2> SUFFICES ASSUME FirmwareInv, [Next]_vars, NEW j \in DOMAIN Urgency, NEW i \in 1..(j - 1),
                      Urgency[i] \in Prio, Urgency[j] \in Prio,
                      step'[Urgency[j]] # step[Urgency[j]]
               PROVE  step[Urgency[i]] \in Resting(Urgency[i])
    OBVIOUS
  <2>1. Urgency[i] < Urgency[j] /\ APP_START_TASK_PRIO < Urgency[j]
    BY DEF Urgency, APP_START_TASK_PRIO, APP_AD_PRIO, APP_SPEED_PRIO, APP_TURN_PRIO, APP_KEY_PRIO,
           APP_UI_PRIO, Priorities
  <2>2. Urgency[j] \in AppPrio /\ \E s : In(Urgency[j], s)
    BY OwnStep DEF FirmwareInv, TypeOK, Everywhere
  <2> QED BY <2>1, <2>2, MoreUrgentRest
<1> QED BY <1>1, FirmwareSafe, PTL DEF Spec, RoundsNest

\* The first OSMboxPend() of the user interface (ui.c:85) comes after OSMboxCreate() of the
\* key task, whatever ticks and posts come first.
THEOREM MailboxReadyInTime == Spec => []MailboxBeforeUse
<1>1. FirmwareInv => MailboxBeforeUse
  BY UiRunsAlone DEF MailboxBeforeUse
<1> QED BY <1>1, FirmwareSafe, PTL

\* No interleaving of the speed task with the stop key leaves the motor under power on
\* another page.
THEOREM MotorOffElsewhere == Spec => []MotorOnlyOnRun
<1>1. FirmwareInv => MotorOnlyOnRun
  BY DEF FirmwareInv
<1> QED BY <1>1, FirmwareSafe, PTL

\* A page that waits for a key left both half-bridges at one duty.
THEOREM BridgeBalanced == Spec => []NoDriveWhileWaiting
<1>1. FirmwareInv => NoDriveWhileWaiting
  BY DEF FirmwareInv, MotorOwner, NoDriveWhileWaiting
<1> QED BY <1>1, FirmwareSafe, PTL

\* The counts of the key scan start again with every press.
THEOREM FreshPress == Spec => []PressStartsFresh
<1>1. FirmwareInv => PressStartsFresh
  BY DEF FirmwareInv
<1> QED BY <1>1, FirmwareSafe, PTL

(***************************************************************************)
(* Progress.  How the user interface sleeps: at the end of a round with a  *)
(* delay of one tick, or inside OSMboxPend(), and never suspended.         *)
(***************************************************************************)
UiSleep ==
  /\ "SUSPEND" \notin OSTCBStat[APP_UI_PRIO]
  /\ Inside(APP_UI_PRIO) => step[APP_UI_PRIO] = "key"
  /\ OSTCBDly[APP_UI_PRIO] > 0 /\ ~ Inside(APP_UI_PRIO) => step[APP_UI_PRIO] = "page"
  /\ step[APP_UI_PRIO] = "page" => OSTCBDly[APP_UI_PRIO] <= 1

\* What the others, the tick and the scheduler do to the user interface: they may end its
\* delay and take it through OSMboxPend(), no more.
UiWaits ==
  /\ step'[APP_UI_PRIO] = step[APP_UI_PRIO] /\ UNCHANGED <<pageVars, speedswitch>>
  /\ OSTCBDly'[APP_UI_PRIO] <= OSTCBDly[APP_UI_PRIO]
  /\ OSTCBStat'[APP_UI_PRIO] \subseteq OSTCBStat[APP_UI_PRIO]
  /\ Inside(APP_UI_PRIO)' => Inside(APP_UI_PRIO)
  /\ Inside(APP_UI_PRIO) /\ ~ Inside(APP_UI_PRIO)' => OSTCBDly'[APP_UI_PRIO] = 0

\* The kernel's part of it.
KernelWaits ==
  /\ OSTCBDly'[APP_UI_PRIO] <= OSTCBDly[APP_UI_PRIO]
  /\ OSTCBStat'[APP_UI_PRIO] \subseteq OSTCBStat[APP_UI_PRIO]
  /\ pc'[APP_UI_PRIO] = pc[APP_UI_PRIO]

LEMMA TableTypes ==
  ASSUME FirmwareInv
  PROVE  /\ APP_UI_PRIO \in Prio /\ OSTCBDly[APP_UI_PRIO] \in Nat
         /\ step \in [Prio -> Everywhere] /\ pc \in [Prio -> {"app", "sched", "pendSched", "pended"}]
         /\ OSTCBDly \in [Prio -> Nat] /\ OSTCBStat \in [Prio -> SUBSET {"MBOX", "SUSPEND"}]
BY AppFacts DEF FirmwareInv, TypeOK, Everywhere, KernelInv, KernelTypeOK

\* The calls of the other tasks.
LEMMA CallsOfOthers ==
  ASSUME FirmwareInv, NEW t \in Prio \ {APP_UI_PRIO}
  PROVE  /\ OSTimeDly(t, 1) => KernelWaits
         /\ OSMboxCreate(t) => KernelWaits
         /\ \A p : OSTaskCreate(t, p) => KernelWaits
         /\ \A m : OSMboxPost(t, m) => KernelWaits
         /\ OSTaskSuspend(t, t) => KernelWaits
         /\ UNCHANGED kernelVars => KernelWaits
<1>1. OSTimeDly(t, 1) => KernelWaits
  BY TableTypes DEF OSTimeDly, Goto, KernelWaits
<1>2. OSMboxCreate(t) => KernelWaits
  BY TableTypes DEF OSMboxCreate, tcbVars, KernelWaits
<1>3. \A p : OSTaskCreate(t, p) => KernelWaits
  BY TableTypes DEF OSTaskCreate, Goto, tcbVars, KernelWaits
<1>4. \A m : OSMboxPost(t, m) => KernelWaits
  <2>1. \A m : PostToSlot(m) => KernelWaits
    BY TableTypes DEF PostToSlot, tcbVars, KernelWaits
  <2>2. \A m : PostToWaiter(t, m) => KernelWaits
    BY TableTypes DEF PostToWaiter, OS_EventTaskRdy, Goto, KernelWaits
  <2> QED BY <2>1, <2>2 DEF OSMboxPost
<1>5. OSTaskSuspend(t, t) => KernelWaits
  BY TableTypes DEF OSTaskSuspend, Goto, KernelWaits
<1>6. UNCHANGED kernelVars => KernelWaits
  BY TableTypes DEF kernelVars, tcbVars, KernelWaits
<1> QED BY <1>1, <1>2, <1>3, <1>4, <1>5, <1>6

LEMMA TaskWaits ==
  ASSUME FirmwareInv, NEW t \in AppPrio \ {APP_UI_PRIO}, NEW s, In(t, s), KernelWaits,
         step' = step \/ \E r : To(t, r), UNCHANGED <<pageVars, speedswitch>>
  PROVE  UiWaits
<1>1. step'[APP_UI_PRIO] = step[APP_UI_PRIO]
  BY TableTypes DEF To
<1> QED BY <1>1 DEF KernelWaits, UiWaits, Inside

LEMMA OthersWork ==
  ASSUME FirmwareInv, [Next]_vars, ~ UiStep
  PROVE  UiWaits
<1>1. CASE UNCHANGED vars
  BY <1>1, TableTypes DEF vars, kernelVars, tcbVars, pageVars, motorVars, UiWaits, Inside
<1>2. CASE SysTick
  BY <1>2, TableTypes DEF SysTick, Tick, TimeUp, pageVars, motorVars, UiWaits, Inside
<1>3. CASE ServiceStep
  <2>1. PICK t \in OSTCBPrioTbl : OS_Sched(t) \/ PendReturn(t)
    BY <1>3 DEF ServiceStep
  <2>2. t \in Prio /\ UNCHANGED <<step, pageVars, speedswitch>>
    BY <1>3, <2>1 DEF ServiceStep, motorVars, FirmwareInv, KernelInv, KernelTypeOK
  <2>3. CASE OS_Sched(t)
    BY <2>2, <2>3, TableTypes DEF OS_Sched, Goto, tcbVars, UiWaits, Inside
  <2>4. CASE PendReturn(t)
    <3>1. OSTCBDly[t] = 0 /\ UNCHANGED OSTCBDly
      BY <2>2, <2>4, RunningReady DEF PendReturn, At, FirmwareInv
    <3>2. OSTCBStat'[APP_UI_PRIO] \subseteq OSTCBStat[APP_UI_PRIO]
      BY <2>2, <2>4, TableTypes DEF PendReturn
    <3>3. Inside(APP_UI_PRIO)' => Inside(APP_UI_PRIO)
      BY <2>2, <2>4, TableTypes DEF PendReturn, Goto, Inside
    <3>4. Inside(APP_UI_PRIO) /\ ~ Inside(APP_UI_PRIO)' => t = APP_UI_PRIO
      BY <2>2, <2>4, TableTypes DEF PendReturn, Goto, Inside
    <3> QED BY <2>2, <3>1, <3>2, <3>3, <3>4, TableTypes DEF UiWaits
  <2> QED BY <2>1, <2>3, <2>4
<1>4. ASSUME NEW t \in AppPrio \ {APP_UI_PRIO}, NEW s, EndRound(t, s) PROVE UiWaits
  <2>1. In(t, "delay") /\ To(t, s) /\ OSTimeDly(t, 1) /\ UNCHANGED <<pageVars, speedswitch>>
    BY <1>4 DEF EndRound, motorVars
  <2>2. KernelWaits
    BY <2>1, RunsIn, CallsOfOthers
  <2> QED BY <2>1, <2>2, TaskWaits
<1>5. CASE StartStep
  <2>1. APP_START_TASK_PRIO \in AppPrio \ {APP_UI_PRIO} /\ APP_START_TASK_PRIO \in Prio \ {APP_UI_PRIO}
    BY AppFacts DEF AppPrio
  <2>2. KernelWaits
    BY <1>5, <2>1, CallsOfOthers DEF StartStep, CreateNext, StartTick, StartSuspends
  <2>3. /\ \E s : In(APP_START_TASK_PRIO, s) /\ UNCHANGED <<pageVars, speedswitch>>
        /\ step' = step \/ \E r : To(APP_START_TASK_PRIO, r)
    BY <1>5 DEF StartStep, CreateNext, StartTick, StartSuspends, motorVars
  <2> QED BY <2>1, <2>2, <2>3, TaskWaits
<1>6. CASE SteeringStep
  <2>1. PICK t \in {APP_AD_PRIO, APP_TURN_PRIO} : SteeringWork(t) \/ EndRound(t, "body")
    BY <1>6 DEF SteeringStep
  <2>2. t \in AppPrio \ {APP_UI_PRIO}
    BY AppFacts DEF AppPrio
  <2>3. CASE SteeringWork(t)
    <3>1. In(t, "body") /\ To(t, "delay") /\ UNCHANGED <<kernelVars, pageVars, speedswitch>>
      BY <2>3 DEF SteeringWork, motorVars
    <3>2. KernelWaits
      BY <2>2, <3>1, RunsIn, CallsOfOthers
    <3> QED BY <2>2, <3>1, <3>2, TaskWaits
  <2> QED BY <1>4, <2>1, <2>2, <2>3
<1>7. CASE SpeedStep
  <2>1. APP_SPEED_PRIO \in AppPrio \ {APP_UI_PRIO} /\ APP_SPEED_PRIO \in Prio \ {APP_UI_PRIO}
    BY AppFacts DEF AppPrio
  <2>2. CASE SpeedReads \/ SpeedDrivesCH3 \/ SpeedDrivesCH2
    <3>1. /\ \E s, r : In(APP_SPEED_PRIO, s) /\ To(APP_SPEED_PRIO, r)
          /\ UNCHANGED <<kernelVars, pageVars, speedswitch>>
      BY <2>2 DEF SpeedReads, SpeedDrivesCH3, SpeedDrivesCH2, motorVars
    <3>2. KernelWaits
      BY <2>1, <3>1, CallsOfOthers
    <3> QED BY <2>1, <3>1, <3>2, TaskWaits
  <2> QED BY <1>4, <1>7, <2>1, <2>2 DEF SpeedStep
<1>8. CASE KeyStep
  <2>1. APP_KEY_PRIO \in AppPrio \ {APP_UI_PRIO} /\ APP_KEY_PRIO \in Prio \ {APP_UI_PRIO}
    BY AppFacts DEF AppPrio
  <2>2. ASSUME KeyCreatesMbox \/ \E k \in Pressed \cup {0} : ScanKey(k) PROVE UiWaits
    <3>1. /\ \E s, r : In(APP_KEY_PRIO, s) /\ To(APP_KEY_PRIO, r)
          /\ UNCHANGED <<pageVars, speedswitch>>
      BY <2>2 DEF KeyCreatesMbox, ScanKey, motorVars
    <3>2. KernelWaits
      BY <2>1, <2>2, CallsOfOthers DEF KeyCreatesMbox, ScanKey
    <3> QED BY <2>1, <3>1, <3>2, TaskWaits
  <2> QED BY <1>4, <1>8, <2>1, <2>2 DEF KeyStep
<1> QED BY <1>1, <1>2, <1>3, <1>5, <1>6, <1>7, <1>8 DEF Next, TaskStep

\* A step of the user interface: it ran, so it was not delayed, and where it goes.
LEMMA UiGoesOn ==
  ASSUME FirmwareInv, UiStep
  PROVE  /\ pc[APP_UI_PRIO] = "app" /\ OSTCBDly[APP_UI_PRIO] = 0
         /\ created /\ OSPrioCur = APP_UI_PRIO
         /\ step'[APP_UI_PRIO] # step[APP_UI_PRIO]
         /\ "SUSPEND" \notin OSTCBStat'[APP_UI_PRIO]
         /\ Inside(APP_UI_PRIO)' => step'[APP_UI_PRIO] = "key"
         /\ OSTCBDly'[APP_UI_PRIO] > 0 /\ ~ Inside(APP_UI_PRIO)' => step'[APP_UI_PRIO] = "page"
         /\ step'[APP_UI_PRIO] = "page" => OSTCBDly'[APP_UI_PRIO] = 1
<1>1. APP_UI_PRIO \in AppPrio
  BY DEF AppPrio
<1>2. PICK s, r : In(APP_UI_PRIO, s) /\ To(APP_UI_PRIO, r) /\ s # r
  BY DEF UiStep, EnterPage, MenuBrakesCH3, MenuBrakesCH2, WaitForKey, GetKey, MenuKey,
         RunKey, StateKey, StopCH3, StopCH2, ReadKey, SetKey, Leave, Stay, EndRound
<1>3. /\ OSPrioCur = APP_UI_PRIO /\ pc[APP_UI_PRIO] = "app" /\ step[APP_UI_PRIO] = s
      /\ OSTCBDly[APP_UI_PRIO] = 0 /\ OSTCBStat[APP_UI_PRIO] = {} /\ created
  BY <1>1, <1>2, RunsIn, RunningReady, UiRunsAlone DEF FirmwareInv
<1>4. step'[APP_UI_PRIO] = r
  BY <1>2, TableTypes DEF To
<1>5. CASE WaitForKey
  <2>1. OSMboxPend(APP_UI_PRIO, KeyTimeout[ID]) /\ step'[APP_UI_PRIO] = "key"
    BY <1>5, TableTypes DEF WaitForKey, To
  <2>2. OSTCBStat'[APP_UI_PRIO] \subseteq {"MBOX"}
    <3>1. CASE PendWait(APP_UI_PRIO, KeyTimeout[ID])
      BY <1>3, <3>1, TableTypes DEF PendWait
    <3>2. CASE TakeNow(APP_UI_PRIO)
      BY <1>3, <3>2 DEF TakeNow, tcbVars
    <3> QED BY <2>1, <3>1, <3>2 DEF OSMboxPend
  <2>3. ~ Inside(APP_UI_PRIO)' => OSTCBDly'[APP_UI_PRIO] = 0
    BY <1>3, <2>1, TableTypes DEF OSMboxPend, PendWait, TakeNow, tcbVars, Goto, Inside
  <2> QED BY <1>2, <1>3, <1>4, <2>1, <2>2, <2>3
<1>6. CASE EndRound(APP_UI_PRIO, "page")
  <2>1. OSTimeDly(APP_UI_PRIO, 1) /\ step'[APP_UI_PRIO] = "page"
    BY <1>6, TableTypes DEF EndRound, To
  <2>2. OSTCBDly'[APP_UI_PRIO] = 1 /\ ~ Inside(APP_UI_PRIO)'
    BY <2>1, TableTypes DEF OSTimeDly, Goto, Inside
  <2>3. OSTCBStat'[APP_UI_PRIO] = {}
    BY <1>3, <2>1 DEF OSTimeDly
  <2> QED BY <1>2, <1>3, <1>4, <2>1, <2>2, <2>3
<1>7. CASE ~ WaitForKey /\ ~ EndRound(APP_UI_PRIO, "page")
  <2>1. UNCHANGED kernelVars
    BY <1>7 DEF UiStep, EnterPage, MenuBrakesCH3, MenuBrakesCH2, GetKey, MenuKey,
           RunKey, StateKey, StopCH3, StopCH2, ReadKey, SetKey
  <2>2. step'[APP_UI_PRIO] # "page"
    BY <1>7, TableTypes DEF UiStep, EnterPage, MenuBrakesCH3, MenuBrakesCH2, GetKey, MenuKey,
           RunKey, StateKey, StopCH3, StopCH2, ReadKey, SetKey, Leave, Stay, To
  <2> QED BY <1>2, <1>3, <1>4, <2>1, <2>2 DEF kernelVars, tcbVars, Inside
<1> QED BY <1>5, <1>6, <1>7

LEMMA UiSleepInv == Spec => []UiSleep
<1>1. Init => UiSleep
  <2> SUFFICES ASSUME Init PROVE UiSleep
    OBVIOUS
  <2>1. FirmwareInv
    BY FirmwareInit
  <2>2. OSTCBStat[APP_UI_PRIO] = {} /\ OSTCBDly[APP_UI_PRIO] = 0 /\ pc[APP_UI_PRIO] = "app"
    BY AppFacts DEF Init, KernelInit
  <2> QED BY <2>2 DEF UiSleep, Inside
<1>2. FirmwareInv /\ UiSleep /\ [Next]_vars => UiSleep'
  <2> SUFFICES ASSUME FirmwareInv, UiSleep, [Next]_vars PROVE UiSleep'
    OBVIOUS
  <2>1. CASE UiStep
    BY <2>1, UiGoesOn DEF UiSleep, Inside
  <2>2. CASE ~ UiStep
    <3>1. UiWaits
      BY <2>2, OthersWork
    <3>2. OSTCBDly'[APP_UI_PRIO] \in Nat /\ OSTCBDly[APP_UI_PRIO] \in Nat
      BY FirmwareNextInv, AppFacts DEF FirmwareInv, KernelInv, KernelTypeOK
    <3>3. Inside(APP_UI_PRIO)' => Inside(APP_UI_PRIO)
      BY <3>1 DEF UiWaits
    <3>4. OSTCBDly'[APP_UI_PRIO] > 0 /\ ~ Inside(APP_UI_PRIO)' => ~ Inside(APP_UI_PRIO)
      BY <3>1, <3>2 DEF UiWaits
    <3>5. "SUSPEND" \notin OSTCBStat'[APP_UI_PRIO]
      BY <3>1 DEF UiWaits, UiSleep
    <3> HIDE DEF Inside
    <3> QED BY <3>1, <3>2, <3>3, <3>4, <3>5 DEF UiWaits, UiSleep
  <2> QED BY <2>1, <2>2
<1> QED BY <1>1, <1>2, FirmwareSafe, PTL DEF Spec

\* When the idle task runs, the user interface waits for the tick that ends its round, or
\* for a key, with none in the mailbox.
LEMMA UiAtIdle ==
  ASSUME FirmwareInv, UiSleep, OSPrioCur = IdlePrio
  PROVE  \/ step[APP_UI_PRIO] = "page" /\ OSTCBDly[APP_UI_PRIO] = 1
         \/ step[APP_UI_PRIO] = "key" /\ OSEventPtr = NoMsg
<1>1. \A p \in Prio : p \notin OSRdyTbl
  <2>1. \A q \in OSRdyTbl : IdlePrio <= q
    <3>1. IdlePrio = Highest(OSRdyTbl) /\ OSRdyTbl # {}
      BY DEF FirmwareInv, KernelInv, RunsHighest
    <3>2. OSRdyTbl \subseteq Nat
      BY PrioAssumption DEF FirmwareInv, KernelInv, KernelTypeOK
    <3> QED BY <3>1, <3>2, HighestMember
  <2> QED BY <2>1, PrioAssumption
<1>2. OSTCBPrioTbl = Prio
  BY <1>1, AppFacts, Places DEF FirmwareInv, RoundsRest, BootOrder
<1>3. APP_UI_PRIO \in OSTCBPrioTbl \ OSRdyTbl /\ step[APP_UI_PRIO] \in {"page", "key"}
  BY <1>1, <1>2, AppFacts, Places DEF FirmwareInv, RoundsRest
<1>4. OSTCBStat[APP_UI_PRIO] # {} \/ OSTCBDly[APP_UI_PRIO] # 0
  BY <1>3, AppFacts DEF FirmwareInv, KernelInv, ReadyIffUnblocked
<1>5. /\ OSTCBDly[APP_UI_PRIO] \in Nat /\ OSTCBStat[APP_UI_PRIO] \subseteq {"MBOX"}
      /\ PendStatus(APP_UI_PRIO)
  BY AppFacts DEF FirmwareInv, KernelInv, KernelTypeOK, UiSleep
<1>6. CASE Inside(APP_UI_PRIO)
  <2>1. "MBOX" \in OSTCBStat[APP_UI_PRIO]
    BY <1>4, <1>5, <1>6 DEF PendStatus
  <2>2. OSEventPtr = NoMsg
    BY <2>1, AppFacts DEF FirmwareInv, KernelInv, WaitListExact, MboxExclusive
  <2> QED BY <1>6, <2>2 DEF UiSleep
<1>7. CASE ~ Inside(APP_UI_PRIO)
  <2>1. OSTCBStat[APP_UI_PRIO] = {} /\ OSTCBDly[APP_UI_PRIO] > 0
    BY <1>4, <1>5, <1>7 DEF PendStatus
  <2> QED BY <1>5, <1>7, <2>1 DEF UiSleep
<1> QED BY <1>6, <1>7

\* Each place of the user interface but "handle" has one statement.
LEMMA UiStatements ==
  ASSUME UiStep
  PROVE  /\ step[APP_UI_PRIO] = "page"   => EnterPage
         /\ step[APP_UI_PRIO] = "brake3" => MenuBrakesCH3
         /\ step[APP_UI_PRIO] = "brake2" => MenuBrakesCH2
         /\ step[APP_UI_PRIO] = "pend"   => WaitForKey
         /\ step[APP_UI_PRIO] = "stop3"  => StopCH3
         /\ step[APP_UI_PRIO] = "stop2"  => StopCH2
         /\ step[APP_UI_PRIO] = "delay"  => EndRound(APP_UI_PRIO, "page")
         /\ step[APP_UI_PRIO] = "handle" /\ ID = "Run" => RunKey
BY DEF UiStep, EnterPage, MenuBrakesCH3, MenuBrakesCH2, WaitForKey, GetKey, MenuKey, RunKey, StateKey,
       StopCH3, StopCH2, ReadKey, SetKey, EndRound, In

\* The user interface sleeps at the end of a round; the next tick makes it ready.
RoundOver == step[APP_UI_PRIO] = "page" /\ OSTCBDly[APP_UI_PRIO] = 1
RoundBegins == step[APP_UI_PRIO] = "page" /\ OSTCBDly[APP_UI_PRIO] = 0

LEMMA RoundOverUntilTick ==
  ASSUME FirmwareInv, [Next]_vars, RoundOver
  PROVE  /\ RoundOver' \/ RoundBegins'
         /\ SysTick => RoundBegins'
         /\ UNCHANGED pageVars
<1>1. UiWaits
  BY UiGoesOn, OthersWork DEF RoundOver
<1>2. OSTCBDly'[APP_UI_PRIO] \in Nat
  BY FirmwareNextInv, AppFacts DEF FirmwareInv, KernelInv, KernelTypeOK
<1>3. SysTick => OSTCBDly'[APP_UI_PRIO] = 0
  BY AppFacts DEF SysTick, Tick, RoundOver
<1> QED BY <1>1, <1>2, <1>3 DEF RoundOver, RoundBegins, UiWaits

\* A step of anyone else leaves a round that begins where it is.
LEMMA RoundStarts ==
  ASSUME FirmwareInv, [Next]_vars, ~ UiStep
  PROVE  /\ RoundBegins => RoundBegins'
         /\ step'[APP_UI_PRIO] = step[APP_UI_PRIO] /\ UNCHANGED <<pageVars, speedswitch>>
<1>1. UiWaits
  BY OthersWork
<1>2. OSTCBDly'[APP_UI_PRIO] \in Nat
  BY FirmwareNextInv, AppFacts DEF FirmwareInv, KernelInv, KernelTypeOK
<1> QED BY <1>1, <1>2 DEF RoundBegins, UiWaits

\* The end of a round.
LEMMA RoundEnded ==
  ASSUME FirmwareInv, UiStep, step[APP_UI_PRIO] = "delay"
  PROVE  RoundOver' /\ UNCHANGED pageVars
<1>1. EndRound(APP_UI_PRIO, "page")
  BY UiStatements
<1>2. step'[APP_UI_PRIO] = "page" /\ UNCHANGED pageVars
  BY <1>1, TableTypes DEF EndRound, To
<1> QED BY <1>2, UiGoesOn DEF RoundOver

\* A key that lies in the mailbox is taken: when the idle task runs, the user interface is
\* not waiting for one, so it sleeps for a tick.  The round that begins then may be that
\* of Record, which asks for no key; the next one does, and it ends before the idle task
\* runs again.
THEOREM KeyReachesPage == FairSpec => KeyIsRead
<1> DEFINE Bad == OSEventPtr # NoMsg
           Idle == OSPrioCur = IdlePrio
           Good == OSEventPtr = NoMsg
           RecordOver == RoundOver /\ ID = "Record"
           RecordRuns == \/ RoundBegins /\ ID = "Record"
                         \/ step[APP_UI_PRIO] = "delay" /\ ID # "Record"
           PageOver == RoundOver /\ ID # "Record"
           PageRuns == /\ RoundBegins \/ step[APP_UI_PRIO] \in {"brake3", "brake2", "pend"}
                       /\ ID # "Record"
<1>1. FirmwareInv /\ UiSleep /\ Idle /\ Bad => RecordOver \/ PageOver
  BY UiAtIdle DEF RoundOver
<1>2. FirmwareInv /\ UiSleep /\ Idle /\ Bad => ~ RecordRuns /\ ~ PageRuns
  BY UiAtIdle DEF RoundBegins
<1>3. FirmwareInv /\ [Next]_vars /\ RecordOver => RecordOver' \/ RecordRuns'
  BY RoundOverUntilTick DEF pageVars
<1>4. FirmwareInv /\ <<SysTick>>_vars /\ RecordOver => RecordRuns'
  BY RoundOverUntilTick DEF pageVars, Next
<1>5. FirmwareInv /\ [Next]_vars /\ RecordRuns => RecordRuns' \/ PageOver'
  <2> SUFFICES ASSUME FirmwareInv, [Next]_vars, RecordRuns PROVE RecordRuns' \/ PageOver'
    OBVIOUS
  <2>1. CASE ~ UiStep
    BY <2>1, RoundStarts DEF pageVars
  <2>2. CASE UiStep /\ step[APP_UI_PRIO] = "page"
    <3>1. EnterPage /\ ID = "Record"
      BY <2>2, UiStatements
    <3>2. step'[APP_UI_PRIO] = "delay" /\ ID' = "Menu"
      BY <3>1, TableTypes DEF EnterPage, To
    <3> QED BY <3>2
  <2>3. CASE UiStep /\ step[APP_UI_PRIO] = "delay"
    BY <2>3, RoundEnded DEF pageVars, RoundBegins
  <2> QED BY <2>1, <2>2, <2>3 DEF RoundBegins
<1>6. FirmwareInv /\ [Next]_vars /\ PageOver => PageOver' \/ PageRuns'
  BY RoundOverUntilTick DEF pageVars
<1>7. FirmwareInv /\ <<SysTick>>_vars /\ PageOver => PageRuns'
  BY RoundOverUntilTick DEF pageVars, Next
<1>8. FirmwareInv /\ [Next]_vars /\ PageRuns /\ Bad => PageRuns' \/ ~ Bad'
  <2> SUFFICES ASSUME FirmwareInv, [Next]_vars, PageRuns, Bad PROVE PageRuns' \/ ~ Bad'
    OBVIOUS
  <2>1. CASE ~ UiStep
    BY <2>1, RoundStarts DEF pageVars
  <2>2. CASE EnterPage
    <3>1. step'[APP_UI_PRIO] \in {"brake3", "pend"} /\ ID' = ID
      BY <2>2, TableTypes DEF EnterPage, To
    <3> QED BY <3>1
  <2>3. CASE MenuBrakesCH3 \/ MenuBrakesCH2
    <3>1. step'[APP_UI_PRIO] \in {"brake2", "pend"} /\ ID' = ID
      BY <2>3, TableTypes DEF MenuBrakesCH3, MenuBrakesCH2, pageVars, To
    <3> QED BY <3>1
  <2>4. CASE UiStep /\ WaitForKey
    <3>1. created
      BY <2>4, UiGoesOn
    <3>2. OSEventPtr' = NoMsg
      BY <2>4, <3>1 DEF WaitForKey, OSMboxPend, TakeNow
    <3> QED BY <3>2
  <2> QED BY <2>1, <2>2, <2>3, <2>4, UiStatements DEF RoundBegins
<1>9. ~ Bad => Good
  OBVIOUS
<1>10. FairSpec => (Bad ~> Good)
  <2> HIDE DEF Bad, Idle, Good, RecordOver, RecordRuns, PageOver, PageRuns
  <2>1. FairSpec => []<>Idle
    BY PTL DEF FairSpec, Fairness, Idle
  <2> QED BY <1>1, <1>2, <1>3, <1>4, <1>5, <1>6, <1>7, <1>8, <1>9, <2>1, FirmwareSafe, UiSleepInv, PTL
          DEF FairSpec, Spec, Fairness
<1> QED BY <1>10 DEF KeyIsRead

\* The stop key takes effect whatever the speed task was doing: the round of the Run page
\* ends before the idle task runs, and so does the round of the menu, which brakes.
THEOREM StopIsEffective == FairSpec => StopTakesEffect
<1> DEFINE Stop == step[APP_UI_PRIO] = "handle" /\ ID = "Run" /\ key = 4
           Idle == OSPrioCur = IdlePrio
           Good == speedswitch = 0 /\ CH3 = "brake" /\ CH2 = "brake"
           Stopping == \/ Stop
                       \/ step[APP_UI_PRIO] \in {"stop3", "stop2"}
                       \/ step[APP_UI_PRIO] = "delay" /\ ID = "Menu"
           MenuNext == RoundOver /\ ID = "Menu"
           MenuRuns == /\ RoundBegins \/ step[APP_UI_PRIO] \in {"brake3", "brake2"}
                       /\ ID = "Menu"
<1>1. FirmwareInv /\ UiSleep /\ Idle => ~ Stopping /\ ~ MenuRuns
  BY UiAtIdle DEF RoundBegins
<1>2. FirmwareInv /\ [Next]_vars /\ Stopping => Stopping' \/ MenuNext'
  <2> SUFFICES ASSUME FirmwareInv, [Next]_vars, Stopping PROVE Stopping' \/ MenuNext'
    OBVIOUS
  <2>1. CASE ~ UiStep
    BY <2>1, RoundStarts DEF pageVars
  <2>2. CASE UiStep /\ Stop
    <3>1. step'[APP_UI_PRIO] = "stop3"
      BY <2>2, UiStatements, TableTypes DEF RunKey, To
    <3> QED BY <3>1
  <2>3. CASE UiStep /\ step[APP_UI_PRIO] = "stop3"
    <3>1. step'[APP_UI_PRIO] = "stop2"
      BY <2>3, UiStatements, TableTypes DEF StopCH3, To
    <3> QED BY <3>1
  <2>4. CASE UiStep /\ step[APP_UI_PRIO] = "stop2"
    <3>1. step'[APP_UI_PRIO] = "delay" /\ ID' = "Menu"
      BY <2>4, UiStatements, TableTypes DEF StopCH2, Leave, To
    <3> QED BY <3>1
  <2>5. CASE UiStep /\ step[APP_UI_PRIO] = "delay" /\ ID = "Menu"
    BY <2>5, RoundEnded DEF pageVars
  <2> QED BY <2>1, <2>2, <2>3, <2>4, <2>5
<1>3. FirmwareInv /\ [Next]_vars /\ MenuNext => MenuNext' \/ MenuRuns'
  BY RoundOverUntilTick DEF pageVars
<1>4. FirmwareInv /\ <<SysTick>>_vars /\ MenuNext => MenuRuns'
  BY RoundOverUntilTick DEF pageVars, Next
<1>5. FirmwareInv /\ [Next]_vars /\ MenuRuns => MenuRuns' \/ Good'
  <2> SUFFICES ASSUME FirmwareInv, [Next]_vars, MenuRuns PROVE MenuRuns' \/ Good'
    OBVIOUS
  <2>1. CASE ~ UiStep
    BY <2>1, RoundStarts DEF pageVars
  <2>2. CASE EnterPage
    <3>1. step'[APP_UI_PRIO] = "brake3" /\ ID' = "Menu"
      BY <2>2, TableTypes DEF EnterPage, To
    <3> QED BY <3>1
  <2>3. CASE MenuBrakesCH3
    <3>1. step'[APP_UI_PRIO] = "brake2" /\ ID' = "Menu"
      BY <2>3, TableTypes DEF MenuBrakesCH3, pageVars, To
    <3> QED BY <3>1
  <2>4. CASE MenuBrakesCH2
    <3>1. step[APP_UI_PRIO] = "brake2"
      BY <2>4 DEF MenuBrakesCH2, In
    <3>2. speedswitch = 0 /\ CH3 = "brake"
      BY <3>1 DEF FirmwareInv, MotorOwner, MotorOnlyOnRun
    <3> QED BY <2>4, <3>2 DEF MenuBrakesCH2
  <2> QED BY <2>1, <2>2, <2>3, <2>4, UiStatements DEF RoundBegins
<1>6. Stop => Stopping
  OBVIOUS
<1>7. FairSpec => (Stop ~> Good)
  <2> HIDE DEF Stop, Idle, Good, Stopping, MenuNext, MenuRuns
  <2>1. FairSpec => []<>Idle
    BY PTL DEF FairSpec, Fairness, Idle
  <2> QED BY <1>1, <1>2, <1>3, <1>4, <1>5, <1>6, <2>1, FirmwareSafe, UiSleepInv, PTL
          DEF FairSpec, Spec, Fairness
<1> QED BY <1>7 DEF StopTakesEffect
=============================================================================
