------------------------------ MODULE Firmware ------------------------------
(***************************************************************************)
(* The six tasks of app.c on the kernel: boot, the key scanner, the key    *)
(* mailbox, the pages of the user interface and the drive motor they       *)
(* start and stop.  What a task does between two accesses to shared state  *)
(* is one action; the tick and a more urgent task may come in between.     *)
(*                                                                         *)
(* A duty of the motor bridge is off (0), brake (500) or pid (what         *)
(* speedPID() computed).  AD and TURN, whose data is that of Steering.tla, *)
(* take processor time here and touch nothing of this module; an instance  *)
(* may leave them out by leaving their priorities out of Prio.             *)
(***************************************************************************)
EXTENDS Kernel, Sequences

CONSTANTS Pressed,         \* the keys that are pressed, of 1 up, 2 down, 3, 4, 5
          LongPressTime,   \* scans before a held key repeats
          LongPressSpeed,  \* scans between two repeats
          KeyTimeout       \* KeyTimeout[page]: the timeout of its OSMboxPend()

\* The priorities of app.h.  Mutants: the user interface is more urgent than the key
\* task that creates its mailbox; the speed task is the least urgent one.
UiBeforeKey == [start |-> 4, ad |-> 5, speed |-> 6, turn |-> 7, key |-> 9, ui |-> 8]
SpeedLast   == [start |-> 4, ad |-> 5, speed |-> 9, turn |-> 7, key |-> 6, ui |-> 8]
Priorities  == [start |-> 4, ad |-> 5, speed |-> 6, turn |-> 7, key |-> 8, ui |-> 9]

APP_START_TASK_PRIO == Priorities.start
APP_AD_PRIO    == Priorities.ad
APP_SPEED_PRIO == Priorities.speed
APP_TURN_PRIO  == Priorities.turn
APP_KEY_PRIO   == Priorities.key
APP_UI_PRIO    == Priorities.ui

AppPrio == {APP_START_TASK_PRIO, APP_AD_PRIO, APP_SPEED_PRIO, APP_TURN_PRIO, APP_KEY_PRIO, APP_UI_PRIO}

\* All tasks of app.h, or all that share state here; the keys are the messages.
ASSUME AppAssumption ==
  /\ Prio \subseteq AppPrio /\ AppPrio \ {APP_AD_PRIO, APP_TURN_PRIO} \subseteq Prio
  /\ StartPrio = APP_START_TASK_PRIO
  /\ Msg = 1..5 /\ NoMsg = 0 /\ Pressed \subseteq Msg
ASSUME TimeAssumption ==
  /\ LongPressTime \in Nat /\ LongPressSpeed \in Nat
  /\ KeyTimeout \in [{"Menu", "Run", "State", "Set", "Read"} -> 0..MaxTimeout] /\ MaxTimeout >= 1

VARIABLES step,        \* step[p]: where task p stands in its own code
          systick,     \* the tick interrupt is on
          keysave, T, Ti,   \* key task: key of the last scan, its age, the repeat count
          ID,          \* the page whose function the user interface runs
          key,         \* the local of that function: the key it handles, 0 for none
          Arrow,       \* the line of the menu the arrow is on
          speedswitch, \* the speed task drives the motor
          CH3, CH2     \* duties of the two half-bridges

keyVars   == <<keysave, T, Ti>>
pageVars  == <<ID, key, Arrow>>
motorVars == <<speedswitch, CH3, CH2>>
vars == <<kernelVars, step, systick, keyVars, pageVars, motorVars>>

MenuItem == [a \in 3..7 |->
  CASE a = 3 -> "Run" [] a = 4 -> "State" [] a = 5 -> "Set" [] a = 6 -> "Record" [] a = 7 -> "Read"]

\* The task runs its own code at s, respectively moves on to s.
In(t, s) == At(t, "app") /\ step[t] = s
To(t, s) == step' = [step EXCEPT ![t] = s]

(***************************************************************************)
(* allInit() has set the duties to 0; static storage is 0; the key task's  *)
(* keysave is an uninitialised local: any value, those that are no key are *)
(* represented by 0.                                                       *)
(***************************************************************************)
Init ==
  /\ KernelInit
  /\ step = [p \in Prio |->
       CASE p = APP_START_TASK_PRIO -> "boot" [] p = APP_KEY_PRIO -> "create"
         [] p = APP_UI_PRIO -> "page" [] OTHER -> "body"]
  /\ systick = FALSE
  /\ keysave \in Pressed \cup {0} /\ T = 0 /\ Ti = 0
  /\ ID = "Menu" /\ key = 0 /\ Arrow = 3
  /\ speedswitch = 0 /\ CH3 = "off" /\ CH2 = "off"

(***************************************************************************)
(* AppStartTast(): create the tasks, start the tick, suspend itself.       *)
(***************************************************************************)
CreateOrder == <<APP_UI_PRIO, APP_KEY_PRIO, APP_AD_PRIO, APP_SPEED_PRIO, APP_TURN_PRIO>>

ToCreate == {i \in DOMAIN CreateOrder : CreateOrder[i] \in Prio \ OSTCBPrioTbl}

CreateNext ==
  /\ In(APP_START_TASK_PRIO, "boot") /\ ToCreate # {}
  /\ OSTaskCreate(APP_START_TASK_PRIO, CreateOrder[Highest(ToCreate)])
  /\ UNCHANGED <<step, systick, keyVars, pageVars, motorVars>>

StartTick ==
  /\ In(APP_START_TASK_PRIO, "boot") /\ ToCreate = {}
  /\ systick' = TRUE
  /\ To(APP_START_TASK_PRIO, "suspend")
  /\ UNCHANGED <<kernelVars, keyVars, pageVars, motorVars>>

StartSuspends ==
  /\ In(APP_START_TASK_PRIO, "suspend")
  /\ OSTaskSuspend(APP_START_TASK_PRIO, APP_START_TASK_PRIO)
  /\ UNCHANGED <<step, systick, keyVars, pageVars, motorVars>>

(***************************************************************************)
(* A task ends its round with a delay of one tick: OSTimeDlyHMSM() rounds  *)
(* 5 ms and 10 ms to one tick of 10 ms.                                    *)
(***************************************************************************)
EndRound(t, s) ==
  /\ In(t, "delay")
  /\ OSTimeDly(t, 1)
  /\ To(t, s)
  /\ UNCHANGED <<systick, keyVars, pageVars, motorVars>>

\* AdStartTask() and TurnStartTask(): see Steering.tla.
SteeringWork(t) ==
  /\ t \in {APP_AD_PRIO, APP_TURN_PRIO} /\ In(t, "body")
  /\ To(t, "delay")
  /\ UNCHANGED <<kernelVars, systick, keyVars, pageVars, motorVars>>

(***************************************************************************)
(* KeyStartTask().                                                         *)
(***************************************************************************)
KeyCreatesMbox ==
  /\ In(APP_KEY_PRIO, "create")
  /\ OSMboxCreate(APP_KEY_PRIO)
  /\ To(APP_KEY_PRIO, "body")
  /\ UNCHANGED <<systick, keyVars, pageVars, motorVars>>

\* The scan sees k; the key of the last scan decides.  A release posts it, and so
\* does every repeat while it is held; a full mailbox drops the post.
Released(k) == keysave # 0 /\ k # keysave
Held(k)     == keysave # 0 /\ k = keysave
Repeats(k)  == Held(k) /\ T > LongPressTime /\ Ti > LongPressSpeed

\* Mutant: the repeat count survives the release.
CountSurvives(k) == IF Repeats(k) THEN 1 ELSE IF Held(k) /\ T > LongPressTime THEN Ti + 1 ELSE Ti

Age(k) ==
  IF Released(k) THEN 0
  ELSE IF Held(k) THEN IF T > LongPressTime THEN LongPressTime + 1 ELSE T + 1
  ELSE T

RepeatCount(k) ==
  IF Released(k) THEN 0
  ELSE IF Repeats(k) THEN 1
  ELSE IF Held(k) /\ T > LongPressTime THEN Ti + 1 ELSE Ti

ScanKey(k) ==
  /\ In(APP_KEY_PRIO, "body")
  /\ IF Released(k) \/ Repeats(k) THEN OSMboxPost(APP_KEY_PRIO, keysave)
     ELSE UNCHANGED kernelVars
  /\ T' = Age(k) /\ Ti' = RepeatCount(k)
  /\ keysave' = k
  /\ To(APP_KEY_PRIO, "delay")
  /\ UNCHANGED <<systick, pageVars, motorVars>>

(***************************************************************************)
(* speedStartTask(): read the encoder, drive the motor if it is on, reset  *)
(* the counter.  speedPID() is a value, the two duties are two writes.     *)
(***************************************************************************)
SpeedReads ==
  /\ In(APP_SPEED_PRIO, "body")
  /\ To(APP_SPEED_PRIO, IF speedswitch = 1 THEN "ch3" ELSE "delay")
  /\ UNCHANGED <<kernelVars, systick, keyVars, pageVars, motorVars>>

SpeedDrivesCH3 ==
  /\ In(APP_SPEED_PRIO, "ch3")
  /\ CH3' = "pid"
  /\ To(APP_SPEED_PRIO, "ch2")
  /\ UNCHANGED <<kernelVars, systick, keyVars, pageVars, speedswitch, CH2>>

SpeedDrivesCH2 ==
  /\ In(APP_SPEED_PRIO, "ch2")
  /\ CH2' = "off"
  /\ To(APP_SPEED_PRIO, "delay")
  /\ UNCHANGED <<kernelVars, systick, keyVars, pageVars, speedswitch, CH3>>

(***************************************************************************)
(* UiStartTask(): call the page, delay, call the page it returned.         *)
(***************************************************************************)
\* The page's function starts: Record returns at once, Menu sets the duties
\* first, the others wait for a key.
EnterPage ==
  /\ In(APP_UI_PRIO, "page")
  /\ key' = 0
  /\ IF ID = "Record" THEN ID' = "Menu" /\ To(APP_UI_PRIO, "delay")
     ELSE UNCHANGED ID /\ To(APP_UI_PRIO, IF ID = "Menu" THEN "brake3" ELSE "pend")
  /\ UNCHANGED <<kernelVars, systick, keyVars, Arrow, motorVars>>

\* Mutant: only one half-bridge is braked.
MenuBrakesOne ==
  /\ In(APP_UI_PRIO, "brake3")
  /\ CH3' = "brake"
  /\ To(APP_UI_PRIO, "pend")
  /\ UNCHANGED <<kernelVars, systick, keyVars, pageVars, speedswitch, CH2>>

MenuBrakesCH3 ==
  /\ In(APP_UI_PRIO, "brake3")
  /\ CH3' = "brake"
  /\ To(APP_UI_PRIO, "brake2")
  /\ UNCHANGED <<kernelVars, systick, keyVars, pageVars, speedswitch, CH2>>

MenuBrakesCH2 ==
  /\ In(APP_UI_PRIO, "brake2")
  /\ CH2' = "brake"
  /\ To(APP_UI_PRIO, "pend")
  /\ UNCHANGED <<kernelVars, systick, keyVars, pageVars, speedswitch, CH3>>

WaitForKey ==
  /\ In(APP_UI_PRIO, "pend")
  /\ OSMboxPend(APP_UI_PRIO, KeyTimeout[ID])
  /\ To(APP_UI_PRIO, "key")
  /\ UNCHANGED <<systick, keyVars, pageVars, motorVars>>

\* OSMboxPend() has returned: the key, or 0 after a timeout.
GetKey ==
  /\ In(APP_UI_PRIO, "key")
  /\ key' = got[APP_UI_PRIO]
  /\ To(APP_UI_PRIO, "handle")
  /\ UNCHANGED <<kernelVars, systick, keyVars, ID, Arrow, motorVars>>

\* A page returns the next one, or goes round its loop.
Leave(next) == ID' = next /\ To(APP_UI_PRIO, "delay")
Stay == UNCHANGED ID /\ To(APP_UI_PRIO, IF ID = "Menu" THEN "brake3" ELSE "pend")

MenuKey ==
  /\ In(APP_UI_PRIO, "handle") /\ ID = "Menu"
  /\ Arrow' = CASE key = 1 -> IF Arrow = 3 THEN 7 ELSE Arrow - 1
                [] key = 2 -> IF Arrow = 7 THEN 3 ELSE Arrow + 1
                [] OTHER   -> Arrow
  /\ CASE key = 3 -> Leave(MenuItem[Arrow])
       [] key = 4 -> Leave("Menu")
       [] OTHER   -> Stay
  /\ UNCHANGED <<kernelVars, systick, keyVars, key, motorVars>>

\* Mutant: the duties are cleared, speedswitch is not.
RunKeyClearsDuties ==
  /\ In(APP_UI_PRIO, "handle") /\ ID = "Run"
  /\ speedswitch' = IF key = 3 THEN 1 ELSE speedswitch
  /\ To(APP_UI_PRIO, IF key = 4 THEN "stop3" ELSE "pend")
  /\ UNCHANGED <<kernelVars, systick, keyVars, pageVars, CH3, CH2>>

\* Key 3 starts the motor, key 4 stops it before it writes the duties.
RunKey ==
  /\ In(APP_UI_PRIO, "handle") /\ ID = "Run"
  /\ speedswitch' = CASE key = 3 -> 1 [] key = 4 -> 0 [] OTHER -> speedswitch
  /\ To(APP_UI_PRIO, IF key = 4 THEN "stop3" ELSE "pend")
  /\ UNCHANGED <<kernelVars, systick, keyVars, pageVars, CH3, CH2>>

\* Run and State clear the duties, CH3 first, and return to the menu.
StateKey ==
  /\ In(APP_UI_PRIO, "handle") /\ ID = "State"
  /\ To(APP_UI_PRIO, IF key = 4 THEN "stop3" ELSE "pend")
  /\ UNCHANGED <<kernelVars, systick, keyVars, pageVars, motorVars>>

StopCH3 ==
  /\ In(APP_UI_PRIO, "stop3")
  /\ CH3' = "off"
  /\ To(APP_UI_PRIO, "stop2")
  /\ UNCHANGED <<kernelVars, systick, keyVars, pageVars, speedswitch, CH2>>

StopCH2 ==
  /\ In(APP_UI_PRIO, "stop2")
  /\ CH2' = "off"
  /\ Leave("Menu")
  /\ UNCHANGED <<kernelVars, systick, keyVars, key, Arrow, speedswitch, CH3>>

ReadKey ==
  /\ In(APP_UI_PRIO, "handle") /\ ID = "Read"
  /\ IF key = 4 THEN Leave("Menu") ELSE Stay
  /\ UNCHANGED <<kernelVars, systick, keyVars, key, Arrow, motorVars>>

\* Key 4 ends an edit or leaves the page: SetPage.tla says which.
SetKey ==
  /\ In(APP_UI_PRIO, "handle") /\ ID = "Set"
  /\ (key = 4 /\ Leave("Menu")) \/ Stay
  /\ UNCHANGED <<kernelVars, systick, keyVars, key, Arrow, motorVars>>

(***************************************************************************)
(* The kernel's own steps: the tick, the scheduler, the end of a pend.     *)
(***************************************************************************)
SysTick ==
  /\ systick /\ Tick
  /\ UNCHANGED <<step, systick, keyVars, pageVars, motorVars>>

ServiceStep ==
  /\ \E t \in OSTCBPrioTbl : OS_Sched(t) \/ PendReturn(t)
  /\ UNCHANGED <<step, systick, keyVars, pageVars, motorVars>>

UiStep ==
  \/ EnterPage \/ MenuBrakesCH3 \/ MenuBrakesCH2 \/ WaitForKey \/ GetKey
  \/ MenuKey \/ RunKey \/ StateKey \/ StopCH3 \/ StopCH2 \/ ReadKey \/ SetKey
  \/ EndRound(APP_UI_PRIO, "page")

KeyStep == KeyCreatesMbox \/ (\E k \in Pressed \cup {0} : ScanKey(k)) \/ EndRound(APP_KEY_PRIO, "body")

SpeedStep ==
  \/ SpeedReads \/ SpeedDrivesCH3 \/ SpeedDrivesCH2
  \/ EndRound(APP_SPEED_PRIO, "body")

SteeringStep ==
  \E t \in {APP_AD_PRIO, APP_TURN_PRIO} : SteeringWork(t) \/ EndRound(t, "body")

StartStep == CreateNext \/ StartTick \/ StartSuspends

TaskStep == StartStep \/ SteeringStep \/ SpeedStep \/ KeyStep \/ UiStep

Next == SysTick \/ ServiceStep \/ TaskStep

Spec == Init /\ [][Next]_vars

\* The timer does not stop, and the rounds of the tasks fit between its ticks: the
\* idle task, which runs when every other one is blocked, runs again and again.  (A
\* delay is running whenever it does, so the first is weak fairness of SysTick.)
Fairness == []<><<SysTick>>_vars /\ []<>(OSPrioCur = IdlePrio)

FairSpec == Spec /\ Fairness

(***************************************************************************)
(* Properties.                                                             *)
(***************************************************************************)
\* The shape of the application's own state.
TypeOK ==
  /\ step \in [Prio -> {"boot", "suspend", "create", "body", "delay", "ch3", "ch2", "page",
                        "brake3", "brake2", "pend", "key", "handle", "stop3", "stop2"}]
  /\ systick \in BOOLEAN
  /\ keysave \in 0..5 /\ T \in 0..(LongPressTime + 1) /\ Ti \in 0..(LongPressSpeed + 1)
  /\ ID \in {"Menu", "Run", "State", "Set", "Record", "Read"}
  /\ key \in 0..5 /\ Arrow \in 3..7
  /\ speedswitch \in 0..1
  /\ CH3 \in {"off", "brake", "pid"} /\ CH2 \in {"off", "brake"}

\* The user interface never asks for a key before the key task has created the
\* mailbox: msg_key would be a null pointer and the page would spin (ui.c:85).
MailboxBeforeUse == In(APP_UI_PRIO, "pend") => created

\* On no page but Run is the motor under power, whatever the speed task was doing
\* when the stop key came: it is the more urgent one and writes the same duties.
MotorOnlyOnRun == ID # "Run" => speedswitch = 0 /\ CH3 # "pid"

\* While a page other than Run waits for a key, the two half-bridges have the same
\* duty, so that no voltage is across the motor.
NoDriveWhileWaiting ==
  step[APP_UI_PRIO] = "key" /\ ID # "Run" => CH3 = CH2

\* The age and repeat counts belong to one press: a new key starts at 0, so that
\* it does not repeat because of the key before it.
PressStartsFresh == keysave = 0 => T = 0 /\ Ti = 0

\* Where each task may stand, and where it stands when it is not ready: it sleeps at the
\* end of its round only, or in its call of OSMboxPend().
Place(p) ==
  CASE p = APP_START_TASK_PRIO -> {"boot", "suspend"}
    [] p = APP_SPEED_PRIO -> {"body", "ch3", "ch2", "delay"}
    [] p = APP_KEY_PRIO   -> {"create", "body", "delay"}
    [] p = APP_UI_PRIO    -> {"page", "brake3", "brake2", "pend", "key", "handle", "stop3", "stop2", "delay"}
    [] OTHER              -> {"body", "delay"}

Resting(p) ==
  CASE p = APP_START_TASK_PRIO -> {"suspend"}
    [] p = APP_UI_PRIO         -> {"page", "key"}
    [] OTHER                   -> {"body"}

RoundsRest ==
  \A p \in Prio :
    step[p] \in Place(p) /\ (p \in OSTCBPrioTbl \ OSRdyTbl => step[p] \in Resting(p))

\* A task takes a step of its own code only while every more urgent one rests at the end
\* of its round: to a task, whole rounds of the more urgent ones come between two of its
\* statements, as Steering and Drive have it, and it never sees one of theirs
\* half done.
Urgency == <<APP_START_TASK_PRIO, APP_AD_PRIO, APP_SPEED_PRIO, APP_TURN_PRIO, APP_KEY_PRIO, APP_UI_PRIO>>
RoundsNest ==
  [][\A j \in DOMAIN Urgency : \A i \in 1..(j - 1) :
       /\ Urgency[i] \in Prio /\ Urgency[j] \in Prio
       /\ step'[Urgency[j]] # step[Urgency[j]]
       => step[Urgency[i]] \in Resting(Urgency[i])]_vars

\* What boot has done by the time the start task suspends itself.
BootOrder ==
  /\ StartPrio \in OSTCBPrioTbl
  /\ step[APP_START_TASK_PRIO] = "suspend" => OSTCBPrioTbl = Prio
  /\ step[APP_KEY_PRIO] # "create" => created

\* Who has the motor: the speed task has read speedswitch = 1 and not been overtaken by
\* the stop key, or the page is in the middle of its two writes.
MotorOwner ==
  LET ui == step[APP_UI_PRIO] IN
  /\ speedswitch = 1 => ID = "Run" /\ ui \notin {"stop3", "stop2"}
  /\ step[APP_SPEED_PRIO] \in {"ch3", "ch2"} => speedswitch = 1
  /\ ui \in {"brake3", "brake2"} => ID = "Menu"
  /\ ID = "Record" => ui \in {"page", "delay"}
  /\ ui = "brake2" => CH3 = "brake"
  /\ ui = "stop2" => CH3 = "off"
  /\ ID # "Run" /\ ui \notin {"brake2", "stop2"} => CH3 = CH2

\* The inductive invariant of the firmware.
FirmwareInv ==
  KernelInv /\ TypeOK /\ RoundsRest /\ BootOrder /\ MotorOwner /\ MotorOnlyOnRun /\ PressStartsFresh

\* A key that reached the mailbox reaches a page, however often the timeouts of the
\* pages expire meanwhile.
KeyIsRead == OSEventPtr # NoMsg ~> OSEventPtr = NoMsg

\* A stop key handled on the Run page ends with the motor stopped.
StopTakesEffect ==
  (step[APP_UI_PRIO] = "handle" /\ ID = "Run" /\ key = 4)
    ~> (speedswitch = 0 /\ CH3 = "brake" /\ CH2 = "brake")
=============================================================================
