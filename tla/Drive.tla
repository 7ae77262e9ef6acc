------------------------------- MODULE Drive --------------------------------
(***************************************************************************)
(* The drive motor: speedPID() of ctrl.c keeps its history in statics and  *)
(* is called by the speed task every round (speedCtrl()) and by the user   *)
(* interface when the motor is started and stopped (Run_UI() of ui.c).     *)
(* The speed task preempts the user interface.                             *)
(*                                                                         *)
(* One action is one statement.  The project is built without              *)
(* optimisation: a statement loads the statics it names from memory.       *)
(***************************************************************************)
EXTENDS SpeedPid

CONSTANTS MaxDrift,  \* bound: calls of the user interface between two rounds of SPEED
          MaxGap     \* bound: see gap

ASSUME DriveAssumption == MaxDrift \in Nat /\ MaxGap \in Nat

Tasks == {"SPEED", "UI"}

\* Mutant: the speed task is the less urgent one.
SpeedLast == 10

APP_SPEED_PRIO == 6
APP_UI_PRIO == 9

VARIABLES at,       \* where each task stands
          loc,      \* the locals of speedPID() in each of its callers
          ENCODE,   \* the count of the last round
          LastSpeedCut0, LastSpeedCut1, LastSpeedCut2,  \* statics: counts of the last calls
          SpeedLastPWMK,  \* static: the duty of the last call
          result,   \* the same for the caller
          speedswitch, key,
          repeats,  \* 1 if key 3 may reach the Run page while the motor runs
          CH3, CH2, \* the duties of the bridge
          driven,   \* auxiliary: the duty SPEED wrote last
          drift,    \* auxiliary: steps that SpeedLastPWMK may be away from driven
          gap       \* auxiliary: the same for what the user interface is about to store

statics == <<LastSpeedCut0, LastSpeedCut1, LastSpeedCut2>>
duties  == <<CH3, CH2>>
aux     == <<driven, drift, gap>>
vars == <<at, loc, ENCODE, statics, SpeedLastPWMK, result, speedswitch, key, repeats, duties, aux>>

NoLocals == [now |-> 0, p |-> 0, i |-> 0, d |-> 0, out |-> 0]

Init ==
  /\ at = [t \in Tasks |-> IF t = "SPEED" THEN "read" ELSE "brakeCH3"]
  /\ loc = [t \in Tasks |-> NoLocals]
  /\ ENCODE = 0 /\ LastSpeedCut0 = 0 /\ LastSpeedCut1 = 0 /\ LastSpeedCut2 = 0
  /\ SpeedLastPWMK = 0 /\ result = 0 /\ speedswitch = 0 /\ key = 0
  /\ repeats \in {0, 1}
  /\ CH3 = 0 /\ CH2 = 0
  /\ driven = 0 /\ drift = 0 /\ gap = 0

(***************************************************************************)
(* The scheduler: a task runs while no more urgent one is ready.           *)
(***************************************************************************)
Prio(t)  == IF t = "SPEED" THEN APP_SPEED_PRIO ELSE APP_UI_PRIO
Ready(t) == at[t] \notin {"delay", "menuPend", "runPend"}
Runs(t)  == Ready(t) /\ \A u \in Tasks \ {t} : Ready(u) => Prio(t) < Prio(u)

Step(t, from, to) ==
  Runs(t) /\ at[t] = from /\ at' = [at EXCEPT ![t] = to] /\ repeats' = repeats
Set(t, field, value) == loc' = [loc EXCEPT ![t][field] = value]

\* The delay of 5 ms is one tick.  The bound: so many rounds come between two
\* statements of the user interface.
Tick ==
  /\ at["SPEED"] = "delay" /\ gap < MaxGap
  /\ at' = [at EXCEPT !["SPEED"] = "read"]
  /\ UNCHANGED <<repeats, loc, ENCODE, statics, SpeedLastPWMK, result, speedswitch, key, duties, aux>>

(***************************************************************************)
(* speedPID(), in either task.                                             *)
(***************************************************************************)
PidStep(t, from, to) ==
  /\ Step(t, from, to)
  /\ UNCHANGED <<ENCODE, speedswitch, key, duties, driven>>

\* The argument is read.
Call(t) ==
  /\ PidStep(t, "call", "cut0")
  /\ Set(t, "now", ENCODE)
  /\ UNCHANGED <<statics, SpeedLastPWMK, result, drift, gap>>

Cut0(t) ==
  /\ PidStep(t, "cut0", "difference")
  /\ LastSpeedCut0' = Int16(loc[t].now)
  /\ UNCHANGED <<loc, LastSpeedCut1, LastSpeedCut2, SpeedLastPWMK, result, drift, gap>>

\* A difference and the term it gives are locals: they are one here.
Difference(t) ==
  /\ PidStep(t, "difference", "deare1")
  /\ Set(t, "p", TermP(LastSpeedCut0))
  /\ UNCHANGED <<statics, SpeedLastPWMK, result, drift, gap>>

Deare1(t) ==
  /\ PidStep(t, "deare1", "deare2")
  /\ Set(t, "i", TermI(LastSpeedCut0, LastSpeedCut1))
  /\ UNCHANGED <<statics, SpeedLastPWMK, result, drift, gap>>

Deare2(t) ==
  /\ PidStep(t, "deare2", "shift2")
  /\ Set(t, "d", TermD(LastSpeedCut0, LastSpeedCut1, LastSpeedCut2))
  /\ UNCHANGED <<statics, SpeedLastPWMK, result, drift, gap>>

Shift2(t) ==
  /\ PidStep(t, "shift2", "shift1")
  /\ LastSpeedCut2' = LastSpeedCut1
  /\ UNCHANGED <<loc, LastSpeedCut0, LastSpeedCut1, SpeedLastPWMK, result, drift, gap>>

Shift1(t) ==
  /\ PidStep(t, "shift1", "out")
  /\ LastSpeedCut1' = LastSpeedCut0
  /\ UNCHANGED <<loc, LastSpeedCut0, LastSpeedCut2, SpeedLastPWMK, result, drift, gap>>

OutOf(t) == Output(SpeedLastPWMK, StepOf(loc[t].p, loc[t].i, loc[t].d))

\* SpeedLastPWMK is read ...
Out(t) ==
  /\ PidStep(t, "out", "last")
  /\ Set(t, "out", OutOf(t))
  /\ gap' = IF t = "UI" THEN drift + 1 ELSE gap
  /\ UNCHANGED <<statics, SpeedLastPWMK, result, drift>>

\* ... and written by a later statement.
Last(t) ==
  /\ PidStep(t, "last", "result")
  /\ SpeedLastPWMK' = loc[t].out
  /\ drift' = IF t = "UI" THEN gap ELSE drift
  /\ gap' = IF t = "UI" THEN 0 ELSE gap
  /\ UNCHANGED <<loc, statics, result>>

\* The caller goes on: SPEED in speedCtrl(), the user interface in its key.
Return(t) ==
  /\ PidStep(t, "result", IF t = "SPEED" THEN "driveCH3" ELSE IF key = 3 THEN "on" ELSE "stopCH3")
  /\ result' = loc[t].out
  /\ loc' = [loc EXCEPT ![t] = NoLocals]
  /\ UNCHANGED <<statics, SpeedLastPWMK, drift, gap>>

speedPID(t) == Call(t) \/ Cut0(t) \/ Difference(t) \/ Deare1(t) \/ Deare2(t)
               \/ Shift2(t) \/ Shift1(t) \/ Out(t) \/ Last(t) \/ Return(t)

(***************************************************************************)
(* speedStartTask().  What the count may be is in Encoder.tla.             *)
(***************************************************************************)
ReadCount ==
  /\ Step("SPEED", "read", "test")
  /\ ENCODE' \in Counts
  /\ UNCHANGED <<loc, statics, SpeedLastPWMK, result, speedswitch, key, duties, aux>>

TestSwitch ==
  /\ Step("SPEED", "test", IF speedswitch = 1 THEN "call" ELSE "delay")
  /\ UNCHANGED <<loc, ENCODE, statics, SpeedLastPWMK, result, speedswitch, key, duties, aux>>

\* speedCtrl() after its call.
DriveCH3 ==
  /\ Step("SPEED", "driveCH3", "driveCH2")
  /\ CH3' = IF result > KOUPLUSMAX THEN KOUPLUSMAX ELSE result
  /\ driven' = CH3' /\ drift' = 0
  /\ gap' = IF at["UI"] = "last" THEN gap + drift + 1 ELSE gap
  /\ UNCHANGED <<loc, ENCODE, statics, SpeedLastPWMK, result, speedswitch, key, CH2>>

DriveCH2 ==
  /\ Step("SPEED", "driveCH2", "delay")
  /\ CH2' = 0
  /\ UNCHANGED <<loc, ENCODE, statics, SpeedLastPWMK, result, speedswitch, key, CH3, aux>>

(***************************************************************************)
(* The user interface: the menu brakes the motor, key 3 on the Run page    *)
(* starts it, key 4 stops it.  What else a page does is in Firmware.tla.   *)
(***************************************************************************)
UiStep(from, to) ==
  /\ Step("UI", from, to)
  /\ UNCHANGED <<loc, ENCODE, statics, SpeedLastPWMK, result, key, aux>>

BrakeCH3 == UiStep("brakeCH3", "brakeCH2") /\ CH3' = 500 /\ UNCHANGED <<speedswitch, CH2>>
BrakeCH2 == UiStep("brakeCH2", "menuPend") /\ CH2' = 500 /\ UNCHANGED <<speedswitch, CH3>>

\* Any key in the menu, or none in time: it stays, or the Run page is entered.
MenuKey ==
  /\ at["UI"] = "menuPend"
  /\ \E to \in {"brakeCH3", "runPend"} : at' = [at EXCEPT !["UI"] = to]
  /\ UNCHANGED <<repeats, loc, ENCODE, statics, SpeedLastPWMK, result, speedswitch, key, duties, aux>>

\* Mutant: the motor is switched on before the call.
RunKeyOnFirst(k) ==
  /\ at["UI"] = "runPend"
  /\ drift < MaxDrift
  /\ k = 3 /\ speedswitch = 1 => repeats = 1
  /\ key' = k /\ speedswitch' = IF k = 3 THEN 1 ELSE speedswitch
  /\ at' = [at EXCEPT !["UI"] = IF k = 3 THEN "call" ELSE "off"]
  /\ UNCHANGED <<repeats, loc, ENCODE, statics, SpeedLastPWMK, result, duties, aux>>

RunKey(k) ==
  /\ at["UI"] = "runPend"
  /\ drift < MaxDrift
  /\ k = 3 /\ speedswitch = 1 => repeats = 1
  /\ key' = k
  /\ at' = [at EXCEPT !["UI"] = IF k = 3 THEN "call" ELSE "off"]
  /\ UNCHANGED <<repeats, loc, ENCODE, statics, SpeedLastPWMK, result, speedswitch, duties, aux>>

SwitchOn  == UiStep("on", "runPend") /\ speedswitch' = 1 /\ UNCHANGED duties
SwitchOff == UiStep("off", "call") /\ speedswitch' = 0 /\ UNCHANGED duties
StopCH3 == UiStep("stopCH3", "stopCH2") /\ CH3' = 0 /\ UNCHANGED <<speedswitch, CH2>>
StopCH2 == UiStep("stopCH2", "brakeCH3") /\ CH2' = 0 /\ UNCHANGED <<speedswitch, CH3>>

SpeedTask == ReadCount \/ TestSwitch \/ speedPID("SPEED") \/ DriveCH3 \/ DriveCH2

UiTask == BrakeCH3 \/ BrakeCH2 \/ speedPID("UI") \/ SwitchOn \/ SwitchOff \/ StopCH3 \/ StopCH2

Keys == MenuKey \/ RunKey(3) \/ RunKey(4)

Next == Tick \/ SpeedTask \/ UiTask \/ Keys

Spec == Init /\ [][Next]_vars

\* The timer does not stop, a round of SPEED ends before the next tick, and the user
\* interface gets on.  No key need ever come.
FairSpec == Spec /\ WF_vars(Tick) /\ WF_vars(SpeedTask) /\ WF_vars(UiTask)

(***************************************************************************)
(* Properties.                                                             *)
(***************************************************************************)
PidPlaces == {"cut0", "difference", "deare1", "deare2", "shift2", "shift1", "out", "last", "result"}
Places == [SPEED |-> PidPlaces \cup {"delay", "read", "test", "call", "driveCH3", "driveCH2"},
           UI |-> PidPlaces \cup {"brakeCH3", "brakeCH2", "menuPend", "runPend", "call", "on", "off",
                                  "stopCH3", "stopCH2"}]
Duties == 0..KOUPLUSMAX
Steps  == -KWPLUSMAX..KWPLUSMAX
Locals == [now : 0..(Half - 1), p : Steps, i : Steps, d : Steps, out : Duties]

AtOK == at \in [Tasks -> Places.SPEED \cup Places.UI] /\ \A t \in Tasks : at[t] \in Places[t]

TypeOK ==
  /\ AtOK
  /\ loc \in [Tasks -> Locals]
  /\ ENCODE \in 0..(Half - 1)
  /\ LastSpeedCut0 \in Int16s /\ LastSpeedCut1 \in Int16s /\ LastSpeedCut2 \in Int16s
  /\ SpeedLastPWMK \in Duties /\ result \in Duties /\ driven \in Duties
  /\ speedswitch \in 0..1 /\ key \in {0, 3, 4} /\ repeats \in {0, 1}
  /\ CH3 \in Duties \cup {500} /\ CH2 \in {0, 500}
  /\ drift \in Nat /\ gap \in Nat

\* The two tasks are never both inside speedPID(), the statics of which have no
\* lock, unless key 3 comes while the motor runs: Run_UI() calls it before it sets
\* speedswitch and after it has cleared it.
NoOverlap == (\A t \in Tasks : at[t] \in PidPlaces) => repeats = 1

\* As long as it does not, a call of speedPID() is as good as atomic.  It takes
\* effect when it shifts its history.  (If key 3 repeats, nothing is claimed: the
\* abstract controller rests.)
Shifted(t) == at[t] \in {"shift1", "out", "last"}
Pending(t) == IF at[t] = "last" THEN loc[t].out ELSE OutOf(t)
c1Bar == IF \E t \in Tasks : at[t] = "shift1" THEN LastSpeedCut0 ELSE LastSpeedCut1
dutyBar == IF Shifted("SPEED") THEN Pending("SPEED")
           ELSE IF Shifted("UI") THEN Pending("UI") ELSE SpeedLastPWMK
Sole(n) == IF repeats = 1 THEN 0 ELSE n
C == INSTANCE Controller WITH c1 <- Sole(c1Bar), c2 <- Sole(LastSpeedCut2), duty <- Sole(dutyBar)

ImplementsController == C!CSpec

\* What ImplementsController rests on: the switch tells which task may call, and a call
\* finds the history it began with.
Exclusive ==
  /\ at["UI"] \in PidPlaces \cup {"call"} => speedswitch = 0
  /\ at["SPEED"] \in PidPlaces \cup {"call"} => speedswitch = 1

WholeCall(t) ==
  /\ loc[t].now \in Counts
  /\ at[t] \in {"difference", "deare1", "deare2", "shift2", "shift1"} => LastSpeedCut0 = loc[t].now
  /\ at[t] \in {"deare1", "deare2", "shift2"} => loc[t].p = TermP(LastSpeedCut0)
  /\ at[t] \in {"deare2", "shift2"} => loc[t].i = TermI(LastSpeedCut0, LastSpeedCut1)
  /\ at[t] = "shift2" => loc[t].d = TermD(LastSpeedCut0, LastSpeedCut1, LastSpeedCut2)

AtomicInv == TypeOK /\ ENCODE \in Counts /\ (repeats = 0 => Exclusive /\ \A t \in Tasks : WholeCall(t))

\* At most n steps apart.
Near(a, b, n) == a - b <= KWPLUSMAX * n /\ b - a <= KWPLUSMAX * n

\* The motor is never jerked: from one round to the next, over a stop and a start and
\* with any wrapped product, the duty moves by one step for the round and one for each
\* call of the user interface in between.  A call that SPEED interrupts between lines
\* 189 and 195 of ctrl.c may take back what SPEED did meanwhile, and no more.
NoJerk == [][CH3' # CH3 /\ at["SPEED"] = "driveCH3" => Near(CH3', driven, drift + 1)]_vars

\* What NoJerk rests on, at each place of the two tasks.
DriftInv ==
  /\ TypeOK
  /\ at["SPEED"] \notin {"result", "driveCH3"} => Near(SpeedLastPWMK, driven, drift)
  /\ at["SPEED"] = "last" => Near(loc["SPEED"].out, driven, drift + 1)
  /\ at["SPEED"] \in {"result", "driveCH3"} => Near(SpeedLastPWMK, driven, drift + 1)
  /\ at["SPEED"] = "result" => loc["SPEED"].out = SpeedLastPWMK
  /\ at["SPEED"] = "driveCH3" => result = SpeedLastPWMK
  /\ at["UI"] = "last" => Near(loc["UI"].out, driven, gap)

\* A motor that stalls for good gets full power, and one that is too fast for good is
\* cut, whatever the user interface's calls do to the statics: as long as the error
\* times the gain is at least 1 and fits an int16_t.
Standing(n) == <>[](ENCODE = n /\ speedswitch = 1)
FollowsStandingError ==
  \A n \in Counts :
    Fits(n) /\ Standing(n) => <>[](CH3 = IF n < Target THEN KOUPLUSMAX ELSE 0)
=============================================================================
