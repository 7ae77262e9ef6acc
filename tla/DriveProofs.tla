---------------------------- MODULE DriveProofs ----------------------------
(***************************************************************************)
(* The safety of the drive motor, for all gains, counts, limits and widths *)
(* of a word.                                                              *)
(***************************************************************************)
EXTENDS Drive, TLAPS

\* What stands in one word is a value of the word.
LEMMA Int16Type == ASSUME NEW n \in Int PROVE Int16(n) \in Int16s
<1>1. Half \in Nat \ {0}
  BY SpeedPidAssumption
<1>2. 2 * Half \in Nat \ {0} /\ n + Half \in Int
  BY <1>1
<1>3. (n + Half) % (2 * Half) \in 0..(2 * Half - 1)
  BY <1>2
<1> QED
  BY <1>1, <1>3 DEF Int16, Int16s

\* A word that fits is kept.
LEMMA Int16Keeps == ASSUME NEW n \in Int16s PROVE Int16(n) = n
<1>1. Half \in Nat \ {0} /\ n \in Int
  BY SpeedPidAssumption DEF Int16s
<1>2. n + Half \in 0..(2 * Half - 1) /\ 2 * Half \in Nat \ {0}
  BY <1>1 DEF Int16s
<1>3. (n + Half) % (2 * Half) = n + Half
  BY <1>2
<1> QED
  BY <1>1, <1>3 DEF Int16

\* Cutting off a product towards 0 leaves an integer.
LEMMA ProductType == ASSUME NEW k \in Nat, NEW d \in Int PROVE Product(k, d) \in Int
<1>1. k * d \in Int /\ k * (-d) \in Int
  OBVIOUS
<1> QED
  BY <1>1 DEF Product

\* A term is limited to one step, whatever its product wrapped to.
LEMMA TermType == ASSUME NEW k \in Nat, NEW d \in Int PROVE Term(k, d) \in Steps
<1>1. Int16(Product(k, d)) \in Int
  BY ProductType, Int16Type DEF Int16s
<1> QED
  BY <1>1, SpeedPidAssumption DEF Term, Clamp, Steps

LEMMA TermsType ==
  ASSUME NEW n \in Int16s, NEW c1 \in Int16s, NEW c2 \in Int16s
  PROVE  TermP(n) \in Steps /\ TermI(n, c1) \in Steps /\ TermD(n, c1, c2) \in Steps
<1>1. /\ KP \in Nat /\ KI \in Nat /\ KD \in Nat /\ Target \in Int /\ Half \in Nat
  BY SpeedPidAssumption
<1>2. n \in Int /\ c1 \in Int /\ c2 \in Int
  BY <1>1 DEF Int16s
<1>3. /\ Int16(Target - n) \in Int /\ Int16(n - c1) \in Int /\ Int16(c2 + n - 2 * c1) \in Int
  BY <1>1, <1>2, Int16Type DEF Int16s
<1> QED
  BY <1>1, <1>3, TermType DEF TermP, TermI, TermD

\* The duty moves by one step, and stays a duty.
LEMMA OutputMoves ==
  ASSUME NEW a \in Duties, NEW p \in Steps, NEW i \in Steps, NEW d \in Steps
  PROVE  /\ Output(a, StepOf(p, i, d)) \in Duties
         /\ Near(Output(a, StepOf(p, i, d)), a, 1)
<1>1. KWPLUSMAX \in Nat /\ KOUPLUSMAX \in Nat
  BY SpeedPidAssumption
<1>2. p \in Int /\ i \in Int /\ d \in Int /\ a \in Nat /\ a <= KOUPLUSMAX
  BY <1>1 DEF Steps, Duties
<1>3. StepOf(p, i, d) \in Int /\ StepOf(p, i, d) <= KWPLUSMAX /\ -KWPLUSMAX <= StepOf(p, i, d)
  BY <1>1, <1>2 DEF StepOf, Clamp
<1> QED
  BY <1>1, <1>2, <1>3 DEF Output, Clamp, Duties, Near

\* Distances add up.
LEMMA NearAdds ==
  ASSUME NEW a \in Int, NEW b \in Int, NEW c \in Int, NEW m \in Nat, NEW n \in Nat,
         Near(a, b, m), Near(b, c, n)
  PROVE  Near(a, c, m + n)
<1>1. KWPLUSMAX \in Nat
  BY SpeedPidAssumption
<1>2. KWPLUSMAX * (m + n) = KWPLUSMAX * m + KWPLUSMAX * n
  BY <1>1
<1>3. KWPLUSMAX * m \in Nat /\ KWPLUSMAX * n \in Nat
  BY <1>1
<1> QED
  BY <1>2, <1>3 DEF Near

LEMMA NearSwaps ==
  ASSUME NEW a \in Int, NEW b \in Int, NEW n \in Nat, Near(a, b, n)
  PROVE  Near(b, a, n)
BY DEF Near

\* Moving one task leaves the other where it is.
LEMMA Moves ==
  ASSUME TypeOK, NEW t \in Tasks, NEW to \in Places[t], at' = [at EXCEPT ![t] = to]
  PROVE  /\ AtOK'
         /\ at'[t] = to /\ \A u \in Tasks \ {t} : at'[u] = at[u]
<1>1. to \in Places.SPEED \cup Places.UI
  BY DEF Tasks, Places
<1> QED
  BY <1>1 DEF TypeOK, AtOK

\* The locals of one call change, those of the other stay.
LEMMA SetsType ==
  ASSUME TypeOK, NEW t \in Tasks, NEW l \in Locals, loc' = [loc EXCEPT ![t] = l]
  PROVE  loc' \in [Tasks -> Locals] /\ loc'[t] = l /\ \A u \in Tasks \ {t} : loc'[u] = loc[u]
BY DEF TypeOK

LEMMA UiRunsAlone ==
  ASSUME TypeOK, Runs("UI")
  PROVE  at["SPEED"] = "delay"
BY DEF Runs, Ready, Prio, Tasks, TypeOK, AtOK, Places, PidPlaces, APP_SPEED_PRIO, APP_UI_PRIO

LEMMA InitInv == Init => DriftInv
<1> SUFFICES ASSUME Init PROVE DriftInv
  OBVIOUS
<1>1. Half \in Nat \ {0} /\ KWPLUSMAX \in Nat /\ KOUPLUSMAX \in Nat
  BY SpeedPidAssumption
<1>2. NoLocals \in Locals
  BY <1>1 DEF NoLocals, Locals, Steps, Duties
<1>3. at["SPEED"] = "read" /\ at["UI"] = "brakeCH3"
  BY DEF Init, Tasks
<1>4. TypeOK
  BY <1>1, <1>2, <1>3 DEF Init, TypeOK, AtOK, Int16s, Duties, Tasks, Places
<1>5. Near(0, 0, 0)
  BY <1>1 DEF Near
<1> QED
  BY <1>3, <1>4, <1>5 DEF Init, DriftInv

\* The statements of speedPID() keep every range.
LEMMA PidType ==
  ASSUME TypeOK, NEW t \in Tasks, speedPID(t)
  PROVE  TypeOK'
<1> USE DEF PidStep, Step, duties, statics, Set
<1>1. /\ Half \in Nat \ {0} /\ KWPLUSMAX \in Nat /\ KOUPLUSMAX \in Nat
      /\ loc[t] \in Locals
  BY SpeedPidAssumption DEF TypeOK
<1>2. loc[t].now \in 0..(Half - 1) /\ loc[t].p \in Steps /\ loc[t].i \in Steps /\ loc[t].d \in Steps
      /\ loc[t].out \in Duties
  BY <1>1 DEF Locals
<1>3. CASE Call(t)
  <2>1. [loc[t] EXCEPT !.now = ENCODE] \in Locals
    BY <1>1, <1>3 DEF TypeOK, Locals
  <2>2. "cut0" \in Places[t]
    BY DEF Places, PidPlaces, Tasks
  <2>3. loc' = [loc EXCEPT ![t] = [loc[t] EXCEPT !.now = ENCODE]]
    BY <1>3 DEF Call, TypeOK
  <2>8. AtOK'
    BY <1>3, <2>2, Moves DEF Call
  <2>9. loc' \in [Tasks -> Locals]
    BY <2>1, <2>3, SetsType
  <2> QED
    BY <1>3, <2>1, <2>2, <2>3, <2>8, <2>9 DEF Call, TypeOK
<1>4. CASE Cut0(t)
  <2>1. "difference" \in Places[t]
    BY DEF Places, PidPlaces, Tasks
  <2>2. Int16(loc[t].now) \in Int16s
    BY <1>1, <1>2, Int16Type
  <2>8. AtOK'
    BY <1>4, <2>1, Moves DEF Cut0
  <2> QED
    BY <1>4, <2>1, <2>2, <2>8 DEF Cut0, TypeOK
<1>5. CASE Difference(t)
  <2>1. "deare1" \in Places[t]
    BY DEF Places, PidPlaces, Tasks
  <2>2. [loc[t] EXCEPT !.p = TermP(LastSpeedCut0)] \in Locals
    BY <1>1, TermsType DEF TypeOK, Locals
  <2>3. loc' = [loc EXCEPT ![t] = [loc[t] EXCEPT !.p = TermP(LastSpeedCut0)]]
    BY <1>5 DEF Difference, TypeOK
  <2>8. AtOK'
    BY <1>5, <2>1, Moves DEF Difference
  <2>9. loc' \in [Tasks -> Locals]
    BY <2>2, <2>3, SetsType
  <2> QED
    BY <1>5, <2>1, <2>2, <2>3, <2>8, <2>9 DEF Difference, TypeOK
<1>6. CASE Deare1(t)
  <2>1. "deare2" \in Places[t]
    BY DEF Places, PidPlaces, Tasks
  <2>2. [loc[t] EXCEPT !.i = TermI(LastSpeedCut0, LastSpeedCut1)] \in Locals
    BY <1>1, TermsType DEF TypeOK, Locals
  <2>3. loc' = [loc EXCEPT ![t] = [loc[t] EXCEPT !.i = TermI(LastSpeedCut0, LastSpeedCut1)]]
    BY <1>6 DEF Deare1, TypeOK
  <2>8. AtOK'
    BY <1>6, <2>1, Moves DEF Deare1
  <2>9. loc' \in [Tasks -> Locals]
    BY <2>2, <2>3, SetsType
  <2> QED
    BY <1>6, <2>1, <2>2, <2>3, <2>8, <2>9 DEF Deare1, TypeOK
<1>7. CASE Deare2(t)
  <2>1. "shift2" \in Places[t]
    BY DEF Places, PidPlaces, Tasks
  <2>2. [loc[t] EXCEPT !.d = TermD(LastSpeedCut0, LastSpeedCut1, LastSpeedCut2)] \in Locals
    BY <1>1, TermsType DEF TypeOK, Locals
  <2>3. loc' = [loc EXCEPT ![t] = [loc[t] EXCEPT !.d = TermD(LastSpeedCut0, LastSpeedCut1, LastSpeedCut2)]]
    BY <1>7 DEF Deare2, TypeOK
  <2>8. AtOK'
    BY <1>7, <2>1, Moves DEF Deare2
  <2>9. loc' \in [Tasks -> Locals]
    BY <2>2, <2>3, SetsType
  <2> QED
    BY <1>7, <2>1, <2>2, <2>3, <2>8, <2>9 DEF Deare2, TypeOK
<1>8. CASE Shift2(t)
  <2>1. "shift1" \in Places[t]
    BY DEF Places, PidPlaces, Tasks
  <2>8. AtOK'
    BY <1>8, <2>1, Moves DEF Shift2
  <2> QED
    BY <1>8, <2>1, <2>8 DEF Shift2, TypeOK
<1>9. CASE Shift1(t)
  <2>1. "out" \in Places[t]
    BY DEF Places, PidPlaces, Tasks
  <2>8. AtOK'
    BY <1>9, <2>1, Moves DEF Shift1
  <2> QED
    BY <1>9, <2>1, <2>8 DEF Shift1, TypeOK
<1>10. CASE Out(t)
  <2>1. "last" \in Places[t]
    BY DEF Places, PidPlaces, Tasks
  <2>2. OutOf(t) \in Duties
    BY <1>2, OutputMoves DEF OutOf, TypeOK
  <2>3. [loc[t] EXCEPT !.out = OutOf(t)] \in Locals
    BY <1>1, <2>2 DEF Locals
  <2>4. loc' = [loc EXCEPT ![t] = [loc[t] EXCEPT !.out = OutOf(t)]]
    BY <1>10 DEF Out, TypeOK
  <2>5. gap' \in Nat
    BY <1>10 DEF Out, TypeOK
  <2>8. AtOK'
    BY <1>10, <2>1, Moves DEF Out
  <2>9. loc' \in [Tasks -> Locals]
    BY <2>3, <2>4, <2>5, SetsType
  <2> QED
    BY <1>10, <2>1, <2>3, <2>4, <2>5, <2>8, <2>9 DEF Out, TypeOK
<1>11. CASE Last(t)
  <2>1. "result" \in Places[t]
    BY DEF Places, PidPlaces, Tasks
  <2>8. AtOK'
    BY <1>11, <2>1, Moves DEF Last
  <2> QED
    BY <1>2, <1>11, <2>1, <2>8 DEF Last, TypeOK
<1>12. CASE Return(t)
  <2>1. (IF t = "SPEED" THEN "driveCH3" ELSE IF key = 3 THEN "on" ELSE "stopCH3") \in Places[t]
    BY DEF Places, PidPlaces, Tasks
  <2>2. NoLocals \in Locals
    BY <1>1 DEF NoLocals, Locals, Steps, Duties
  <2>8. AtOK'
    BY <1>12, <2>1, Moves DEF Return
  <2>9. loc' \in [Tasks -> Locals]
    BY <1>12, <2>2, SetsType DEF Return
  <2> QED
    BY <1>2, <1>12, <2>1, <2>2, <2>8, <2>9 DEF Return, TypeOK
<1> QED
  BY <1>3, <1>4, <1>5, <1>6, <1>7, <1>8, <1>9, <1>10, <1>11, <1>12 DEF speedPID

\* So do the loops of the two tasks.
LEMMA LoopType ==
  ASSUME TypeOK, Tick \/ ReadCount \/ TestSwitch \/ DriveCH3 \/ DriveCH2 \/ Keys
                 \/ BrakeCH3 \/ BrakeCH2 \/ SwitchOn \/ SwitchOff \/ StopCH3 \/ StopCH2
  PROVE  TypeOK'
<1> USE DEF Step, UiStep, duties, statics, aux
<1>1. /\ Half \in Nat \ {0} /\ KWPLUSMAX \in Nat /\ KOUPLUSMAX \in Nat
      /\ Counts \subseteq 0..(Half - 1)
  BY SpeedPidAssumption
<1>2. "SPEED" \in Tasks /\ "UI" \in Tasks
  BY DEF Tasks
<1>3. /\ {"read", "test", "call", "delay", "driveCH2"} \subseteq Places["SPEED"]
      /\ {"brakeCH3", "brakeCH2", "menuPend", "runPend", "call", "off", "stopCH2"} \subseteq Places["UI"]
  BY DEF Places
<1>4. CASE Tick
  <2>1. AtOK'
    BY <1>2, <1>3, <1>4, Moves DEF Tick
  <2> QED
    BY <1>4, <2>1 DEF Tick, TypeOK
<1>5. CASE ReadCount
  <2>1. AtOK'
    BY <1>2, <1>3, <1>5, Moves DEF ReadCount
  <2> QED
    BY <1>1, <1>5, <2>1 DEF ReadCount, TypeOK
<1>6. CASE TestSwitch
  <2>1. AtOK'
    BY <1>2, <1>3, <1>6, Moves DEF TestSwitch
  <2> QED
    BY <1>6, <2>1 DEF TestSwitch, TypeOK
<1>7. CASE DriveCH3
  <2>1. CH3' \in Duties
    BY <1>1, <1>7 DEF DriveCH3, TypeOK, Duties
  <2>2. drift' \in Nat /\ gap' \in Nat
    BY <1>7 DEF DriveCH3, TypeOK
  <2>3. AtOK'
    BY <1>2, <1>3, <1>7, Moves DEF DriveCH3
  <2> QED
    BY <1>7, <2>1, <2>2, <2>3 DEF DriveCH3, TypeOK
<1>8. CASE DriveCH2
  <2>1. AtOK'
    BY <1>2, <1>3, <1>8, Moves DEF DriveCH2
  <2> QED
    BY <1>8, <2>1 DEF DriveCH2, TypeOK
<1>9. CASE Keys
  <2>1. CASE MenuKey
    <3>1. PICK to \in {"brakeCH3", "runPend"} : at' = [at EXCEPT !["UI"] = to]
      BY <2>1 DEF MenuKey
    <3>2. AtOK'
      BY <1>2, <1>3, <3>1, Moves
    <3> QED
      BY <2>1, <3>2 DEF MenuKey, TypeOK
  <2>2. CASE RunKey(3)
    <3>1. AtOK'
      BY <1>2, <1>3, <2>2, Moves DEF RunKey
    <3> QED
      BY <2>2, <3>1 DEF RunKey, TypeOK
  <2>3. CASE RunKey(4)
    <3>1. AtOK'
      BY <1>2, <1>3, <2>3, Moves DEF RunKey
    <3> QED
      BY <2>3, <3>1 DEF RunKey, TypeOK
  <2> QED
    BY <1>9, <2>1, <2>2, <2>3 DEF Keys
<1>10. CASE BrakeCH3 \/ BrakeCH2
  <2>1. AtOK'
    BY <1>2, <1>3, <1>10, Moves DEF BrakeCH3, BrakeCH2
  <2> QED
    BY <1>10, <2>1 DEF BrakeCH3, BrakeCH2, TypeOK
<1>11. CASE SwitchOn \/ SwitchOff
  <2>1. AtOK'
    BY <1>2, <1>3, <1>11, Moves DEF SwitchOn, SwitchOff
  <2> QED
    BY <1>11, <2>1 DEF SwitchOn, SwitchOff, TypeOK
<1>12. CASE StopCH3 \/ StopCH2
  <2>1. AtOK'
    BY <1>2, <1>3, <1>12, Moves DEF StopCH3, StopCH2
  <2> QED
    BY <1>1, <1>12, <2>1 DEF StopCH3, StopCH2, TypeOK, Duties
<1> QED
  BY <1>4, <1>5, <1>6, <1>7, <1>8, <1>9, <1>10, <1>11, <1>12

LEMMA TypeStep == TypeOK /\ [Next]_vars => TypeOK'
<1> SUFFICES ASSUME TypeOK, [Next]_vars PROVE TypeOK'
  OBVIOUS
<1>1. CASE speedPID("SPEED") \/ speedPID("UI")
  BY <1>1, PidType DEF Tasks
<1>2. CASE ~ speedPID("SPEED") /\ ~ speedPID("UI") /\ Next
  BY <1>2, LoopType DEF Next, SpeedTask, UiTask
<1>3. CASE UNCHANGED vars
  BY <1>3 DEF vars, statics, duties, aux, TypeOK, AtOK
<1> QED
  BY <1>1, <1>2, <1>3

\* Where each task stands after a step of the other, of the tick or of a key.
LEMMA OtherStands ==
  ASSUME TypeOK, NEW t \in Tasks, NEW u \in Tasks \ {t}, NEW to, at' = [at EXCEPT ![t] = to]
  PROVE  at'[t] = to /\ at'[u] = at[u]
BY DEF TypeOK, AtOK

\* The parts of DriftInv that are not types.
Drifts ==
  /\ at["SPEED"] \notin {"result", "driveCH3"} => Near(SpeedLastPWMK, driven, drift)
  /\ at["SPEED"] = "last" => Near(loc["SPEED"].out, driven, drift + 1)
  /\ at["SPEED"] \in {"result", "driveCH3"} => Near(SpeedLastPWMK, driven, drift + 1)
  /\ at["SPEED"] = "result" => loc["SPEED"].out = SpeedLastPWMK
  /\ at["SPEED"] = "driveCH3" => result = SpeedLastPWMK
  /\ at["UI"] = "last" => Near(loc["UI"].out, driven, gap)

\* What a task adds in one call to a duty that is near the one driven.
LEMMA OutNear ==
  ASSUME TypeOK, NEW t \in Tasks, Near(SpeedLastPWMK, driven, drift)
  PROVE  Near(OutOf(t), driven, drift + 1)
<1>1. loc[t].p \in Steps /\ loc[t].i \in Steps /\ loc[t].d \in Steps
  BY DEF TypeOK, Locals
<1>2. SpeedLastPWMK \in Duties /\ driven \in Duties /\ drift \in Nat /\ KOUPLUSMAX \in Nat
  BY SpeedPidAssumption DEF TypeOK
<1>3. OutOf(t) \in Duties /\ Near(OutOf(t), SpeedLastPWMK, 1)
  BY <1>1, <1>2, OutputMoves DEF OutOf
<1>4. OutOf(t) \in Int /\ SpeedLastPWMK \in Int /\ driven \in Int
  BY <1>2, <1>3 DEF Duties
<1>5. Near(OutOf(t), driven, 1 + drift)
  BY <1>2, <1>3, <1>4, NearAdds
<1>6. 1 + drift = drift + 1
  BY <1>2
<1> QED
  BY <1>5, <1>6

\* The statements of speedPID() that write none of what Drifts relates.
LEMMA QuietStatements ==
  ASSUME TypeOK, Drifts, NEW t \in Tasks,
         Call(t) \/ Cut0(t) \/ Difference(t) \/ Deare1(t) \/ Deare2(t) \/ Shift2(t) \/ Shift1(t)
  PROVE  Drifts'
<1>1. /\ at[t] \in {"call", "cut0", "difference", "deare1", "deare2", "shift2", "shift1"}
      /\ \E to \in {"cut0", "difference", "deare1", "deare2", "shift2", "shift1", "out"} :
            at' = [at EXCEPT ![t] = to]
      /\ UNCHANGED <<SpeedLastPWMK, result, driven, drift, gap>>
  BY DEF Call, Cut0, Difference, Deare1, Deare2, Shift2, Shift1, PidStep, Step
<1>2. \A u \in Tasks \ {t} : loc'[u] = loc[u]
  BY DEF Call, Cut0, Difference, Deare1, Deare2, Shift2, Shift1, Set, TypeOK
<1>3. PICK to \in {"cut0", "difference", "deare1", "deare2", "shift2", "shift1", "out"} :
            at' = [at EXCEPT ![t] = to]
  BY <1>1
<1>4. at'[t] = to /\ \A u \in Tasks \ {t} : at'[u] = at[u]
  BY <1>3 DEF TypeOK, AtOK
<1>5. CASE t = "SPEED"
  BY <1>1, <1>2, <1>4, <1>5 DEF Drifts, Tasks
<1>6. CASE t = "UI"
  BY <1>1, <1>2, <1>4, <1>6 DEF Drifts, Tasks
<1> QED
  BY <1>5, <1>6 DEF Tasks

\* Those of SPEED that do.
LEMMA SpeedStatements ==
  ASSUME TypeOK, Drifts, Out("SPEED") \/ Last("SPEED") \/ Return("SPEED")
  PROVE  Drifts'
<1> USE DEF PidStep, Step
<1>1. CASE Out("SPEED")
  <2>1. /\ at["SPEED"] = "out" /\ at'["SPEED"] = "last" /\ at'["UI"] = at["UI"]
        /\ loc'["SPEED"].out = OutOf("SPEED") /\ loc'["UI"] = loc["UI"]
        /\ UNCHANGED <<SpeedLastPWMK, driven, drift, gap>>
    BY <1>1 DEF Out, Set, TypeOK, AtOK, Tasks, Locals
  <2>2. Near(OutOf("SPEED"), driven, drift + 1)
    BY <2>1, OutNear DEF Drifts, Tasks
  <2> QED
    BY <2>1, <2>2 DEF Drifts
<1>2. CASE Last("SPEED")
  <2>1. /\ at["SPEED"] = "last" /\ at'["SPEED"] = "result" /\ at'["UI"] = at["UI"]
        /\ SpeedLastPWMK' = loc["SPEED"].out /\ UNCHANGED <<loc, driven, drift, gap>>
    BY <1>2 DEF Last, TypeOK, AtOK, Tasks
  <2> QED
    BY <2>1 DEF Drifts
<1>3. CASE Return("SPEED")
  <2>1. /\ at["SPEED"] = "result" /\ at'["SPEED"] = "driveCH3" /\ at'["UI"] = at["UI"]
        /\ result' = loc["SPEED"].out /\ loc'["UI"] = loc["UI"]
        /\ UNCHANGED <<SpeedLastPWMK, driven, drift, gap>>
    BY <1>3 DEF Return, TypeOK, AtOK, Tasks
  <2> QED
    BY <2>1 DEF Drifts
<1> QED
  BY <1>1, <1>2, <1>3

\* And those of the user interface: SPEED has delayed.
LEMMA UiStatements ==
  ASSUME TypeOK, Drifts, Out("UI") \/ Last("UI") \/ Return("UI")
  PROVE  Drifts'
<1> USE DEF PidStep, Step
<1>1. at["SPEED"] = "delay" /\ at'["SPEED"] = "delay"
  <2>1. Runs("UI")
    BY DEF Out, Last, Return
  <2>2. at["SPEED"] = "delay"
    BY <2>1, UiRunsAlone
  <2> QED
    BY <2>2 DEF Out, Last, Return, TypeOK, AtOK, Tasks
<1>2. Near(SpeedLastPWMK, driven, drift)
  BY <1>1 DEF Drifts
<1>3. CASE Out("UI")
  <2>1. /\ at'["UI"] = "last" /\ loc'["UI"].out = OutOf("UI")
        /\ gap' = drift + 1 /\ UNCHANGED <<SpeedLastPWMK, driven, drift>>
    BY <1>3 DEF Out, Set, TypeOK, AtOK, Tasks, Locals
  <2>2. Near(OutOf("UI"), driven, drift + 1)
    BY <1>2, OutNear DEF Tasks
  <2> QED
    BY <1>1, <1>2, <2>1, <2>2 DEF Drifts
<1>4. CASE Last("UI")
  <2>1. /\ at["UI"] = "last" /\ at'["UI"] = "result"
        /\ SpeedLastPWMK' = loc["UI"].out /\ drift' = gap /\ UNCHANGED driven
    BY <1>4 DEF Last, TypeOK, AtOK, Tasks
  <2> QED
    BY <1>1, <2>1 DEF Drifts
<1>5. CASE Return("UI")
  <2>1. at'["UI"] \in {"on", "stopCH3"} /\ UNCHANGED <<SpeedLastPWMK, driven, drift>>
    BY <1>5 DEF Return, TypeOK, AtOK, Tasks
  <2> QED
    BY <1>1, <1>2, <2>1 DEF Drifts
<1> QED
  BY <1>3, <1>4, <1>5

\* SPEED writes what it computed: it is then where SpeedLastPWMK is, and what the user
\* interface is about to store lags by as much more.
LEMMA DriveStatement ==
  ASSUME TypeOK, Drifts, DriveCH3
  PROVE  /\ Drifts'
         /\ Near(CH3', driven, drift + 1)
<1>1. /\ at["SPEED"] = "driveCH3" /\ at'["SPEED"] = "driveCH2" /\ at'["UI"] = at["UI"]
      /\ driven' = CH3' /\ drift' = 0 /\ UNCHANGED <<SpeedLastPWMK, loc>>
  BY DEF DriveCH3, Step, TypeOK, AtOK, Tasks
<1>2. KWPLUSMAX \in Nat /\ KOUPLUSMAX \in Nat
  BY SpeedPidAssumption
<1>3. result = SpeedLastPWMK /\ result \in Duties
  BY <1>1 DEF Drifts, TypeOK
<1>4. CH3' = SpeedLastPWMK /\ SpeedLastPWMK \in Int
  BY <1>2, <1>3 DEF DriveCH3, Duties
<1>5. Near(SpeedLastPWMK, driven, drift + 1)
  BY <1>1 DEF Drifts
<1>6. Near(SpeedLastPWMK', driven', drift')
  BY <1>1, <1>2, <1>4 DEF Near
<1>7. at'["UI"] = "last" => Near(loc'["UI"].out, driven', gap')
  <2> SUFFICES ASSUME at["UI"] = "last" PROVE Near(loc["UI"].out, SpeedLastPWMK, gap')
    BY <1>1, <1>4
  <2>1. Near(loc["UI"].out, driven, gap)
    BY DEF Drifts
  <2>2. loc["UI"].out \in Duties /\ driven \in Duties /\ gap \in Nat /\ drift \in Nat
    BY DEF TypeOK, Locals, Tasks
  <2>3. loc["UI"].out \in Int /\ driven \in Int /\ drift + 1 \in Nat
    BY <1>2, <2>2 DEF Duties
  <2>4. Near(driven, SpeedLastPWMK, drift + 1)
    BY <1>4, <1>5, <2>3, NearSwaps
  <2>5. Near(loc["UI"].out, SpeedLastPWMK, gap + (drift + 1))
    BY <1>4, <2>1, <2>2, <2>3, <2>4, NearAdds
  <2>6. gap' = gap + (drift + 1)
    BY <2>2 DEF DriveCH3
  <2> QED
    BY <2>5, <2>6
<1>8. Drifts'
  BY <1>1, <1>6, <1>7 DEF Drifts
<1> QED
  BY <1>4, <1>5, <1>8

\* The other statements of the two loops write nothing that Drifts relates.
LEMMA LoopDrifts ==
  ASSUME TypeOK, Drifts, Tick \/ ReadCount \/ TestSwitch \/ DriveCH2 \/ Keys
                         \/ BrakeCH3 \/ BrakeCH2 \/ SwitchOn \/ SwitchOff \/ StopCH3 \/ StopCH2
  PROVE  Drifts'
<1>1. UNCHANGED <<SpeedLastPWMK, loc, result, driven, drift, gap>>
  BY DEF Tick, ReadCount, TestSwitch, DriveCH2, Keys, MenuKey, RunKey, BrakeCH3, BrakeCH2,
         SwitchOn, SwitchOff, StopCH3, StopCH2, UiStep, aux
<1>2. CASE Tick \/ ReadCount \/ TestSwitch \/ DriveCH2
  <2>1. /\ at["SPEED"] \notin {"result", "driveCH3"} /\ at'["UI"] = at["UI"]
        /\ at'["SPEED"] \notin {"last", "result", "driveCH3"}
    BY <1>2 DEF Tick, ReadCount, TestSwitch, DriveCH2, Step, TypeOK, AtOK, Tasks
  <2> QED
    BY <1>1, <2>1 DEF Drifts
<1>3. CASE ~ (Tick \/ ReadCount \/ TestSwitch \/ DriveCH2)
  <2>1. at'["SPEED"] = at["SPEED"] /\ at'["UI"] # "last"
    BY <1>3 DEF Keys, MenuKey, RunKey, BrakeCH3, BrakeCH2, SwitchOn, SwitchOff, StopCH3, StopCH2,
                UiStep, Step, TypeOK, AtOK, Tasks
  <2> QED
    BY <1>1, <2>1 DEF Drifts
<1> QED
  BY <1>2, <1>3

LEMMA DriftStep == DriftInv /\ [Next]_vars => DriftInv'
<1> SUFFICES ASSUME DriftInv, [Next]_vars PROVE DriftInv'
  OBVIOUS
<1>1. TypeOK /\ Drifts
  BY DEF DriftInv, Drifts
<1>2. TypeOK'
  BY <1>1, TypeStep
<1>3. Drifts'
  <2>1. CASE speedPID("SPEED")
    BY <1>1, <2>1, QuietStatements, SpeedStatements DEF speedPID, Tasks
  <2>2. CASE speedPID("UI")
    BY <1>1, <2>2, QuietStatements, UiStatements DEF speedPID, Tasks
  <2>3. CASE DriveCH3
    BY <1>1, <2>3, DriveStatement
  <2>4. CASE Next /\ ~ speedPID("SPEED") /\ ~ speedPID("UI") /\ ~ DriveCH3
    BY <1>1, <2>4, LoopDrifts DEF Next, SpeedTask, UiTask
  <2>5. CASE UNCHANGED vars
    BY <1>1, <2>5 DEF vars, aux, Drifts
  <2> QED
    BY <2>1, <2>2, <2>3, <2>4, <2>5
<1> QED
  BY <1>2, <1>3 DEF DriftInv, Drifts

\* The duty that SPEED will drive is near the one it has driven.
THEOREM DriveSafe == Spec => []DriftInv
<1> QED
  BY InitInv, DriftStep, PTL DEF Spec

\* Every variable of the drive keeps its range: no duty leaves 0..KOUPLUSMAX.
THEOREM DriveTypes == Spec => []TypeOK
<1>1. DriftInv => TypeOK
  BY DEF DriftInv
<1> QED
  BY <1>1, DriveSafe, PTL

\* The motor is never jerked.
THEOREM NeverJerked == Spec => NoJerk
<1>1. DriftInv /\ [Next]_vars =>
       [CH3' # CH3 /\ at["SPEED"] = "driveCH3" => Near(CH3', driven, drift + 1)]_vars
  <2> SUFFICES ASSUME DriftInv, Next, CH3' # CH3, at["SPEED"] = "driveCH3"
               PROVE  Near(CH3', driven, drift + 1)
    OBVIOUS
  <2>1. TypeOK /\ Drifts
    BY DEF DriftInv, Drifts
  <2>2. DriveCH3
    <3>1. ~ Runs("UI")
      BY <2>1, UiRunsAlone
    <3> QED
      BY <3>1 DEF Next, SpeedTask, UiTask, Keys, MenuKey, RunKey, Tick, speedPID, Call, Cut0, Difference,
           Deare1, Deare2, Shift2, Shift1, Out, Last, Return, PidStep, duties, ReadCount, TestSwitch,
           DriveCH2, BrakeCH3, BrakeCH2, SwitchOn, SwitchOff, StopCH3, StopCH2, UiStep, Step
  <2> QED
    BY <2>1, <2>2, DriveStatement
<1> QED
  BY <1>1, DriveSafe, PTL DEF Spec, NoJerk

(***************************************************************************)
(* The calls of speedPID() exclude each other, and are as good as atomic.  *)
(***************************************************************************)
Whole == Exclusive /\ \A t \in Tasks : WholeCall(t)

LEMMA InitAtomic == Init => AtomicInv
<1> SUFFICES ASSUME Init PROVE AtomicInv
  OBVIOUS
<1>1. TypeOK
  BY InitInv DEF DriftInv
<1>2. at["SPEED"] = "read" /\ at["UI"] = "brakeCH3" /\ ENCODE = 0
      /\ \A t \in Tasks : loc[t].now = 0 /\ at[t] \in {"read", "brakeCH3"}
  BY DEF Init, Tasks, NoLocals
<1>3. 0 \in Counts
  BY SpeedPidAssumption
<1> QED
  BY <1>1, <1>2, <1>3 DEF AtomicInv, Exclusive, WholeCall, PidPlaces

\* While one task is in speedPID() the other is not even about to call it.
LEMMA OtherIsOut ==
  ASSUME TypeOK, Exclusive, NEW t \in Tasks, NEW u \in Tasks \ {t},
         at[t] \in PidPlaces \cup {"call"}
  PROVE  at[u] \notin PidPlaces \cup {"call"}
BY DEF Exclusive, Tasks

\* A statement of one call leaves that call whole.
LEMMA OwnCall ==
  ASSUME TypeOK, ENCODE \in Counts, NEW t \in Tasks, WholeCall(t), speedPID(t)
  PROVE  WholeCall(t)'
<1> USE DEF PidStep, Step, Set
<1>1. at[t] \in Places["SPEED"] \cup Places["UI"] /\ loc[t] \in Locals
      /\ loc \in [Tasks -> Locals] /\ at \in [Tasks -> Places["SPEED"] \cup Places["UI"]]
  BY DEF TypeOK, AtOK
<1>2. CASE Call(t)
  <2>1. at'[t] = "cut0" /\ loc'[t].now = ENCODE
    BY <1>1, <1>2 DEF Call, Locals
  <2> QED
    BY <2>1 DEF WholeCall
<1>3. CASE Cut0(t)
  <2>1. at'[t] = "difference" /\ loc' = loc
    BY <1>1, <1>3 DEF Cut0
  <2>2. LastSpeedCut0' = loc[t].now
    <3>1. loc[t].now \in Int16s
      BY SpeedPidAssumption DEF WholeCall, Int16s
    <3> QED
      BY <1>3, <3>1, Int16Keeps DEF Cut0
  <2> QED
    BY <2>1, <2>2 DEF WholeCall
<1>4. CASE Difference(t)
  <2>1. at[t] = "difference" /\ at'[t] = "deare1" /\ loc'[t].now = loc[t].now
        /\ loc'[t].p = TermP(LastSpeedCut0) /\ LastSpeedCut0' = LastSpeedCut0
    BY <1>1, <1>4 DEF Difference, statics, Locals
  <2> QED
    BY <2>1 DEF WholeCall
<1>5. CASE Deare1(t)
  <2>1. at[t] = "deare1" /\ at'[t] = "deare2" /\ loc'[t].now = loc[t].now /\ loc'[t].p = loc[t].p
        /\ loc'[t].i = TermI(LastSpeedCut0, LastSpeedCut1)
        /\ LastSpeedCut0' = LastSpeedCut0 /\ LastSpeedCut1' = LastSpeedCut1
    BY <1>1, <1>5 DEF Deare1, statics, Locals
  <2> QED
    BY <2>1 DEF WholeCall
<1>6. CASE Deare2(t)
  <2>1. at[t] = "deare2" /\ at'[t] = "shift2" /\ loc'[t].now = loc[t].now /\ loc'[t].p = loc[t].p
        /\ loc'[t].i = loc[t].i
        /\ loc'[t].d = TermD(LastSpeedCut0, LastSpeedCut1, LastSpeedCut2)
        /\ LastSpeedCut0' = LastSpeedCut0 /\ LastSpeedCut1' = LastSpeedCut1
        /\ LastSpeedCut2' = LastSpeedCut2
    BY <1>1, <1>6 DEF Deare2, statics, Locals
  <2> QED
    BY <2>1 DEF WholeCall
<1>7. CASE Shift2(t)
  <2>1. at[t] = "shift2" /\ at'[t] = "shift1" /\ loc' = loc /\ LastSpeedCut0' = LastSpeedCut0
    BY <1>1, <1>7 DEF Shift2
  <2> QED
    BY <2>1 DEF WholeCall
<1>8. CASE Shift1(t) \/ Out(t) \/ Last(t)
  <2>1. at'[t] \in {"out", "last", "result"} /\ loc'[t].now = loc[t].now
    BY <1>1, <1>8 DEF Shift1, Out, Last, Locals
  <2> QED
    BY <2>1 DEF WholeCall
<1>9. CASE Return(t)
  <2>1. at'[t] \in {"driveCH3", "on", "stopCH3"} /\ loc'[t].now = 0
    BY <1>1, <1>9 DEF Return, NoLocals
  <2> QED
    BY <2>1, SpeedPidAssumption DEF WholeCall
<1> QED
  BY <1>2, <1>3, <1>4, <1>5, <1>6, <1>7, <1>8, <1>9 DEF speedPID

LEMMA CallKeepsWhole ==
  ASSUME TypeOK, ENCODE \in Counts, Whole, NEW t \in Tasks, speedPID(t)
  PROVE  Whole' /\ ENCODE' \in Counts
<1>1. /\ at[t] \in PidPlaces \cup {"call"}
      /\ UNCHANGED <<ENCODE, speedswitch>>
      /\ \E to \in PidPlaces \cup {"driveCH3", "on", "stopCH3"} : at' = [at EXCEPT ![t] = to]
      /\ \A u \in Tasks \ {t} : loc'[u] = loc[u]
  BY DEF speedPID, Call, Cut0, Difference, Deare1, Deare2, Shift2, Shift1, Out, Last, Return,
         PidStep, Step, Set, PidPlaces, TypeOK
<1>2. /\ \A u \in Tasks \ {t} : at'[u] = at[u]
      /\ at'[t] \in PidPlaces \cup {"driveCH3", "on", "stopCH3"}
  BY <1>1 DEF TypeOK, AtOK
<1>3. \A u \in Tasks \ {t} : at[u] \notin PidPlaces \cup {"call"}
  BY <1>1, OtherIsOut DEF Whole
<1>4. Exclusive'
  BY <1>1, <1>2, <1>3 DEF Whole, Exclusive, Tasks
<1>5. WholeCall(t)'
  BY OwnCall DEF Whole
<1>6. ASSUME NEW u \in Tasks \ {t} PROVE WholeCall(u)'
  <2>1. loc'[u].now \in Counts
    BY <1>1 DEF Whole, WholeCall
  <2>2. at'[u] \notin PidPlaces
    BY <1>2, <1>3
  <2> QED
    BY <2>1, <2>2 DEF WholeCall, PidPlaces
<1>7. \A u \in Tasks : WholeCall(u)'
  BY <1>5, <1>6
<1> QED
  BY <1>1, <1>4, <1>7 DEF Whole

\* Outside speedPID() the switch goes on after the call and off before it.
LEMMA LoopKeepsWhole ==
  ASSUME TypeOK, ENCODE \in Counts, repeats = 0, Whole,
         Tick \/ ReadCount \/ TestSwitch \/ DriveCH3 \/ DriveCH2 \/ Keys
           \/ BrakeCH3 \/ BrakeCH2 \/ SwitchOn \/ SwitchOff \/ StopCH3 \/ StopCH2
  PROVE  Whole'
<1> USE DEF Step, UiStep
<1>1. UNCHANGED <<loc, LastSpeedCut0, LastSpeedCut1, LastSpeedCut2>>
  BY DEF Tick, ReadCount, TestSwitch, DriveCH3, DriveCH2, Keys, MenuKey, RunKey,
         BrakeCH3, BrakeCH2, SwitchOn, SwitchOff, StopCH3, StopCH2, statics
<1>2. \A t \in Tasks : at'[t] = at[t] \/ at'[t] \notin PidPlaces
  BY DEF Tick, ReadCount, TestSwitch, DriveCH3, DriveCH2, Keys, MenuKey, RunKey,
         BrakeCH3, BrakeCH2, SwitchOn, SwitchOff, StopCH3, StopCH2, PidPlaces, TypeOK, AtOK, Tasks
<1>3. \A t \in Tasks : WholeCall(t)'
  <2> SUFFICES ASSUME NEW t \in Tasks PROVE WholeCall(t)'
    OBVIOUS
  <2>1. WholeCall(t)
    BY DEF Whole
  <2>2. CASE at'[t] = at[t]
    BY <1>1, <2>1, <2>2 DEF WholeCall
  <2>3. CASE at'[t] \notin PidPlaces
    BY <1>1, <2>1, <2>3 DEF WholeCall, PidPlaces
  <2> QED
    BY <1>2, <2>2, <2>3
<1>4. Exclusive'
  <2>1. Exclusive
    BY DEF Whole
  <2>2. CASE Tick \/ ReadCount \/ DriveCH3 \/ DriveCH2
    <3>1. /\ at'["UI"] = at["UI"] /\ speedswitch' = speedswitch
          /\ at'["SPEED"] \notin PidPlaces \cup {"call"}
      BY <2>2 DEF Tick, ReadCount, DriveCH3, DriveCH2, TypeOK, AtOK, Tasks, PidPlaces
    <3> QED
      BY <2>1, <3>1 DEF Exclusive
  <2>3. CASE TestSwitch
    <3>1. /\ at'["UI"] = at["UI"] /\ speedswitch' = speedswitch
          /\ at'["SPEED"] = IF speedswitch = 1 THEN "call" ELSE "delay"
      BY <2>3 DEF TestSwitch, TypeOK, AtOK, Tasks
    <3> QED
      BY <2>1, <3>1 DEF Exclusive, PidPlaces
  <2>4. CASE Keys
    <3>1. /\ at'["SPEED"] = at["SPEED"] /\ speedswitch' = speedswitch
          /\ at'["UI"] \notin PidPlaces
          /\ at'["UI"] = "call" => speedswitch # 1
      BY <2>4 DEF Keys, MenuKey, RunKey, TypeOK, AtOK, Tasks, PidPlaces
    <3>2. speedswitch \in {0, 1}
      BY DEF TypeOK
    <3> QED
      BY <2>1, <3>1, <3>2 DEF Exclusive
  <2>5. CASE BrakeCH3 \/ BrakeCH2 \/ SwitchOn \/ StopCH3 \/ StopCH2 \/ SwitchOff
    <3>1. at["SPEED"] = "delay"
      BY <2>5, UiRunsAlone DEF BrakeCH3, BrakeCH2, SwitchOn, SwitchOff, StopCH3, StopCH2
    <3>2. /\ at'["SPEED"] = at["SPEED"] /\ at'["UI"] \notin PidPlaces
          /\ at'["UI"] = "call" => speedswitch' = 0
      BY <2>5 DEF BrakeCH3, BrakeCH2, SwitchOn, SwitchOff, StopCH3, StopCH2, TypeOK, AtOK, Tasks, PidPlaces
    <3> QED
      BY <2>1, <3>1, <3>2 DEF Exclusive, PidPlaces
  <2> QED
    BY <2>2, <2>3, <2>4, <2>5
<1> QED
  BY <1>3, <1>4 DEF Whole

LEMMA RigidRepeats == [Next]_vars => repeats' = repeats
<1> USE DEF Step, PidStep, UiStep
<1> QED
  BY DEF Next, SpeedTask, UiTask, speedPID, Call, Cut0, Difference, Deare1, Deare2,
         Shift2, Shift1, Out, Last, Return, Tick, ReadCount, TestSwitch, DriveCH3, DriveCH2,
         Keys, MenuKey, RunKey, BrakeCH3, BrakeCH2, SwitchOn, SwitchOff, StopCH3, StopCH2, vars

LEMMA AtomicStep == AtomicInv /\ [Next]_vars => AtomicInv'
<1> SUFFICES ASSUME AtomicInv, [Next]_vars PROVE AtomicInv'
  OBVIOUS
<1>1. TypeOK /\ TypeOK'
  BY TypeStep DEF AtomicInv
<1>2. ENCODE' \in Counts
  BY DEF AtomicInv, Next, SpeedTask, UiTask, speedPID, Call, Cut0, Difference, Deare1, Deare2,
         Shift2, Shift1, Out, Last, Return, PidStep, Tick, ReadCount, TestSwitch, DriveCH3, DriveCH2,
         Keys, MenuKey, RunKey, BrakeCH3, BrakeCH2, SwitchOn, SwitchOff, StopCH3, StopCH2, UiStep, vars
<1>3. ASSUME repeats = 0 PROVE Whole'
  <2>1. Whole /\ ENCODE \in Counts
    BY <1>3 DEF AtomicInv, Whole
  <2>2. CASE speedPID("SPEED") \/ speedPID("UI")
    BY <1>1, <2>1, <2>2, CallKeepsWhole DEF Tasks
  <2>3. CASE Next /\ ~ speedPID("SPEED") /\ ~ speedPID("UI")
    BY <1>1, <1>3, <2>1, <2>3, LoopKeepsWhole DEF Next, SpeedTask, UiTask
  <2>4. CASE UNCHANGED vars
    <3>1. UNCHANGED <<at, loc, speedswitch, LastSpeedCut0, LastSpeedCut1, LastSpeedCut2>>
      BY <2>4 DEF vars, statics
    <3> QED
      BY <2>1, <3>1 DEF Whole, Exclusive, WholeCall
  <2> QED
    BY <2>2, <2>3, <2>4
<1> QED
  BY <1>1, <1>2, <1>3, RigidRepeats DEF AtomicInv, Whole

\* The statics of speedPID() are those of whole calls, if key 3 does not repeat.
THEOREM CallsAreWhole == Spec => []AtomicInv
<1> QED
  BY InitAtomic, AtomicStep, PTL DEF Spec

\* The two tasks are never both in speedPID(), if key 3 does not repeat.
THEOREM CallsExclude == Spec => []NoOverlap
<1>1. AtomicInv => NoOverlap
  <2>2. AtomicInv => repeats \in {0, 1}
    BY DEF AtomicInv, TypeOK
  <2> SUFFICES ASSUME AtomicInv, repeats = 0, \A t \in Tasks : at[t] \in PidPlaces PROVE FALSE
    BY <2>2 DEF NoOverlap
  <2>1. at["UI"] \in PidPlaces /\ at["SPEED"] \in PidPlaces
    BY DEF Tasks
  <2> QED
    BY <2>1 DEF AtomicInv, Exclusive
<1> QED
  BY <1>1, CallsAreWhole, PTL

(***************************************************************************)
(* The refinement: a call takes effect where it shifts its history.        *)
(***************************************************************************)
\* The arithmetic is the same on both levels.
LEMMA SameArithmetic ==
  ASSUME NEW a, NEW n, NEW c, NEW d
  PROVE  C!DutyAfter(a, n, c, d) = DutyAfter(a, n, c, d)
BY DEF C!DutyAfter, C!Output, C!StepOf, C!TermP, C!TermI, C!TermD, C!Term, C!Product, C!Int16, C!Clamp,
       DutyAfter, Output, StepOf, TermP, TermI, TermD, Term, Product, Int16, Clamp

\* The shift of the history is a whole call of the abstract controller ...
LEMMA ShiftUpdates ==
  ASSUME TypeOK, Whole, NEW t \in Tasks, Shift2(t), repeats = 0, repeats' = 0
  PROVE  C!CNext
<1>1. /\ at[t] = "shift2" /\ at'[t] = "shift1" /\ \A u \in Tasks \ {t} : at'[u] = at[u]
      /\ UNCHANGED <<loc, SpeedLastPWMK, LastSpeedCut0, LastSpeedCut1>>
      /\ LastSpeedCut2' = LastSpeedCut1
  BY DEF Shift2, PidStep, Step, TypeOK, AtOK
<1>2. \A u \in Tasks \ {t} : at[u] \notin PidPlaces
  BY <1>1, OtherIsOut DEF Whole, PidPlaces
<1>3. /\ loc[t].now \in Counts /\ LastSpeedCut0 = loc[t].now
      /\ loc[t].p = TermP(LastSpeedCut0) /\ loc[t].i = TermI(LastSpeedCut0, LastSpeedCut1)
      /\ loc[t].d = TermD(LastSpeedCut0, LastSpeedCut1, LastSpeedCut2)
  BY <1>1 DEF Whole, WholeCall
<1>4. c1Bar = LastSpeedCut1 /\ dutyBar = SpeedLastPWMK
  BY <1>1, <1>2 DEF c1Bar, dutyBar, Shifted, Tasks, PidPlaces
<1>5. c1Bar' = LastSpeedCut0
  BY <1>1 DEF c1Bar
<1>6. OutOf(t)' = DutyAfter(SpeedLastPWMK, LastSpeedCut0, LastSpeedCut1, LastSpeedCut2)
  BY <1>1, <1>3 DEF OutOf, DutyAfter
<1>7. dutyBar' = OutOf(t)'
  BY <1>1, <1>2 DEF dutyBar, Shifted, Pending, Tasks, PidPlaces
<1>8. dutyBar' = C!DutyAfter(dutyBar, LastSpeedCut0, c1Bar, LastSpeedCut2)
  BY <1>4, <1>6, <1>7, SameArithmetic
<1>9. /\ dutyBar' = C!DutyAfter(dutyBar, LastSpeedCut0, c1Bar, LastSpeedCut2)
      /\ c1Bar' = LastSpeedCut0 /\ LastSpeedCut2' = c1Bar
  BY <1>1, <1>4, <1>5, <1>8
<1>10. PICK n \in Counts : n = LastSpeedCut0
  BY <1>3
<1>11. Sole(c1Bar) = c1Bar /\ Sole(LastSpeedCut2) = LastSpeedCut2 /\ Sole(dutyBar) = dutyBar
       /\ Sole(c1Bar)' = c1Bar' /\ Sole(LastSpeedCut2)' = LastSpeedCut2' /\ Sole(dutyBar)' = dutyBar'
  BY DEF Sole
<1>12. C!Update(n)
  BY ONLY <1>9, <1>10, <1>11 DEF C!Update
<1> QED
  BY <1>12 DEF C!CNext

\* ... every other statement of the call is none of its business ...
LEMMA StatementStutters ==
  ASSUME TypeOK, Whole, NEW t \in Tasks, speedPID(t), ~ Shift2(t)
  PROVE  UNCHANGED <<c1Bar, LastSpeedCut2, dutyBar>>
<1> USE DEF PidStep, Step, Set
<1>1. /\ at[t] \in PidPlaces \cup {"call"} /\ \A u \in Tasks \ {t} : at'[u] = at[u]
  BY DEF speedPID, Call, Cut0, Difference, Deare1, Deare2, Shift2, Shift1, Out, Last, Return,
         PidPlaces, TypeOK, AtOK
<1>2. \A u \in Tasks \ {t} : at[u] \notin PidPlaces
  BY <1>1, OtherIsOut DEF Whole
<1>3. LastSpeedCut2' = LastSpeedCut2
  BY DEF speedPID, Call, Cut0, Difference, Deare1, Deare2, Shift1, Out, Last, Return, statics
<1>4. CASE Call(t) \/ Cut0(t) \/ Difference(t) \/ Deare1(t) \/ Deare2(t)
  <2>1. /\ at[t] \in {"call", "cut0", "difference", "deare1", "deare2"}
        /\ at'[t] \in {"cut0", "difference", "deare1", "deare2", "shift2"}
        /\ UNCHANGED <<SpeedLastPWMK, LastSpeedCut1>>
    BY <1>4 DEF Call, Cut0, Difference, Deare1, Deare2, statics, TypeOK, AtOK
  <2> QED
    BY <1>1, <1>2, <1>3, <2>1 DEF c1Bar, dutyBar, Shifted, Tasks, PidPlaces
<1>5. CASE Shift1(t)
  <2>1. /\ at[t] = "shift1" /\ at'[t] = "out" /\ LastSpeedCut1' = LastSpeedCut0
        /\ UNCHANGED <<loc, SpeedLastPWMK, LastSpeedCut0>>
    BY <1>5 DEF Shift1, TypeOK, AtOK
  <2>2. OutOf(t)' = OutOf(t)
    BY <2>1 DEF OutOf
  <2>3. c1Bar' = c1Bar
    BY <1>1, <1>2, <2>1 DEF c1Bar, PidPlaces
  <2>4. dutyBar' = dutyBar
    BY <1>1, <1>2, <2>1, <2>2 DEF dutyBar, Shifted, Pending, Tasks, PidPlaces
  <2> QED
    BY <1>3, <2>3, <2>4
<1>6. CASE Out(t)
  <2>1. /\ at[t] = "out" /\ at'[t] = "last" /\ loc'[t].out = OutOf(t)
        /\ UNCHANGED <<SpeedLastPWMK, LastSpeedCut0, LastSpeedCut1>>
    BY <1>6 DEF Out, statics, TypeOK, AtOK, Locals
  <2> QED
    BY <1>1, <1>2, <1>3, <2>1 DEF c1Bar, dutyBar, Shifted, Pending, Tasks, PidPlaces
<1>7. CASE Last(t)
  <2>1. /\ at[t] = "last" /\ at'[t] = "result" /\ SpeedLastPWMK' = loc[t].out
        /\ UNCHANGED <<LastSpeedCut0, LastSpeedCut1>>
    BY <1>7 DEF Last, statics, TypeOK, AtOK
  <2> QED
    BY <1>1, <1>2, <1>3, <2>1 DEF c1Bar, dutyBar, Shifted, Pending, Tasks, PidPlaces
<1>8. CASE Return(t)
  <2>1. /\ at[t] = "result" /\ at'[t] \in {"driveCH3", "on", "stopCH3"}
        /\ UNCHANGED <<SpeedLastPWMK, LastSpeedCut0, LastSpeedCut1>>
    BY <1>8 DEF Return, statics, TypeOK, AtOK
  <2> QED
    BY <1>1, <1>2, <1>3, <2>1 DEF c1Bar, dutyBar, Shifted, Tasks, PidPlaces
<1> QED
  BY <1>4, <1>5, <1>6, <1>7, <1>8 DEF speedPID

\* ... and so are the loops of the two tasks.
LEMMA LoopStutters ==
  ASSUME TypeOK,
         Tick \/ ReadCount \/ TestSwitch \/ DriveCH3 \/ DriveCH2 \/ Keys
           \/ BrakeCH3 \/ BrakeCH2 \/ SwitchOn \/ SwitchOff \/ StopCH3 \/ StopCH2
  PROVE  UNCHANGED <<c1Bar, LastSpeedCut2, dutyBar>>
<1> USE DEF Step, UiStep
<1>1. UNCHANGED <<loc, SpeedLastPWMK, LastSpeedCut0, LastSpeedCut1, LastSpeedCut2>>
  BY DEF Tick, ReadCount, TestSwitch, DriveCH3, DriveCH2, Keys, MenuKey, RunKey,
         BrakeCH3, BrakeCH2, SwitchOn, SwitchOff, StopCH3, StopCH2, statics
<1>2. \A t \in Tasks : at'[t] = at[t] \/ (at[t] \notin PidPlaces /\ at'[t] \notin PidPlaces)
  BY DEF Tick, ReadCount, TestSwitch, DriveCH3, DriveCH2, Keys, MenuKey, RunKey,
         BrakeCH3, BrakeCH2, SwitchOn, SwitchOff, StopCH3, StopCH2, PidPlaces, TypeOK, AtOK, Tasks
<1>3. \A t \in Tasks : (at'[t] = "shift1" <=> at[t] = "shift1") /\ (Shifted(t)' <=> Shifted(t))
                       /\ (Shifted(t) => at'[t] = at[t])
  BY <1>2 DEF Shifted, PidPlaces
<1>4. \A t \in Tasks : OutOf(t)' = OutOf(t)
  BY <1>1 DEF OutOf
<1> QED
  BY <1>1, <1>3, <1>4 DEF c1Bar, dutyBar, Pending, Tasks

\* If key 3 does not repeat, speedPID() with its statics implements a controller
\* whose calls are atomic.
THEOREM DriveImplementsController == Spec => ImplementsController
<1>1. Init => C!CInit
  BY DEF Init, C!CInit, Sole, c1Bar, dutyBar, Shifted, Tasks
<1>2. AtomicInv /\ [Next]_vars => [C!CNext]_C!cvars
  <2> SUFFICES ASSUME AtomicInv, [Next]_vars PROVE C!CNext \/ UNCHANGED C!cvars
    BY DEF C!cvars
  <2>1. TypeOK /\ repeats' = repeats
    BY RigidRepeats DEF AtomicInv
  <2>2. UNCHANGED <<c1Bar, LastSpeedCut2, dutyBar>> => UNCHANGED C!cvars
    BY <2>1 DEF C!cvars, Sole
  <2>6. CASE repeats = 1
    BY <2>1, <2>6 DEF C!cvars, Sole
  <2>7. repeats = 0 => Whole
    BY DEF AtomicInv, Whole
  <2>3. ASSUME NEW t \in Tasks, speedPID(t) PROVE C!CNext \/ UNCHANGED C!cvars
    <3>1. CASE repeats = 0
      BY <2>1, <2>2, <2>3, <2>7, <3>1, ShiftUpdates, StatementStutters
    <3> QED
      BY <2>1, <2>6, <3>1 DEF TypeOK
  <2>4. CASE Next /\ ~ speedPID("SPEED") /\ ~ speedPID("UI")
    BY <2>1, <2>2, <2>4, LoopStutters DEF Next, SpeedTask, UiTask
  <2>5. CASE UNCHANGED vars
    BY <2>5 DEF vars, statics, C!cvars, Sole, c1Bar, dutyBar, Shifted, Pending, OutOf
  <2> QED
    BY <2>3, <2>4, <2>5 DEF Tasks
<1> QED
  BY <1>1, <1>2, CallsAreWhole, PTL DEF Spec, ImplementsController, C!CSpec

(***************************************************************************)
(* What makes FollowsStandingError true: each call moves the duty.         *)
(***************************************************************************)
\* No product of a gain changes the sign of an error.
LEMMA ProductSign ==
  ASSUME NEW k \in Nat, NEW d \in Int
  PROVE  (d >= 0 => Product(k, d) >= 0) /\ (d <= 0 => Product(k, d) <= 0)
<1>1. \A x \in Nat : k * x \in Nat /\ (k * x) \div 10 \in Nat
  OBVIOUS
<1>2. d <= 0 => -d \in Nat
  OBVIOUS
<1>3. CASE d >= 0
  BY <1>1, <1>3 DEF Product
<1>4. CASE d < 0
  BY <1>1, <1>2, <1>4 DEF Product
<1>5. k * 0 = 0 /\ 0 \div 10 = 0
  OBVIOUS
<1> QED
  BY <1>3, <1>4, <1>5 DEF Product

\* A term of a difference that has vanished is nothing.
LEMMA NoDifference == ASSUME NEW k \in Nat PROVE Term(k, Int16(0)) = 0
<1>1. 0 \in Int16s
  BY SpeedPidAssumption DEF Int16s
<1>2. Int16(0) = 0
  BY <1>1, Int16Keeps
<1>3. Product(k, 0) = 0
  BY ProductSign, ProductType
<1> QED
  BY <1>2, <1>3, SpeedPidAssumption DEF Term, Clamp

\* A count seen three times leaves the proportional term alone, which has the sign of the
\* error.
LEMMA DutyMoves ==
  ASSUME NEW a \in Duties, NEW n \in Counts, Fits(n)
  PROVE  IF n < Target THEN DutyAfter(a, n, n, n) > a \/ DutyAfter(a, n, n, n) = KOUPLUSMAX
         ELSE DutyAfter(a, n, n, n) < a \/ DutyAfter(a, n, n, n) = 0
<1> DEFINE e == Target - n
<1>1. /\ n \in Int /\ Target \in Int /\ e \in Int
      /\ KP \in Nat /\ KI \in Nat /\ KD \in Nat
      /\ KWPLUSMAX \in Nat \ {0} /\ KOUPLUSMAX \in Nat
  BY SpeedPidAssumption
<1>2. TermI(n, n) = 0 /\ TermD(n, n, n) = 0
  <2>1. n - n = 0 /\ n + n - 2 * n = 0
    BY <1>1
  <2> QED
    BY <1>1, <2>1, NoDifference DEF TermI, TermD
<1>3. Int16(e) = e /\ Int16(Product(KP, e)) = Product(KP, e) /\ Product(KP, e) # 0
  BY Int16Keeps DEF Fits
<1>4. TermP(n) = Clamp(Product(KP, e), -KWPLUSMAX, KWPLUSMAX)
  BY <1>3 DEF TermP, Term
<1>5. Product(KP, e) \in Int /\ (e >= 0 => Product(KP, e) >= 0) /\ (e <= 0 => Product(KP, e) <= 0)
  BY <1>1, ProductType, ProductSign
<1> DEFINE p == TermP(n)
<1>6. p \in Steps /\ (n < Target => p > 0) /\ (~ (n < Target) => p < 0)
  BY <1>1, <1>3, <1>4, <1>5 DEF Clamp, Steps
<1> HIDE DEF p, e
<1>7. StepOf(p, 0, 0) = p
  BY <1>1, <1>6 DEF StepOf, Clamp, Steps
<1>8. DutyAfter(a, n, n, n) = Clamp(a + p, 0, KOUPLUSMAX)
  BY <1>2, <1>7 DEF DutyAfter, Output, p
<1> QED
  BY <1>1, <1>6, <1>8 DEF Clamp, Steps, Duties

\* While the calls are whole, what the controller remembers of the duty is a duty.
LEMMA BarType == ASSUME AtomicInv PROVE dutyBar \in Duties
<1>1. TypeOK
  BY DEF AtomicInv
<1>2. ASSUME NEW t \in Tasks PROVE Pending(t) \in Duties
  <2>1. loc[t].out \in Duties /\ loc[t].p \in Steps /\ loc[t].i \in Steps /\ loc[t].d \in Steps
    BY <1>1 DEF TypeOK, Locals
  <2>2. OutOf(t) \in Duties
    BY <1>1, <2>1, OutputMoves DEF OutOf, TypeOK
  <2> QED
    BY <2>1, <2>2 DEF Pending
<1> QED
  BY <1>1, <1>2 DEF dutyBar, TypeOK, Tasks

\* If key 3 does not repeat, a call by either task that finds the same count for the third
\* time gives the motor more power if it is too slow and less if it is too fast, until
\* there is no more to give or to take.
THEOREM StandingErrorMoves == Spec => C!Corrects
<1>1. AtomicInv =>
        [\A n \in Counts :
           Sole(c1Bar) = n /\ Sole(LastSpeedCut2) = n /\ C!Fits(n) /\ C!Update(n) =>
             IF n < Target THEN Sole(dutyBar)' > Sole(dutyBar) \/ Sole(dutyBar)' = KOUPLUSMAX
             ELSE Sole(dutyBar)' < Sole(dutyBar) \/ Sole(dutyBar)' = 0]_(C!cvars)
  <2> SUFFICES ASSUME AtomicInv, NEW n \in Counts, Sole(c1Bar) = n, Sole(LastSpeedCut2) = n,
                      C!Fits(n), C!Update(n)
               PROVE  IF n < Target THEN Sole(dutyBar)' > Sole(dutyBar) \/ Sole(dutyBar)' = KOUPLUSMAX
                      ELSE Sole(dutyBar)' < Sole(dutyBar) \/ Sole(dutyBar)' = 0
    OBVIOUS
  <2>1. Fits(n)
    BY DEF C!Fits, C!Int16s, C!Product, Fits, Int16s, Product
  <2>2. PICK a \in Duties : a = Sole(dutyBar)
    BY BarType, SpeedPidAssumption DEF Sole, Duties
  <2>3. Sole(dutyBar)' = DutyAfter(a, n, n, n)
    BY <2>2, SameArithmetic DEF C!Update
  <2> QED
    BY <2>1, <2>2, <2>3, DutyMoves
<1> QED
  BY <1>1, CallsAreWhole, PTL DEF Spec, C!Corrects
=============================================================================
