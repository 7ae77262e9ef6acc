--------------------------- MODULE SteeringProofs ---------------------------
(***************************************************************************)
(* The safety and the liveness of Steering, for every set of sample        *)
(* values.                                                                 *)
(***************************************************************************)
EXTENDS Steering, TLAPS

\* The filter of ad() moves four samples to four samples, and averages them to a
\* value from 0.
LEMMA ShiftType ==
  ASSUME NEW avg \in [1..4 -> Nat], NEW x \in Nat
  PROVE  /\ Shift(avg, x) \in [1..4 -> Nat]
         /\ Average(avg) \in Nat
<1>1. /\ avg[1] \in Nat /\ avg[2] \in Nat /\ avg[3] \in Nat /\ avg[4] \in Nat
  OBVIOUS
<1>2. Shift(avg, x) \in [1..4 -> Nat]
  BY <1>1 DEF Shift
<1>3. Average(avg) \in Nat
  BY <1>1 DEF Average
<1> QED
  BY <1>2, <1>3

\* The filter of ad() forgives one poor sample among four, the newest included.
LEMMA FilterForgives ==
  ASSUME NEW avg \in [1..4 -> Nat], Average(avg) < 60
  PROVE  \E i, j \in 1..4 : i # j /\ avg[i] < 200 /\ avg[j] < 200
<1> USE DEF Average
<1>1. /\ avg[1] \in Nat /\ avg[2] \in Nat /\ avg[3] \in Nat /\ avg[4] \in Nat
  OBVIOUS
<1>2. CASE avg[1] >= 200
  <2>1. avg[2] < 200 \/ avg[3] < 200
    BY <1>1, <1>2
  <2>2. (avg[2] < 200 /\ avg[3] < 200) \/ avg[4] < 200
    BY <1>1, <1>2
  <2> QED
    BY <1>1, <2>1, <2>2
<1>3. CASE avg[1] < 200
  <2>1. avg[2] < 200 \/ avg[3] < 200 \/ avg[4] < 200
    BY <1>1, <1>3
  <2> QED
    BY <1>1, <1>3, <2>1
<1> QED
  BY <1>1, <1>2, <1>3

\* The state before the first round satisfies the invariant.
LEMMA InitInv == Init => SteeringInv
<1> SUFFICES ASSUME Init PROVE SteeringInv
  OBVIOUS
<1>1. <<0, 0, 0, 0>> \in [1..4 -> Nat]
  OBVIOUS
<1>2. Average(<<0, 0, 0, 0>>) = 0
  BY DEF Average
<1>3. {Start, Zero} \subseteq [kind : {"start", "zero", "left", "right", "pid"}, of : Int]
  BY DEF Start, Zero
<1> QED
  BY <1>1, <1>2, <1>3 DEF Init, SteeringInv, TypeOK, ServoFollowsLatch

\* No step of a task, and no tick, breaks the invariant.
LEMMA StepInv == SteeringInv /\ [Next]_vars => SteeringInv'
<1> SUFFICES ASSUME SteeringInv, [Next]_vars PROVE SteeringInv'
  OBVIOUS
<1> USE DEF SteeringInv, TypeOK, ServoFollowsLatch
<1>1. CASE Tick
  BY <1>1 DEF Tick, adVars, turnVars
<1>2. ASSUME NEW x \in Samples, NEW y \in Samples, Sample(x, y) PROVE SteeringInv'
  <2>1. x \in Nat /\ y \in Nat
    BY SamplesAssumption
  <2>2. /\ avg_ad3' \in [1..4 -> Nat] /\ ad3' = Average(avg_ad3')
        /\ avg_ad4' \in [1..4 -> Nat] /\ ad4' = Average(avg_ad4')
    BY <1>2, <2>1, ShiftType DEF Sample
  <2>3. ad3' \in Nat /\ ad4' \in Nat
    BY <2>2, ShiftType
  <2>4. fifth3' \in Nat
    BY <1>2 DEF Sample
  <2> QED
    BY <1>2, <2>2, <2>3, <2>4 DEF Sample, turnVars
<1>3. CASE Normalise
  <2>1. sum_diff' \in Int
    BY <1>3 DEF Normalise, Normalised
  <2> QED
    BY <1>3, <2>1 DEF Normalise, turnVars
<1>4. CASE Difference
  BY <1>4 DEF Difference, turnVars
<1>5. CASE Steer
  <2>1. resultturn' \in [kind : {"start", "zero", "left", "right", "pid"}, of : Int]
    BY <1>5 DEF Steer, streePID
  <2> QED
    BY <1>5, <2>1 DEF Steer, TurnStep, adVars
<1>6. CASE Release
  BY <1>6 DEF Release, TurnStep, adVars
<1>7. CASE LoseLeft
  BY <1>7 DEF LoseLeft, TurnStep, adVars
<1>8. CASE LoseRight
  BY <1>8 DEF LoseRight, TurnStep, adVars
<1>9. CASE DriveServo
  <2>1. {Left, Right} \subseteq [kind : {"start", "zero", "left", "right", "pid"}, of : Int]
    BY DEF Left, Right
  <2>2. resultturn' \in {Left, Right, resultturn}
    BY <1>9 DEF DriveServo
  <2>3. (spe = 1 => servo' = Left) /\ (spe = 2 => servo' = Right)
    BY <1>9 DEF DriveServo
  <2>4. servo' = resultturn'
    BY <1>9 DEF DriveServo
  <2> QED
    BY <1>9, <2>1, <2>2, <2>3, <2>4 DEF DriveServo, TurnStep, adVars
<1>10. CASE UNCHANGED vars
  BY <1>10 DEF vars, adVars, turnVars
<1> QED
  BY <1>1, <1>2, <1>3, <1>4, <1>5, <1>6, <1>7, <1>8, <1>9, <1>10
  DEF Next, AdStep, CtrlStep

\* The invariant holds at every moment.
THEOREM SteeringSafe == Spec => []SteeringInv
<1> QED
  BY InitInv, StepInv, PTL DEF Spec

\* The variables of ad() and ctrl() keep their ranges, for any samples.
THEOREM SteeringTypes == Spec => []TypeOK
<1>1. SteeringInv => TypeOK
  BY DEF SteeringInv
<1> QED
  BY <1>1, SteeringSafe, PTL

\* A lost line has the servo hard over when a round of ctrl() ends.
THEOREM ServoObeysLatch == Spec => []ServoFollowsLatch
<1>1. SteeringInv => ServoFollowsLatch
  BY DEF SteeringInv
<1> QED
  BY <1>1, SteeringSafe, PTL

\* ctrl() never computes a duty from the value line 236 of app.c leaves in sum_diff.
THEOREM WholeDifference == Spec => SteersByWholeDifference
<1>1. SteeringInv /\ [Next]_vars =>
        [resultturn' # resultturn /\ resultturn'.kind = "pid" => resultturn'.of = ad3 - ad4]_vars
  <2> SUFFICES ASSUME SteeringInv, Next, resultturn' # resultturn, resultturn'.kind = "pid"
               PROVE  resultturn'.of = ad3 - ad4
    OBVIOUS
  <2>1. CASE Steer
    <3>1. adAt = "delay"
      BY <2>1 DEF Steer, TurnStep, TurnRuns, APP_AD_PRIO, APP_TURN_PRIO, SteeringInv, TypeOK
    <3> QED
      BY <2>1, <3>1 DEF Steer, streePID, SteeringInv
  <2>2. CASE DriveServo
    BY <2>2 DEF DriveServo, Left, Right, SteeringInv, TypeOK
  <2>3. CASE ~ Steer /\ ~ DriveServo
    BY <2>3 DEF Next, Tick, AdStep, Sample, Normalise, Difference, CtrlStep,
                Release, LoseLeft, LoseRight, turnVars
  <2> QED
    BY <2>1, <2>2, <2>3
<1> QED
  BY <1>1, SteeringSafe, PTL DEF Spec, SteersByWholeDifference

\* One bad conversion never latches a lost line, whatever values a conversion takes.
THEOREM OutlierForgiven == Spec => OutlierIsNoLoss
<1> DEFINE TwoPoor(avg) == \E i, j \in 1..4 : i # j /\ avg[i] < 200 /\ avg[j] < 200
<1>1. SteeringInv /\ [Next]_vars =>
        [/\ spe = 0 /\ spe' = 1 => TwoPoor(avg_ad3)
         /\ spe = 0 /\ spe' = 2 => TwoPoor(avg_ad4)]_vars
  <2> SUFFICES ASSUME SteeringInv, Next, spe = 0, spe' # 0
               PROVE  /\ spe' = 1 => TwoPoor(avg_ad3)
                      /\ spe' = 2 => TwoPoor(avg_ad4)
    OBVIOUS
  <2>1. CASE LoseLeft
    <3>1. spe' = 1 /\ Average(avg_ad3) < 60
      BY <2>1 DEF LoseLeft, SteeringInv
    <3>2. avg_ad3 \in [1..4 -> Nat]
      BY DEF SteeringInv, TypeOK
    <3> QED
      BY <3>1, <3>2, FilterForgives
  <2>2. CASE LoseRight
    <3>1. spe' = 2 /\ Average(avg_ad4) < 60
      BY <2>2 DEF LoseRight, SteeringInv
    <3>2. avg_ad4 \in [1..4 -> Nat]
      BY DEF SteeringInv, TypeOK
    <3> QED
      BY <3>1, <3>2, FilterForgives
  <2>3. CASE ~ LoseLeft /\ ~ LoseRight
    BY <2>3 DEF Next, Tick, AdStep, Sample, Normalise, Difference, CtrlStep,
                Steer, Release, DriveServo, turnVars
  <2> QED
    BY <2>1, <2>2, <2>3
<1> QED
  BY <1>1, SteeringSafe, PTL DEF Spec, OutlierIsNoLoss

(***************************************************************************)
(* Liveness.  Each property says that something bad does not go on for     *)
(* ever.  While it goes on, a round of ctrl() that has begun cannot end:   *)
(* Pending holds from the tick that starts the round on.  But rounds do    *)
(* end again and again.                                                    *)
(***************************************************************************)
\* A round that is over stays so until a tick starts the next.
Over == turnAt = "delay"
Begun == turnAt = "steer"

LEMMA OverUntilTick ==
  /\ Over /\ [Next]_vars => Over' \/ Begun'
  /\ Over /\ <<Tick>>_vars => Begun'
<1>1. Over /\ [Next]_vars => Over' \/ Begun'
  BY DEF Over, Begun, Next, Tick, AdStep, Sample, Normalise, Difference, CtrlStep, Steer, Release,
         LoseLeft, LoseRight, DriveServo, TurnStep, vars
<1>2. Over /\ <<Tick>>_vars => Begun'
  BY DEF Over, Begun, Tick
<1> QED
  BY <1>1, <1>2

\* A coil that goes on seeing nothing is noticed by the next round.
LEMMA LossIsNoticed == FairSpec => ((ad3 < 60 /\ spe = 0) ~> (ad3 >= 60 \/ spe # 0))
<1> DEFINE Bad == ad3 < 60 /\ spe = 0
           Pending == turnAt \in {"steer", "release", "left"}
           Mended == ad3 >= 60 \/ spe # 0
<1>1. Bad /\ Pending /\ [Next]_vars => Pending' \/ ~ Bad'
  <2> SUFFICES ASSUME Bad, Pending, [Next]_vars, Bad' PROVE Pending'
    OBVIOUS
  <2>1. CASE LoseLeft
    BY <2>1 DEF LoseLeft
  <2>2. CASE ~ LoseLeft
    BY <2>2 DEF Next, Tick, AdStep, Sample, Normalise, Difference, CtrlStep, Steer, Release,
                LoseRight, DriveServo, TurnStep, vars
  <2> QED
    BY <2>1, <2>2
<1>2. Begun => Pending
  BY DEF Begun
<1>3. adAt = "delay" /\ turnAt = "delay" => Over /\ ~ Pending
  BY DEF Over
<1>4. SteeringInv /\ ~ Bad => Mended
  BY DEF SteeringInv, TypeOK
<1>5. FairSpec => (Bad ~> Mended)
  <2> HIDE DEF Bad, Pending, Mended
  <2> QED
    BY <1>1, <1>2, <1>3, <1>4, OverUntilTick, SteeringSafe, PTL DEF FairSpec, Spec
<1> QED
  BY <1>5

\* A line that both coils go on seeing well ends the loss in the next round.
LEMMA LossEnds ==
  FairSpec => ((ad3 >= 200 /\ ad4 >= 200 /\ spe # 0) ~> (ad3 < 200 \/ ad4 < 200 \/ spe = 0))
<1> DEFINE Bad == ad3 >= 200 /\ ad4 >= 200 /\ spe # 0
           Pending == turnAt \in {"steer", "release"}
           Mended == ad3 < 200 \/ ad4 < 200 \/ spe = 0
<1>1. Bad /\ Pending /\ [Next]_vars => Pending' \/ ~ Bad'
  <2> SUFFICES ASSUME Bad, Pending, [Next]_vars, Bad' PROVE Pending'
    OBVIOUS
  <2>1. CASE Release
    BY <2>1 DEF Release
  <2>2. CASE ~ Release
    BY <2>2 DEF Next, Tick, AdStep, Sample, Normalise, Difference, CtrlStep, Steer,
                LoseLeft, LoseRight, DriveServo, TurnStep, vars
  <2> QED
    BY <2>1, <2>2
<1>2. Begun => Pending
  BY DEF Begun
<1>3. adAt = "delay" /\ turnAt = "delay" => Over /\ ~ Pending
  BY DEF Over
<1>4. SteeringInv /\ ~ Bad => Mended
  BY DEF SteeringInv, TypeOK
<1>5. FairSpec => (Bad ~> Mended)
  <2> HIDE DEF Bad, Pending, Mended
  <2> QED
    BY <1>1, <1>2, <1>3, <1>4, OverUntilTick, SteeringSafe, PTL DEF FairSpec, Spec
<1> QED
  BY <1>5

\* The latch follows the line, both ways, whatever AD samples between two tests of ctrl().
THEOREM LineFollowed == FairSpec => LineIsFollowed
BY LossIsNoticed, LossEnds, PTL DEF LineIsFollowed

\* A turn that is left over from a lost line, as AD may cause between two tests of
\* ctrl(), lasts until the next round computes a duty, unless that round finds no line.
THEOREM StaleTurnMended == FairSpec => StaleTurnHeals
<1> DEFINE Bad == spe = 0 /\ servo \in {Left, Right, Zero} /\ ad3 >= 50 /\ ad4 >= 50
           Pending == \/ turnAt = "steer"
                      \/ turnAt \in {"release", "left", "right", "servo"} /\ resultturn.kind = "pid"
           Stale == turnAt = "delay" /\ spe = 0 /\ servo \in {Left, Right, Zero}
           Mended == spe # 0 \/ servo \notin {Left, Right, Zero} \/ ad3 < 50 \/ ad4 < 50
<1>1. Bad /\ Pending /\ [Next]_vars => Pending' \/ ~ Bad'
  <2> SUFFICES ASSUME Bad, Pending, [Next]_vars, Bad' PROVE Pending'
    OBVIOUS
  <2>1. CASE Steer
    BY <2>1 DEF Steer, TurnStep, streePID
  <2>2. CASE Release \/ LoseLeft \/ LoseRight
    BY <2>2 DEF Release, LoseLeft, LoseRight, TurnStep
  <2>3. CASE DriveServo
    <3>1. servo' = resultturn /\ resultturn.kind = "pid"
      <4>1. servo' = resultturn' /\ turnAt = "servo"
        BY <2>3 DEF DriveServo, TurnStep
      <4>2. resultturn' = CASE spe = 1 -> Left [] spe = 2 -> Right [] OTHER -> resultturn
        BY <2>3 DEF DriveServo
      <4>3. spe # 1 /\ spe # 2
        OBVIOUS
      <4> QED
        BY <4>1, <4>2, <4>3
    <3>2. servo' \notin {Left, Right, Zero}
      BY <3>1 DEF Left, Right, Zero
    <3> QED
      BY <3>2
  <2>4. CASE Tick \/ AdStep \/ UNCHANGED vars
    BY <2>4 DEF Tick, AdStep, Sample, Normalise, Difference, turnVars, vars
  <2> QED
    BY <2>1, <2>2, <2>3, <2>4 DEF Next, CtrlStep
<1>2. Begun => Pending
  BY DEF Begun
<1>3. adAt = "delay" /\ turnAt = "delay" => Over /\ ~ Pending
  BY DEF Over
<1>4. SteeringInv /\ ~ Bad => Mended
  BY DEF SteeringInv, TypeOK
<1>5. FairSpec => (Stale ~> Mended)
  <2> HIDE DEF Bad, Pending, Stale, Mended
  <2> QED
    BY <1>1, <1>2, <1>3, <1>4, OverUntilTick, SteeringSafe, PTL DEF FairSpec, Spec
<1> QED
  BY <1>5 DEF StaleTurnHeals
=============================================================================
