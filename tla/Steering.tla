------------------------------ MODULE Steering ------------------------------
(***************************************************************************)
(* The steering of the car: the AD task samples the outer coils and keeps  *)
(* their averages ad3 and ad4 and the difference sum_diff (ad() of ad.c,   *)
(* AdStartTask() of app.c); the TURN task turns them into the duty of the  *)
(* servo and latches the side on which the line was lost (ctrl() of        *)
(* ctrl.c).  Both are released by the tick; AD is the more urgent one and  *)
(* may run between any two statements of TURN that read what it writes.    *)
(***************************************************************************)
EXTENDS Integers, Sequences

CONSTANT Samples   \* the values a conversion may give

ASSUME SamplesAssumption == Samples \subseteq Nat

\* Mutant: AD is the less urgent one.
AdLast == 8

APP_AD_PRIO == 5
APP_TURN_PRIO == 7

VARIABLES adAt, turnAt,  \* where each task stands, "delay" once its round is over
          avg_ad3, avg_ad4,   \* the last four samples of each coil, newest first
          ad3, ad4,      \* their averages
          sum_diff,      \* what TURN steers by
          spe,           \* side the line was lost on: 0 none, 1 left, 2 right
          resultturn,    \* duty computed for the servo
          servo,         \* duty the servo has
          fifth3         \* auxiliary: the sample of coil 3 that avg_ad3 dropped last

adVars   == <<avg_ad3, avg_ad4, ad3, ad4, sum_diff, fifth3>>
turnVars == <<spe, resultturn, servo>>
vars == <<adAt, turnAt, adVars, turnVars>>

(***************************************************************************)
(* A duty is the fixed one of a lost line, or what streePID() makes of a   *)
(* difference and of the one before, named here by the difference alone.   *)
(* The duty speedInit() sets is neither, nor is the 0 that resultturn, a   *)
(* static, starts from.                                                    *)
(***************************************************************************)
Start == [kind |-> "start", of |-> 0]
Zero  == [kind |-> "zero",  of |-> 0]
Left  == [kind |-> "left",  of |-> 0]
Right == [kind |-> "right", of |-> 0]
streePID(d) == [kind |-> "pid", of |-> d]

\* The value line 236 of app.c leaves in sum_diff until line 252: the difference
\* of the normalised coils, on a scale of its own.
Normalised(a, b) == 1000 * (a - b) + 1

Init ==
  /\ adAt = "sample" /\ turnAt = "steer"
  /\ avg_ad3 = <<0, 0, 0, 0>> /\ avg_ad4 = <<0, 0, 0, 0>>
  /\ ad3 = 0 /\ ad4 = 0 /\ sum_diff = 0
  /\ spe = 0 /\ resultturn = Zero /\ servo = Start
  /\ fifth3 = 0

(***************************************************************************)
(* The scheduler: strict preemption among the two.                         *)
(***************************************************************************)
AdRuns   == adAt # "delay" /\ (turnAt # "delay" => APP_AD_PRIO < APP_TURN_PRIO)
TurnRuns == turnAt # "delay" /\ (adAt # "delay" => APP_TURN_PRIO < APP_AD_PRIO)

\* Delays of 5 ms are one tick, so that each tick releases both tasks.
Tick ==
  /\ adAt'   = IF adAt = "delay" THEN "sample" ELSE adAt
  /\ turnAt' = IF turnAt = "delay" THEN "steer" ELSE turnAt
  /\ UNCHANGED <<adVars, turnVars>>

(***************************************************************************)
(* AdStartTask().                                                          *)
(***************************************************************************)
\* avg[4..2] move down one place before avg[1] takes the new sample avg[0], which
\* stays: the newest sample is in the sum twice.
Shift(avg, x) == <<x, avg[1], avg[2], avg[3]>>
\* Mutant: no filter.
Newest(avg)   == avg[1]

Average(avg)  == (avg[4] + avg[3] + avg[2] + avg[1] + avg[1]) \div 5

\* ad()
Sample(x, y) ==
  /\ AdRuns /\ adAt = "sample"
  /\ avg_ad3' = Shift(avg_ad3, x) /\ ad3' = Average(avg_ad3')
  /\ avg_ad4' = Shift(avg_ad4, y) /\ ad4' = Average(avg_ad4')
  /\ fifth3' = avg_ad3[4]
  /\ adAt' = "normalise"
  /\ UNCHANGED <<turnAt, sum_diff, turnVars>>

Normalise ==
  /\ AdRuns /\ adAt = "normalise"
  /\ sum_diff' = Normalised(ad3, ad4)
  /\ adAt' = "difference"
  /\ UNCHANGED <<turnAt, avg_ad3, avg_ad4, ad3, ad4, fifth3, turnVars>>

Difference ==
  /\ AdRuns /\ adAt = "difference"
  /\ sum_diff' = ad3 - ad4
  /\ adAt' = "delay"
  /\ UNCHANGED <<turnAt, avg_ad3, avg_ad4, ad3, ad4, fifth3, turnVars>>

(***************************************************************************)
(* ctrl(), one action per test of the coils.                               *)
(***************************************************************************)
TurnStep(from, to) == TurnRuns /\ turnAt = from /\ turnAt' = to /\ UNCHANGED <<adAt, adVars>>

\* Mutant: a difference of 0 is not steered by.
SteerIfDifferent ==
  /\ TurnStep("steer", "release")
  /\ resultturn' = IF ad3 >= 50 /\ ad4 >= 50 /\ ad3 # ad4 THEN streePID(sum_diff) ELSE resultturn
  /\ UNCHANGED <<spe, servo>>

\* Both coils see the line: steer by the difference.
Steer ==
  /\ TurnStep("steer", "release")
  /\ resultturn' = IF ad3 >= 50 /\ ad4 >= 50 THEN streePID(sum_diff) ELSE resultturn
  /\ UNCHANGED <<spe, servo>>

\* Both coils see it well: the line is no longer lost.
Release ==
  /\ TurnStep("release", "left")
  /\ spe' = IF ad3 >= 200 /\ ad4 >= 200 THEN 0 ELSE spe
  /\ UNCHANGED <<resultturn, servo>>

\* Mutant: the line is lost only if both coils miss it.
LoseBoth ==
  /\ TurnStep("left", "right")
  /\ spe' = IF ad3 < 60 /\ ad4 < 60 /\ spe = 0 THEN 1 ELSE spe
  /\ UNCHANGED <<resultturn, servo>>

\* A coil that sees next to nothing has lost the line, unless it is lost already.
LoseLeft ==
  /\ TurnStep("left", "right")
  /\ spe' = IF ad3 < 60 /\ spe = 0 THEN 1 ELSE spe
  /\ UNCHANGED <<resultturn, servo>>

LoseRight ==
  /\ TurnStep("right", "servo")
  /\ spe' = IF ad4 < 60 /\ spe = 0 THEN 2 ELSE spe
  /\ UNCHANGED <<resultturn, servo>>

\* Mutant: the servo is written before the override.
DriveServoFirst ==
  /\ TurnStep("servo", "delay")
  /\ resultturn' = CASE spe = 1 -> Left [] spe = 2 -> Right [] OTHER -> resultturn
  /\ servo' = resultturn
  /\ UNCHANGED spe

\* A lost line overrides what was computed.
DriveServo ==
  /\ TurnStep("servo", "delay")
  /\ resultturn' = CASE spe = 1 -> Left [] spe = 2 -> Right [] OTHER -> resultturn
  /\ servo' = resultturn'
  /\ UNCHANGED spe

AdStep == (\E x, y \in Samples : Sample(x, y)) \/ Normalise \/ Difference

CtrlStep == Steer \/ Release \/ LoseLeft \/ LoseRight \/ DriveServo

Next == Tick \/ AdStep \/ CtrlStep

Spec == Init /\ [][Next]_vars

\* The timer does not stop, and both rounds fit between two ticks again and again.  (A
\* tick is possible at any time, so the first is weak fairness of Tick.)
FairSpec == Spec /\ []<><<Tick>>_vars /\ []<>(adAt = "delay" /\ turnAt = "delay")

(***************************************************************************)
(* Properties.                                                             *)
(***************************************************************************)
TypeOK ==
  /\ adAt \in {"sample", "normalise", "difference", "delay"}
  /\ turnAt \in {"steer", "release", "left", "right", "servo", "delay"}
  /\ avg_ad3 \in [1..4 -> Nat] /\ avg_ad4 \in [1..4 -> Nat]
  /\ ad3 \in Nat /\ ad4 \in Nat /\ sum_diff \in Int
  /\ spe \in 0..2
  /\ {resultturn, servo} \subseteq [kind : {"start", "zero", "left", "right", "pid"}, of : Int]
  /\ fifth3 \in Nat

\* TURN never steers by the half-made difference that AD leaves in sum_diff between
\* lines 236 and 252 of app.c, nor by one that is not of the averages it has tested.
SteersByWholeDifference ==
  [][resultturn' # resultturn /\ resultturn'.kind = "pid" => resultturn'.of = ad3 - ad4]_vars

\* One bad conversion among four never loses the line: the latch is set only if two of
\* the last four samples of that coil were poor, although the newest counts twice.
OutlierIsNoLoss ==
  [][/\ spe = 0 /\ spe' = 1 => \E i, j \in 1..4 : i # j /\ avg_ad3[i] < 200 /\ avg_ad3[j] < 200
     /\ spe = 0 /\ spe' = 2 => \E i, j \in 1..4 : i # j /\ avg_ad4[i] < 200 /\ avg_ad4[j] < 200]_vars

\* When a round of ctrl() is over the servo is hard over to the side the line is lost
\* on, whatever AD did to the coils between the tests of that round.  The converse
\* does not hold: see StaleTurnHeals.
ServoFollowsLatch ==
  turnAt = "delay" =>
    /\ spe = 1 => servo = Left
    /\ spe = 2 => servo = Right

\* AD may bring the line back between Steer and Release: the latch is cleared and the
\* servo gets a resultturn of an earlier round, hard over or, in the first round, 0.
\* The next rounds mend it.
StaleTurnHeals ==
  (turnAt = "delay" /\ spe = 0 /\ servo \in {Left, Right, Zero})
    ~> (spe # 0 \/ servo \notin {Left, Right, Zero} \/ ad3 < 50 \/ ad4 < 50)

\* A coil that goes on seeing nothing is noticed, and a line that is back too.
LineIsFollowed ==
  /\ (ad3 < 60 /\ spe = 0) ~> (ad3 >= 60 \/ spe # 0)
  /\ (ad3 >= 200 /\ ad4 >= 200 /\ spe # 0) ~> (ad3 < 200 \/ ad4 < 200 \/ spe = 0)

\* The inductive invariant: the averages are those of the samples at any time, and the
\* difference is that of the averages except inside a round of AD.
SteeringInv ==
  /\ TypeOK
  /\ ad3 = Average(avg_ad3) /\ ad4 = Average(avg_ad4)
  /\ adAt \in {"sample", "delay"} => sum_diff = ad3 - ad4
  /\ ServoFollowsLatch

\* What ad.c:93 says of ad(): 我将数据做5次平均, "I average the data of 5 times".
AverageOfFive ==
  ad3 = (avg_ad3[1] + avg_ad3[2] + avg_ad3[3] + avg_ad3[4] + fifth3) \div 5
=============================================================================
