------------------------------- MODULE Servo -------------------------------
(***************************************************************************)
(* The duties of the motor bridge and of the servo, from the numbers of    *)
(* ctrl.c to the registers of the timers: speedInit() of pwm.c sets up the *)
(* three channels with FTM_PWM_QuickInit() of ftm.c, streePID() and the    *)
(* end of ctrl() of ctrl.c compute a duty per round, FTM_PWM_ChangeDuty()  *)
(* writes it.  The kernel does not run during speedInit(); ctrl() is run   *)
(* by one task, TURN.                                                      *)
(***************************************************************************)
EXTENDS Integers, Sequences

CONSTANTS BusClock,      \* clock of the timers, in Hz
          Gains,         \* tenths of streepid.p and streepid.d
          Differences    \* what ctrl() may find in sum_diff

\* The clock is fast enough for a period of two at the motors' frequency, and slow
\* enough for the largest divider at the servo's: 20 kHz to 2.5 GHz.
ASSUME BusClockAssumption == BusClock \in Nat /\ BusClock >= 20000 /\ BusClock \div 300 < 8388480
ASSUME GainsAssumption == Gains \subseteq Int
ASSUME DifferencesAssumption == Differences \subseteq Int

VARIABLES call, at, ps,      \* call of speedInit() under way, where it stands, its local ps
          MOD, PS, CLKS,     \* registers of a timer: period, divider, clock on
          CnV,               \* register of a channel: clocks its output is high
          asked,             \* auxiliary: the duty last asked of a channel
          streepid,          \* the gains, which the Set page edits
          error1,            \* the polynomial of the last round that steered
          resultturn,        \* the duty for the servo, of 10000
          held               \* auxiliary: the last two differences steered by

timerVars == <<MOD, PS, CLKS, CnV, asked>>
steerVars == <<streepid, error1, resultturn, held>>
vars == <<call, at, ps, timerVars, steerVars>>

Channel == {"CH3", "CH2", "servo"}   \* CH3 and CH2 of FTM0, CH1 of FTM1
Timer == {0, 1}
Of(ch) == IF ch = "servo" THEN 1 ELSE 0

Frequency(ch) == IF ch = "servo" THEN 300 ELSE 10000

\* The calls of speedInit() in their order, those that initialise first.
Inits == <<"CH3", "CH2", "servo">>
Duties == <<0, 0, 2000>>

(***************************************************************************)
(* The divider of FTM_PWM_QuickInit().  A division by pres = 0, which the  *)
(* motors' frequency causes, is undefined: its quotient may exceed the     *)
(* register (1) or not (0).                                                *)
(***************************************************************************)
Reg == 65535
Power == <<1, 2, 4, 8, 16, 32, 64, 128>>   \* Power[ps + 1] is 1 << ps

Dist(a, b) == IF a < b THEN b - a ELSE a - b

Quotient(f) == BusClock \div f

Pres(f, undef) ==
  LET pres == Quotient(f) \div Reg
      over == IF pres = 0 THEN undef = 1 ELSE Quotient(f) \div pres > Reg
  IN  IF over THEN pres + 1 ELSE pres

\* The first of the powers 1 << 0 .. 1 << 6 that are nearest to pres.
Nearest(pres) ==
  CHOOSE i \in 0..6 :
    /\ \A j \in 0..6 : Dist(pres, Power[i + 1]) <= Dist(pres, Power[j + 1])
    /\ \A j \in 0..(i - 1) : Dist(pres, Power[i + 1]) < Dist(pres, Power[j + 1])

\* Mutant: the nearest power is taken even when it is too small.
NearestOnly(pres) == Nearest(pres)

Divider(pres) == IF pres > Power[Nearest(pres) + 1] THEN Nearest(pres) + 1 ELSE Nearest(pres)

Modulo(f, i) == (BusClock \div Power[i + 1]) \div f - 1

(***************************************************************************)
(* FTM_PWM_ChangeDuty() in uint32_t: a negative duty d becomes 2^32 + d    *)
(* and the product 2^32 + MOD * d; 2^32 = 429496 * 10000 + 7296.  The      *)
(* register takes 16 bits.  Duties whose product with MOD does not fit 31  *)
(* bits and a sign, 50000 and more, are beyond this model.                 *)
(***************************************************************************)
Full == 10000   \* the duty of an output that is always high
Half == 5000

Width(m, d) ==
  (IF d >= 0 THEN (m * d) \div Full ELSE 429496 + (7296 + m * d) \div Full) % (Reg + 1)

ChangeDuty(ch, d) ==
  /\ CnV' = [CnV EXCEPT ![ch] = Width(MOD[Of(ch)], d)]
  /\ asked' = [asked EXCEPT ![ch] = d]

Init ==
  /\ call = 1 /\ at = "basic" /\ ps = 0
  /\ MOD = [t \in Timer |-> 0] /\ PS = [t \in Timer |-> 0] /\ CLKS = [t \in Timer |-> 0]
  /\ CnV = [ch \in Channel |-> 0] /\ asked = [ch \in Channel |-> 0]
  /\ streepid \in [p : Gains, d : Gains]
  /\ error1 = 0 /\ resultturn = 0 /\ held = <<>>

(***************************************************************************)
(* FTM_PWM_QuickInit().                                                    *)
(***************************************************************************)
\* _FTM_InitBasic() stops the timer, whatever channels it has, and sets its period;
\* FTM_SetMode() touches nothing the other channel of FTM0 uses.
InitBasic ==
  /\ at = "basic" /\ call \in DOMAIN Inits
  /\ \E undef \in {0, 1} : ps' = Divider(Pres(Frequency(Inits[call]), undef))
  /\ MOD'  = [MOD EXCEPT ![Of(Inits[call])] = Modulo(Frequency(Inits[call]), ps')]
  /\ PS'   = [PS EXCEPT ![Of(Inits[call])] = 0]
  /\ CLKS' = [CLKS EXCEPT ![Of(Inits[call])] = 0]
  /\ at' = "half"
  /\ UNCHANGED <<call, CnV, asked, steerVars>>

\* The default duty of 50%, then the clock and its divider.
HalfDuty ==
  /\ at = "half"
  /\ ChangeDuty(Inits[call], Half)
  /\ at' = "clock"
  /\ UNCHANGED <<call, ps, MOD, PS, CLKS, steerVars>>

StartClock ==
  /\ at = "clock"
  /\ CLKS' = [CLKS EXCEPT ![Of(Inits[call])] = 1]
  /\ PS'   = [PS EXCEPT ![Of(Inits[call])] = ps]
  /\ IF call = Len(Inits) THEN call' = 1 /\ at' = "duty" ELSE call' = call + 1 /\ at' = "basic"
  /\ UNCHANGED <<ps, MOD, CnV, asked, steerVars>>

\* The rest of speedInit(): a duty per channel.
SetDuty ==
  /\ at = "duty"
  /\ ChangeDuty(Inits[call], Duties[call])
  /\ IF call = Len(Inits) THEN call' = 0 /\ at' = "run" ELSE call' = call + 1 /\ at' = "duty"
  /\ UNCHANGED <<ps, MOD, PS, CLKS, steerVars>>

(***************************************************************************)
(* streePID(): the polynomial is cut to an int, as are the products with   *)
(* the gains.  A gain of g tenths enters as g / 1000.  Exact arithmetic    *)
(* stands for float; a product that is whole in the one may be one less in *)
(* the other.  Nor is an int too small here: the polynomial leaves 32 bits *)
(* for differences beyond about 305, where the conversion of the code      *)
(* (ctrl.c:236) is undefined.                                              *)
(***************************************************************************)
MEDIAN == 4600

Cut(a, b) == IF a >= 0 THEN a \div b ELSE -((-a) \div b)

\* p1, p2, p3, p4 in units of 1 / 10000.
Coefficient == <<-2492, 9905, 1248000, -407100>>

Polynomial(n) ==
  Cut(Coefficient[3] * n * n + Coefficient[1] * n * n * n * n + Coefficient[2] * n * n * n
        + Coefficient[4], 10000)

Steered(n) ==
  MEDIAN + Cut(streepid.p * Polynomial(n), 1000)
         + Cut(streepid.d * (Polynomial(n) - error1), 1000)

\* The duties ctrl() gives a lost line, by the side the latch names.
HardOver == [side \in {1, 2} |-> IF side = 1 THEN 3700 ELSE 5600]

\* Mutant: the last error is not stored.
ErrorKept(n, spe) ==
  /\ at = "run"
  /\ resultturn' = IF spe = 0 THEN Steered(n) ELSE HardOver[spe]
  /\ ChangeDuty("servo", resultturn')
  /\ held' = IF held = <<>> THEN <<n>> ELSE <<n, held[1]>>
  /\ UNCHANGED <<call, at, ps, MOD, PS, CLKS, streepid, error1>>

\* A round in which both coils see the line, and the latch may be set: streePID() first.
SteerRound(n, spe) ==
  /\ at = "run"
  /\ error1' = Polynomial(n)
  /\ resultturn' = IF spe = 0 THEN Steered(n) ELSE HardOver[spe]
  /\ ChangeDuty("servo", resultturn')
  /\ held' = IF held = <<>> THEN <<n>> ELSE <<n, held[1]>>
  /\ UNCHANGED <<call, at, ps, MOD, PS, CLKS, streepid>>

\* A round in which a coil sees nothing: the difference is not looked at.
LostRound(spe) ==
  /\ at = "run"
  /\ resultturn' = IF spe = 0 THEN resultturn ELSE HardOver[spe]
  /\ ChangeDuty("servo", resultturn')
  /\ UNCHANGED <<call, at, ps, MOD, PS, CLKS, streepid, error1, held>>

\* The Set page, between two rounds.
EditGains ==
  /\ at = "run"
  /\ streepid' \in [p : Gains, d : Gains]
  /\ UNCHANGED <<call, at, ps, timerVars, error1, resultturn, held>>

Next ==
  \/ InitBasic \/ HalfDuty \/ StartClock \/ SetDuty \/ EditGains
  \/ \E spe \in 0..2 : LostRound(spe) \/ \E n \in Differences : SteerRound(n, spe)

Spec == Init /\ [][Next]_vars

(***************************************************************************)
(* Properties.                                                             *)
(***************************************************************************)
Ready(ch) ==
  \/ at \in {"duty", "run"}
  \/ \E i \in 1..(call - 1) : Inits[i] = ch

TypeOK ==
  /\ at \in {"basic", "half", "clock", "duty", "run"}
  /\ call \in IF at = "run" THEN {0} ELSE DOMAIN Inits
  /\ ps \in 0..7
  /\ MOD \in [Timer -> Int] /\ PS \in [Timer -> 0..7] /\ CLKS \in [Timer -> 0..1]
  /\ CnV \in [Channel -> Int] /\ asked \in [Channel -> Int]
  /\ streepid \in [p : Gains, d : Gains]
  /\ error1 \in Int /\ resultturn \in Int
  /\ held \in Seq(Differences) /\ Len(held) <= 2

\* The wave of a channel: a period that fits the register and misses the frequency by
\* less than a step of the divider, and in that period the share asked for.
Wave(ch) ==
  LET t == Of(ch)
      clocks == Power[PS[t] + 1]
  IN  /\ 0 < MOD[t] /\ MOD[t] <= Reg
      /\ Quotient(Frequency(ch)) - (MOD[t] + 1) * clocks \in 0..(clocks - 1)
      /\ 0 <= asked[ch] /\ asked[ch] <= Full =>
           Full * CnV[ch] <= MOD[t] * asked[ch] /\ MOD[t] * asked[ch] < Full * (CnV[ch] + 1)

\* Each channel that is set up has the wave asked of it whenever its timer runs, although
\* CH2 sets up anew the timer CH3 already has and whatever the division by zero in
\* FTM_PWM_QuickInit() gives; and in the end both timers run.
WaveAsAsked ==
  \A ch \in Channel :
    /\ Ready(ch) /\ CLKS[Of(ch)] = 1 => Wave(ch)
    /\ at = "run" => CLKS[Of(ch)] = 1

\* A jump of the difference, or a last error that rounds without the line have left
\* stale, kicks the servo for one round: the second round that steers by the same
\* difference gives the proportional part alone, whatever rounds without the line and
\* edits of the gains lie between the two.
KickLastsOneRound ==
  [][resultturn' # resultturn /\ resultturn' \notin {3700, 5600} /\ Len(held') = 2 /\ held'[1] = held'[2]
       => resultturn' = MEDIAN + Cut(streepid.p * Polynomial(held'[1]), 1000)]_vars

\* The inductive invariant: a timer that is set up has the period of every channel
\* it serves, so that the second set-up of FTM0 leaves the first channel its wave.
Chosen(f) == Divider(Pres(f, 0))

ServoInv ==
  /\ TypeOK
  /\ at \in {"half", "clock"} => ps = Chosen(Frequency(Inits[call])) /\ CLKS[Of(Inits[call])] = 0
  /\ \A ch \in Channel :
       /\ Ready(ch) \/ (at \in {"half", "clock"} /\ ch = Inits[call]) =>
            MOD[Of(ch)] = Modulo(Frequency(ch), Chosen(Frequency(ch)))
       /\ Ready(ch) \/ (at = "clock" /\ ch = Inits[call]) => CnV[ch] = Width(MOD[Of(ch)], asked[ch])
       /\ Ready(ch) /\ CLKS[Of(ch)] = 1 => PS[Of(ch)] = Chosen(Frequency(ch))
  /\ call = 3 => CLKS[0] = 1
  /\ at \in {"duty", "run"} => \A t \in Timer : CLKS[t] = 1
  /\ held # <<>> => error1 = Polynomial(held[1])
=============================================================================
