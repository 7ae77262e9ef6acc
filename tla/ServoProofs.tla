----------------------------- MODULE ServoProofs -----------------------------
(***************************************************************************)
(* For every clock in range, all gains and all differences: the waves are  *)
(* the ones speedInit() and ctrl() ask for, and a kick of the derivative   *)
(* lasts one round.                                                        *)
(***************************************************************************)
EXTENDS Servo, TLAPS

\* Some power is nearest, and the first such is what the loop of
\* FTM_PWM_QuickInit() leaves in ps.
LEMMA NearestExists ==
  ASSUME NEW pres \in 0..128
  PROVE  /\ Nearest(pres) \in 0..6
         /\ \A j \in 0..6 : Dist(pres, Power[Nearest(pres) + 1]) <= Dist(pres, Power[j + 1])
<1> DEFINE P(i) == /\ \A j \in 0..6 : Dist(pres, Power[i + 1]) <= Dist(pres, Power[j + 1])
                   /\ \A j \in 0..(i - 1) : Dist(pres, Power[i + 1]) < Dist(pres, Power[j + 1])
<1>1. \E i \in 0..6 : P(i)
  <2>1. CASE pres <= 1
    <3>1. P(0) BY <2>1, SMT DEF Dist, Power
    <3> QED BY <3>1
  <2>2. CASE pres \in 2..3
    <3>1. P(1) BY <2>2, SMT DEF Dist, Power
    <3> QED BY <3>1
  <2>3. CASE pres \in 4..6
    <3>1. P(2) BY <2>3, SMT DEF Dist, Power
    <3> QED BY <3>1
  <2>4. CASE pres \in 7..12
    <3>1. P(3) BY <2>4, SMT DEF Dist, Power
    <3> QED BY <3>1
  <2>5. CASE pres \in 13..24
    <3>1. P(4) BY <2>5, SMT DEF Dist, Power
    <3> QED BY <3>1
  <2>6. CASE pres \in 25..48
    <3>1. P(5) BY <2>6, SMT DEF Dist, Power
    <3> QED BY <3>1
  <2>7. CASE pres >= 49
    <3>1. P(6) BY <2>7, SMT DEF Dist, Power
    <3> QED BY <3>1
  <2> QED BY <2>1, <2>2, <2>3, <2>4, <2>5, <2>6, <2>7
<1> HIDE DEF P
<1>2. Nearest(pres) = CHOOSE i \in 0..6 : P(i)
  BY DEF Nearest, P
<1>3. Nearest(pres) \in 0..6 /\ P(Nearest(pres))
  BY <1>1, <1>2
<1> QED BY <1>3 DEF P

\* The divider is no smaller than pres and, from 2 on, less than twice as large.
LEMMA DividerCovers ==
  ASSUME NEW pres \in 0..128
  PROVE  /\ Divider(pres) \in 0..7
         /\ pres <= Power[Divider(pres) + 1]
         /\ pres <= 1 => Divider(pres) = 0
         /\ pres >= 2 => Power[Divider(pres) + 1] < 2 * pres
<1> DEFINE i == Nearest(pres)
<1>1. i \in 0..6 /\ \A j \in 0..6 : Dist(pres, Power[i + 1]) <= Dist(pres, Power[j + 1])
  BY NearestExists
<1>2. Divider(pres) = IF pres > Power[i + 1] THEN i + 1 ELSE i
  BY DEF Divider
<1> HIDE DEF i
<1>3. CASE i = 0 BY <1>1, <1>2, <1>3, SMT DEF Dist, Power
<1>4. CASE i = 1 BY <1>1, <1>2, <1>4, SMT DEF Dist, Power
<1>5. CASE i = 2 BY <1>1, <1>2, <1>5, SMT DEF Dist, Power
<1>6. CASE i = 3 BY <1>1, <1>2, <1>6, SMT DEF Dist, Power
<1>7. CASE i = 4 BY <1>1, <1>2, <1>7, SMT DEF Dist, Power
<1>8. CASE i = 5 BY <1>1, <1>2, <1>8, SMT DEF Dist, Power
<1>9. CASE i = 6 BY <1>1, <1>2, <1>9, SMT DEF Dist, Power
<1> QED BY <1>1, <1>3, <1>4, <1>5, <1>6, <1>7, <1>8, <1>9

\* pres counts the periods of 65535 clocks in one of the asked frequency, rounded up
\* when there are any, and fits the largest divider.
LEMMA PresFits ==
  ASSUME NEW f \in {300, 10000}, NEW undef \in {0, 1}
  PROVE  /\ Quotient(f) \in Nat /\ Quotient(f) >= 2
         /\ Pres(f, undef) \in 0..128
         /\ Pres(f, undef) <= 1 => Quotient(f) < 65536
         /\ Quotient(f) < 65536 * Pres(f, undef) \/ Quotient(f) < 65536
         /\ Pres(f, undef) >= 2 => Quotient(f) >= 65535 * (Pres(f, undef) - 1)
         /\ Pres(f, undef) # Pres(f, 0) => Pres(f, undef) <= 1 /\ Pres(f, 0) <= 1
<1> DEFINE q == Quotient(f)
           r == q \div Reg
<1>1. q \in Nat /\ q >= 2 /\ q < 8388480
  <2>1. CASE f = 300
    BY <2>1, BusClockAssumption, SMT DEF Quotient
  <2>2. CASE f = 10000
    BY <2>2, BusClockAssumption, SMT DEF Quotient
  <2> QED BY <2>1, <2>2
<1>2. Pres(f, undef) = IF (IF r = 0 THEN undef = 1 ELSE q \div r > Reg) THEN r + 1 ELSE r
  BY DEF Pres
<1>3. Pres(f, 0) = IF (IF r = 0 THEN 0 = 1 ELSE q \div r > Reg) THEN r + 1 ELSE r
  BY DEF Pres
<1> HIDE DEF q
<1>4. r \in 0..127 /\ 65535 * r <= q /\ q < 65535 * (r + 1)
  BY <1>1, SMT DEF Reg
<1> HIDE DEF r
<1>5. CASE r = 0
  <2>1. Pres(f, undef) \in {0, 1} /\ Pres(f, 0) = 0
    BY <1>2, <1>3, <1>5
  <2> QED BY <1>1, <1>4, <1>5, <2>1, SMT DEF q
<1>6. CASE r # 0 /\ q \div r > Reg
  <2>1. Pres(f, undef) = r + 1 /\ Pres(f, 0) = r + 1
    BY <1>2, <1>3, <1>6
  <2> QED BY <1>1, <1>4, <1>6, <2>1, SMT DEF q
<1>7. CASE r # 0 /\ ~(q \div r > Reg)
  <2>1. Pres(f, undef) = r /\ Pres(f, 0) = r
    BY <1>2, <1>3, <1>7
  <2>2. q < 65536 * r
    <3>1. q \div r \in Int /\ q < r * ((q \div r) + 1)
      BY <1>1, <1>4, <1>7, SMT
    <3>2. (q \div r) + 1 <= 65536
      BY <3>1, <1>7, SMT DEF Reg
    <3>3. r * ((q \div r) + 1) <= r * 65536
      BY <3>1, <3>2, <1>4, SMT
    <3> QED BY <3>1, <3>3, <1>1, <1>4, SMT
  <2> QED BY <1>1, <1>4, <1>7, <2>1, <2>2, SMT DEF q
<1> QED BY <1>4, <1>5, <1>6, <1>7

\* What the division by zero gives does not matter.
LEMMA DividerIsChosen ==
  ASSUME NEW f \in {300, 10000}, NEW undef \in {0, 1}
  PROVE  Divider(Pres(f, undef)) = Chosen(f)
<1>1. CASE Pres(f, undef) = Pres(f, 0)
  BY <1>1 DEF Chosen
<1>2. CASE Pres(f, undef) # Pres(f, 0)
  <2>1. Pres(f, undef) \in 0..128 /\ Pres(f, 0) \in 0..128
    BY PresFits
  <2>2. Pres(f, undef) <= 1 /\ Pres(f, 0) <= 1
    BY <1>2, PresFits
  <2>3. Divider(Pres(f, undef)) = 0 /\ Divider(Pres(f, 0)) = 0
    BY <2>1, <2>2, DividerCovers
  <2> QED BY <2>3 DEF Chosen
<1> QED BY <1>1, <1>2

\* What the bounds of a product with a positive w say of the other factor.
LEMMA Cancel ==
  ASSUME NEW m \in Int, NEW w \in Int, w > 0, NEW q \in Int, w * m <= q, q < w * (m + 1)
  PROVE  /\ q < 65536 * w => m < 65536
         /\ 2 * w <= q => 1 < m
<1>1. \A a, b \in Int : w * a < w * b => a < b
  BY SMT
<1>2. w * m < w * 65536 => m < 65536
  BY <1>1
<1>3. w * 2 < w * (m + 1) => 2 < m + 1
  BY <1>1
<1>4. w * m \in Int /\ w * (m + 1) \in Int
  BY SMT
<1> QED BY <1>2, <1>3, <1>4, SMT

LEMMA Remainder ==
  ASSUME NEW m \in Int, NEW w \in Int, w > 0, NEW q \in Int, w * m <= q, q < w * (m + 1)
  PROVE  q - m * w \in 0..(w - 1)
<1>1. w * (m + 1) = w * m + w /\ w * m = m * w /\ w * m \in Int
  BY SMT
<1> DEFINE n == w * m
<1> HIDE DEF n
<1>2. n \in Int /\ n <= q /\ q < n + w
  BY <1>1 DEF n
<1>3. q - n \in 0..(w - 1)
  BY <1>2, SMT
<1> QED BY <1>1, <1>3 DEF n

\* Dividing by a power and then by the frequency is dividing by their product.
LEMMA TwoDivisions ==
  ASSUME NEW b \in Nat, NEW f \in {300, 10000}, NEW w \in {1, 2, 4, 8, 16, 32, 64, 128}
  PROVE  /\ (b \div w) \div f \in Int
         /\ w * ((b \div w) \div f) <= b \div f
         /\ b \div f < w * ((b \div w) \div f + 1)
<1>1. CASE f = 300
  <2>1. CASE w = 1 BY <1>1, <2>1, SMT
  <2>2. CASE w = 2 BY <1>1, <2>2, SMT
  <2>3. CASE w = 4 BY <1>1, <2>3, SMT
  <2>4. CASE w = 8 BY <1>1, <2>4, SMT
  <2>5. CASE w = 16 BY <1>1, <2>5, SMT
  <2>6. CASE w = 32 BY <1>1, <2>6, SMT
  <2>7. CASE w = 64 BY <1>1, <2>7, SMT
  <2>8. CASE w = 128 BY <1>1, <2>8, SMT
  <2> QED BY <2>1, <2>2, <2>3, <2>4, <2>5, <2>6, <2>7, <2>8
<1>2. CASE f = 10000
  <2>1. CASE w = 1 BY <1>2, <2>1, SMT
  <2>2. CASE w = 2 BY <1>2, <2>2, SMT
  <2>3. CASE w = 4 BY <1>2, <2>3, SMT
  <2>4. CASE w = 8 BY <1>2, <2>4, SMT
  <2>5. CASE w = 16 BY <1>2, <2>5, SMT
  <2>6. CASE w = 32 BY <1>2, <2>6, SMT
  <2>7. CASE w = 64 BY <1>2, <2>7, SMT
  <2>8. CASE w = 128 BY <1>2, <2>8, SMT
  <2> QED BY <2>1, <2>2, <2>3, <2>4, <2>5, <2>6, <2>7, <2>8
<1> QED BY <1>1, <1>2

\* The period chosen for a frequency fits the register and is right to a step.
LEMMA PeriodFits ==
  ASSUME NEW f \in {300, 10000}
  PROVE  /\ Chosen(f) \in 0..7
         /\ Modulo(f, Chosen(f)) \in Int /\ 0 < Modulo(f, Chosen(f)) /\ Modulo(f, Chosen(f)) <= Reg
         /\ Quotient(f) - (Modulo(f, Chosen(f)) + 1) * Power[Chosen(f) + 1] \in 0..(Power[Chosen(f) + 1] - 1)
<1>1. PICK p : p = Pres(f, 0)
  OBVIOUS
<1>2. PICK q : q = Quotient(f)
  OBVIOUS
<1>3. /\ q \in Nat /\ q >= 2 /\ p \in 0..128
      /\ p <= 1 => q < 65536
      /\ q < 65536 * p \/ q < 65536
      /\ p >= 2 => q >= 65535 * (p - 1)
  <2>1. 0 \in {0, 1}
    OBVIOUS
  <2> QED BY <1>1, <1>2, <2>1, PresFits
<1>4. PICK i : i = Divider(p)
  OBVIOUS
<1>5. i = Chosen(f)
  BY <1>1, <1>4 DEF Chosen
<1>6. /\ i \in 0..7 /\ p <= Power[i + 1]
      /\ p <= 1 => i = 0
      /\ p >= 2 => Power[i + 1] < 2 * p
  BY <1>3, <1>4, DividerCovers
<1>7. PICK w : w = Power[i + 1]
  OBVIOUS
<1>8. w \in {1, 2, 4, 8, 16, 32, 64, 128} /\ (i = 0 => w = 1)
  BY <1>6, <1>7, SMT DEF Power
<1>9. PICK m : m = (BusClock \div w) \div f
  OBVIOUS
<1>10. m \in Int /\ w * m <= q /\ q < w * (m + 1)
  BY <1>2, <1>8, <1>9, TwoDivisions, BusClockAssumption DEF Quotient
<1>11. p >= 2 => q < 65536 * p
  BY <1>3, SMT
<1>12. w \in Int /\ w > 0 /\ p \in Int /\ q \in Int /\ p <= w
  BY <1>3, <1>6, <1>7, <1>8, SMT
<1>13. q < 65536 * w /\ 2 * w <= q
  <2>1. CASE p <= 1
    BY <2>1, <1>3, <1>6, <1>8
  <2>2. CASE p >= 2
    <3>1. w < 2 * p /\ q < 65536 * p /\ 65535 * (p - 1) <= q
      BY <2>2, <1>3, <1>6, <1>7, <1>11
    <3> QED BY <2>2, <3>1, <1>12, SMT
  <2> QED BY <2>1, <2>2, <1>12, SMT
<1>14. m < 65536 /\ 1 < m
  BY <1>10, <1>12, <1>13, Cancel
<1>15. q - m * w \in 0..(w - 1)
  BY <1>10, <1>12, Remainder
<1>16. Modulo(f, i) = m - 1
  BY <1>7, <1>9 DEF Modulo
<1>17. /\ Modulo(f, i) \in Int /\ 0 < Modulo(f, i) /\ Modulo(f, i) <= Reg
       /\ Modulo(f, i) + 1 = m
  <2>1. m \in Int
    BY <1>10
  <2> QED BY <2>1, <1>14, <1>16, SMT DEF Reg
<1> QED BY <1>2, <1>5, <1>6, <1>7, <1>15, <1>17

\* The share of a duty up to 10000 is right to one clock of the timer.
LEMMA WidthIsShare ==
  ASSUME NEW m \in Int, 0 < m, m <= Reg, NEW d \in Int, 0 <= d, d <= Full
  PROVE  Full * Width(m, d) <= m * d /\ m * d < Full * (Width(m, d) + 1)
<1>1. m * d \in Int /\ 0 <= m * d /\ m * d <= m * Full
  <2>1. \A a, b \in Nat : a * b \in Nat
    BY SMT
  <2>2. \A a \in Nat, b, c \in Int : b <= c => a * b <= a * c
    BY SMT
  <2>3. Full \in Int
    BY DEF Full
  <2> QED BY <2>1, <2>2, <2>3
<1> DEFINE n == m * d
<1>2. Width(m, d) = (n \div Full) % (Reg + 1)
  BY DEF Width
<1> HIDE DEF n
<1>3. n \in Int /\ 0 <= n /\ n <= m * Full
  BY <1>1 DEF n
<1>4. n \div Full \in Int /\ 0 <= n \div Full /\ n \div Full <= 65535
  BY <1>3, SMT DEF Reg, Full
<1>5. (n \div Full) % (Reg + 1) = n \div Full
  BY <1>4, SMT DEF Reg, Full
<1>6. Full * (n \div Full) <= n /\ n < Full * ((n \div Full) + 1)
  BY <1>3, SMT DEF Full
<1> QED BY <1>2, <1>5, <1>6 DEF n

LEMMA CallFacts ==
  /\ Len(Inits) = 3 /\ DOMAIN Inits = 1..3
  /\ Inits[1] = "CH3" /\ Inits[2] = "CH2" /\ Inits[3] = "servo"
  /\ \A i \in 1..3 : Inits[i] \in Channel /\ Duties[i] \in Int
  /\ \A ch \in Channel : Of(ch) \in Timer /\ Frequency(ch) \in {300, 10000}
  /\ \A c, d \in Channel : Of(c) = Of(d) => Frequency(c) = Frequency(d)
  BY DEF Inits, Duties, Channel, Timer, Of, Frequency

LEMMA WidthType ==
  ASSUME NEW m \in Int, NEW d \in Int
  PROVE  Width(m, d) \in Int
<1>1. m * d \in Int
  BY SMT
<1>2. \A n \in Int : n \div Full \in Int /\ 429496 + (7296 + n) \div Full \in Int /\ n % 65536 \in Int
  BY SMT DEF Full
<1>3. Reg + 1 = 65536
  BY DEF Reg
<1>4. (m * d) \div Full \in Int /\ 429496 + (7296 + m * d) \div Full \in Int
  BY <1>1, <1>2
<1> QED BY <1>2, <1>3, <1>4 DEF Width

LEMMA PolynomialType ==
  ASSUME NEW n \in Int
  PROVE  Polynomial(n) \in Int
<1>1. \A a \in Int : Cut(a, 10000) \in Int
  BY SMT DEF Cut
<1>2. \A a, b \in Int : a * b \in Int /\ a + b \in Int
  BY SMT
<1>3. \A i \in 1..4 : Coefficient[i] \in Int
  BY DEF Coefficient
<1> QED BY <1>1, <1>2, <1>3 DEF Polynomial

LEMMA GainTypes == TypeOK => streepid.p \in Int /\ streepid.d \in Int
  BY GainsAssumption DEF TypeOK

LEMMA SteeredType ==
  ASSUME TypeOK, NEW n \in Int
  PROVE  Steered(n) \in Int
<1>1. \A a \in Int : Cut(a, 1000) \in Int
  BY SMT DEF Cut
<1>2. \A a, b \in Int : a * b \in Int /\ a + b \in Int /\ a - b \in Int
  BY SMT
<1>3. streepid.p \in Int /\ streepid.d \in Int /\ error1 \in Int
  BY GainsAssumption DEF TypeOK
<1>4. streepid.p * Polynomial(n) \in Int /\ streepid.d * (Polynomial(n) - error1) \in Int
  BY <1>2, <1>3, PolynomialType
<1> QED BY <1>1, <1>2, <1>4 DEF Steered, MEDIAN

LEMMA ServoInit == Init => ServoInv
  BY CallFacts, SMT DEF Init, ServoInv, TypeOK, Ready, Channel, Timer

\* A round of ctrl() writes the duty of the servo and nothing of a timer.
LEMMA RoundStep ==
  ASSUME ServoInv, at = "run", NEW d \in Int, resultturn' = d, ChangeDuty("servo", d),
         UNCHANGED <<call, at, ps, MOD, PS, CLKS, streepid>>,
         error1' \in Int, held' \in Seq(Differences), Len(held') <= 2,
         held' # <<>> => error1' = Polynomial(held'[1])
  PROVE  ServoInv'
<1>1. "servo" \in Channel /\ MOD[Of("servo")] \in Int
  BY CallFacts DEF ServoInv, TypeOK, Channel
<1>2. Width(MOD[Of("servo")], d) \in Int
  BY <1>1, WidthType
<1>3. TypeOK'
  BY <1>2 DEF ServoInv, TypeOK, ChangeDuty
<1>4. \A ch \in Channel :
         /\ MOD'[Of(ch)] = Modulo(Frequency(ch), Chosen(Frequency(ch)))
         /\ PS'[Of(ch)] = Chosen(Frequency(ch))
         /\ CnV'[ch] = Width(MOD'[Of(ch)], asked'[ch])
  <2>1. \A ch \in Channel : Ready(ch) /\ Of(ch) \in Timer
    BY CallFacts DEF Ready
  <2> QED BY <2>1 DEF ServoInv, TypeOK, ChangeDuty
<1>5. \A t \in Timer : CLKS'[t] = 1
  BY DEF ServoInv
<1> QED BY <1>3, <1>4, <1>5 DEF ServoInv, Ready, Timer

LEMMA ServoNext ==
  ASSUME ServoInv, [Next]_vars
  PROVE  ServoInv'
<1>1. CASE InitBasic
  <2> DEFINE ch == Inits[call]
             f == Frequency(ch)
  <2>1. call \in 1..3 /\ ch \in Channel /\ f \in {300, 10000} /\ Of(ch) \in Timer
    BY <1>1, CallFacts DEF InitBasic
  <2>2. /\ ps' = Chosen(f)
        /\ MOD' = [MOD EXCEPT ![Of(ch)] = Modulo(f, Chosen(f))]
        /\ PS' = [PS EXCEPT ![Of(ch)] = 0]
        /\ CLKS' = [CLKS EXCEPT ![Of(ch)] = 0]
        /\ at = "basic" /\ at' = "half" /\ UNCHANGED <<call, CnV, asked, steerVars>>
    <3>1. PICK undef \in {0, 1} : ps' = Divider(Pres(f, undef))
      BY <1>1 DEF InitBasic
    <3>2. Divider(Pres(f, undef)) = Chosen(f)
      BY <2>1, DividerIsChosen
    <3> QED BY <1>1, <3>1, <3>2 DEF InitBasic
  <2>3. Chosen(f) \in 0..7 /\ Modulo(f, Chosen(f)) \in Int
    <3>1. f \in {300, 10000}
      BY <2>1
    <3> HIDE DEF f
    <3> QED BY <3>1, PeriodFits
  <2> HIDE DEF f
  <2>4. TypeOK'
    BY <2>1, <2>2, <2>3 DEF ServoInv, TypeOK, steerVars
  <2>5. ASSUME NEW c \in Channel
        PROVE  /\ Ready(c)' \/ c = ch => MOD'[Of(c)] = Modulo(Frequency(c), Chosen(Frequency(c)))
               /\ Ready(c)' => CnV'[c] = Width(MOD'[Of(c)], asked'[c])
               /\ Ready(c)' /\ CLKS'[Of(c)] = 1 => PS'[Of(c)] = Chosen(Frequency(c))
    <3>1. Ready(c)' => Ready(c)
      BY <2>2 DEF Ready
    <3>2. CASE Of(c) = Of(ch)
      <4>1. Frequency(c) = f
        BY <2>1, <3>2, CallFacts DEF f
      <4>2. MOD'[Of(c)] = Modulo(f, Chosen(f)) /\ CLKS'[Of(c)] = 0
        BY <2>1, <2>2, <3>2 DEF ServoInv, TypeOK
      <4>3. Ready(c) => MOD[Of(c)] = MOD'[Of(c)] /\ CnV[c] = Width(MOD[Of(c)], asked[c])
        BY <4>1, <4>2 DEF ServoInv
      <4> QED BY <2>2, <3>1, <4>1, <4>2, <4>3
    <3>3. CASE Of(c) # Of(ch)
      <4>1. Of(c) \in Timer
        BY CallFacts
      <4>2. MOD'[Of(c)] = MOD[Of(c)] /\ PS'[Of(c)] = PS[Of(c)] /\ CLKS'[Of(c)] = CLKS[Of(c)]
        BY <2>2, <3>3, <4>1 DEF ServoInv, TypeOK
      <4> QED BY <2>2, <3>1, <3>3, <4>2 DEF ServoInv
    <3> QED BY <3>2, <3>3
  <2>6. /\ Inits[call]' = ch /\ ps' = Chosen(Frequency(ch)) /\ CLKS'[Of(ch)] = 0
        /\ held' # <<>> => error1' = Polynomial(held'[1])
    BY <2>1, <2>2 DEF ServoInv, TypeOK, steerVars, f
  <2>7. call' = 3 => CLKS'[0] = 1
    <3> SUFFICES ASSUME call' = 3
                 PROVE  CLKS'[0] = 1
      OBVIOUS
    <3>1. call = 3 /\ Of(ch) = 1
      BY <2>2, CallFacts DEF Of
    <3> QED BY <2>2, <3>1 DEF ServoInv, TypeOK, Timer
  <2> QED BY <2>2, <2>4, <2>5, <2>6, <2>7 DEF ServoInv
<1>2. CASE HalfDuty
  <2>1. call \in 1..3 /\ at = "half" /\ at' = "clock" /\ Inits[call] \in Channel /\ MOD[Of(Inits[call])] \in Int
    <3>1. at = "half" /\ at' = "clock" /\ call \in DOMAIN Inits /\ MOD \in [Timer -> Int]
      BY <1>2 DEF HalfDuty, ServoInv, TypeOK
    <3>2. call \in 1..3
      BY <3>1, CallFacts
    <3>3. Inits[call] \in Channel /\ Of(Inits[call]) \in Timer
      BY <3>2, CallFacts
    <3> QED BY <3>1, <3>2, <3>3, Zenon
  <2>2. Width(MOD[Of(Inits[call])], Half) \in Int
    <3>1. \A m, d \in Int : Width(m, d) \in Int
      BY WidthType
    <3>2. Half \in Int
      BY DEF Half
    <3> QED BY <2>1, <3>1, <3>2
  <2>3. TypeOK'
    BY <1>2, <2>1, <2>2 DEF HalfDuty, ChangeDuty, ServoInv, TypeOK, steerVars, Half
  <2>4. \A c \in Channel : Ready(c)' <=> Ready(c)
    BY <1>2, <2>1 DEF HalfDuty, Ready
  <2> QED BY <1>2, <2>1, <2>3, <2>4 DEF HalfDuty, ChangeDuty, ServoInv, TypeOK, steerVars
<1>3. CASE StartClock
  <2>1. call \in 1..3 /\ at = "clock" /\ Inits[call] \in Channel /\ Of(Inits[call]) \in Timer
    BY <1>3, CallFacts DEF StartClock, ServoInv, TypeOK
  <2>2. \A c \in Channel : Ready(c)' => Ready(c) \/ c = Inits[call]
    BY <1>3, <2>1, CallFacts, SMT DEF StartClock, Ready, Channel
  <2>3. TypeOK'
    <3>1. CLKS' \in [Timer -> 0..1] /\ PS' \in [Timer -> 0..7]
      BY <1>3, <2>1 DEF StartClock, ServoInv, TypeOK
    <3>2. at' \in {"basic", "duty"} /\ call' \in 1..3
      BY <1>3, <2>1, CallFacts, SMT DEF StartClock
    <3>3. call' \in IF at' = "run" THEN {0} ELSE DOMAIN Inits
      BY <3>2, CallFacts
    <3> QED BY <1>3, <3>1, <3>2, <3>3 DEF StartClock, ServoInv, TypeOK, steerVars
  <2>4. at' = "duty" => \A t \in Timer : CLKS'[t] = 1
    <3> SUFFICES ASSUME at' = "duty", NEW t \in Timer
                 PROVE  CLKS'[t] = 1
      OBVIOUS
    <3>1. call = 3
      BY <1>3, CallFacts DEF StartClock
    <3>2. Of(Inits[call]) = 1 /\ CLKS'[1] = 1 /\ CLKS'[0] = CLKS[0]
      BY <1>3, <3>1, CallFacts DEF StartClock, ServoInv, TypeOK, Of, Timer
    <3>3. CLKS[0] = 1
      BY <3>1 DEF ServoInv
    <3> QED BY <3>2, <3>3 DEF Timer
  <2>5. call' = 3 => CLKS'[0] = 1
    <3> SUFFICES ASSUME call' = 3
                 PROVE  CLKS'[0] = 1
      OBVIOUS
    <3>1. call = 2
      BY <1>3, <2>1, CallFacts, SMT DEF StartClock
    <3>2. Of(Inits[call]) = 0
      BY <3>1, CallFacts DEF Of
    <3> QED BY <1>3, <3>2 DEF StartClock, ServoInv, TypeOK, Timer
  <2>6. at' \in {"basic", "duty"}
    BY <1>3 DEF StartClock
  <2>7. \A ch \in Channel :
         Ready(ch)' => /\ MOD'[Of(ch)] = Modulo(Frequency(ch), Chosen(Frequency(ch)))
                       /\ CnV'[ch] = Width(MOD'[Of(ch)], asked'[ch])
                       /\ CLKS'[Of(ch)] = 1 => PS'[Of(ch)] = Chosen(Frequency(ch))
    <3> SUFFICES ASSUME NEW ch \in Channel, Ready(ch)'
                 PROVE  /\ MOD'[Of(ch)] = Modulo(Frequency(ch), Chosen(Frequency(ch)))
                        /\ CnV'[ch] = Width(MOD'[Of(ch)], asked'[ch])
                        /\ CLKS'[Of(ch)] = 1 => PS'[Of(ch)] = Chosen(Frequency(ch))
      OBVIOUS
    <3>1. /\ MOD'[Of(ch)] = Modulo(Frequency(ch), Chosen(Frequency(ch)))
          /\ CnV'[ch] = Width(MOD'[Of(ch)], asked'[ch])
      BY <1>3, <2>1, <2>2 DEF StartClock, ServoInv
    <3>2. CASE Of(ch) = Of(Inits[call])
      <4>1. Frequency(ch) = Frequency(Inits[call])
        BY <2>1, <3>2, CallFacts
      <4>2. PS'[Of(ch)] = ps /\ ps = Chosen(Frequency(Inits[call]))
        BY <1>3, <2>1, <3>2 DEF StartClock, ServoInv, TypeOK
      <4> QED BY <3>1, <4>1, <4>2
    <3>3. CASE Of(ch) # Of(Inits[call])
      <4>1. Of(ch) \in Timer
        BY CallFacts
      <4>2. PS'[Of(ch)] = PS[Of(ch)] /\ CLKS'[Of(ch)] = CLKS[Of(ch)]
        BY <1>3, <3>3, <4>1 DEF StartClock, ServoInv, TypeOK
      <4> QED BY <2>2, <3>1, <3>3, <4>2 DEF ServoInv
    <3> QED BY <3>2, <3>3
  <2>8. held' # <<>> => error1' = Polynomial(held'[1])
    BY <1>3 DEF StartClock, ServoInv, steerVars
  <2> QED BY <2>3, <2>4, <2>5, <2>6, <2>7, <2>8 DEF ServoInv
<1>4. CASE SetDuty
  <2>1. /\ call \in 1..3 /\ at = "duty"
        /\ Inits[call] \in Channel /\ Duties[call] \in Int /\ MOD[Of(Inits[call])] \in Int
    <3>1. at = "duty" /\ call \in DOMAIN Inits /\ MOD \in [Timer -> Int]
      BY <1>4 DEF SetDuty, ServoInv, TypeOK
    <3>2. call \in 1..3
      BY <3>1, CallFacts
    <3>3. Inits[call] \in Channel /\ Duties[call] \in Int /\ Of(Inits[call]) \in Timer
      BY <3>2, CallFacts
    <3> QED BY <3>1, <3>2, <3>3, Zenon
  <2>2. Width(MOD[Of(Inits[call])], Duties[call]) \in Int
    BY <2>1, WidthType
  <2>3. TypeOK'
    <3>1. CnV' \in [Channel -> Int] /\ asked' \in [Channel -> Int]
      BY <1>4, <2>1, <2>2 DEF SetDuty, ChangeDuty, ServoInv, TypeOK
    <3>2. IF at' = "run" THEN call' \in {0} ELSE call' \in DOMAIN Inits /\ at' = "duty"
      BY <1>4, <2>1, CallFacts, SMT DEF SetDuty
    <3>3. call' \in IF at' = "run" THEN {0} ELSE DOMAIN Inits
      BY <3>2
    <3>4. at' \in {"basic", "half", "clock", "duty", "run"}
      BY <3>2
    <3> QED BY <1>4, <3>1, <3>3, <3>4 DEF SetDuty, ServoInv, TypeOK, steerVars
  <2>4. at' \in {"duty", "run"}
    BY <1>4 DEF SetDuty
  <2>5. \A ch \in Channel :
         /\ MOD'[Of(ch)] = Modulo(Frequency(ch), Chosen(Frequency(ch)))
         /\ PS'[Of(ch)] = Chosen(Frequency(ch))
         /\ CnV'[ch] = Width(MOD'[Of(ch)], asked'[ch])
    <3>1. \A ch \in Channel : Ready(ch) /\ CLKS[Of(ch)] = 1
      BY <2>1, CallFacts DEF ServoInv, Ready
    <3> QED BY <1>4, <2>1, <3>1 DEF SetDuty, ChangeDuty, ServoInv, TypeOK
  <2>6. \A t \in Timer : CLKS'[t] = 1
    BY <1>4, <2>1 DEF SetDuty, ServoInv
  <2>7. held' # <<>> => error1' = Polynomial(held'[1])
    BY <1>4 DEF SetDuty, ServoInv, steerVars
  <2>8. CLKS'[0] = 1
    BY <2>6 DEF Timer
  <2> QED BY <2>3, <2>4, <2>5, <2>6, <2>7, <2>8 DEF ServoInv
<1>5. CASE EditGains
  BY <1>5 DEF EditGains, timerVars, ServoInv, TypeOK, Ready
<1>6. ASSUME NEW spe \in 0..2, LostRound(spe)
      PROVE  ServoInv'
  <2>1. resultturn' \in Int
    BY <1>6 DEF LostRound, ServoInv, TypeOK, HardOver
  <2> QED BY <1>6, <2>1, RoundStep DEF LostRound, ServoInv, TypeOK
<1>7. ASSUME NEW spe \in 0..2, NEW n \in Differences, SteerRound(n, spe)
      PROVE  ServoInv'
  <2>1. n \in Int
    BY DifferencesAssumption
  <2>2. resultturn' \in Int /\ error1' \in Int /\ error1' = Polynomial(n)
    BY <1>7, <2>1, SteeredType, PolynomialType DEF SteerRound, ServoInv, HardOver
  <2>3. held' \in Seq(Differences) /\ Len(held') <= 2 /\ held'[1] = n
    BY <1>7 DEF SteerRound, ServoInv, TypeOK
  <2> QED BY <1>7, <2>2, <2>3, RoundStep DEF SteerRound
<1>8. CASE UNCHANGED vars
  BY <1>8 DEF vars, timerVars, steerVars, ServoInv, TypeOK, Ready
<1> QED BY <1>1, <1>2, <1>3, <1>4, <1>5, <1>6, <1>7, <1>8 DEF Next

THEOREM ServoIsInvariant == Spec => []ServoInv
<1>1. Init => ServoInv
  BY ServoInit
<1>2. ServoInv /\ [Next]_vars => ServoInv'
  BY ServoNext
<1> QED BY <1>1, <1>2, PTL DEF Spec

LEMMA ServoInvImpliesWave == ServoInv => WaveAsAsked
<1>0. ASSUME ServoInv, at = "run", NEW ch \in Channel
      PROVE  CLKS[Of(ch)] = 1
  BY <1>0, CallFacts DEF ServoInv
<1> SUFFICES ASSUME ServoInv, NEW ch \in Channel, Ready(ch), CLKS[Of(ch)] = 1
             PROVE  Wave(ch)
  BY <1>0 DEF WaveAsAsked
<1>1. Of(ch) \in Timer /\ Frequency(ch) \in {300, 10000}
  BY CallFacts
<1>2. /\ MOD[Of(ch)] = Modulo(Frequency(ch), Chosen(Frequency(ch)))
      /\ PS[Of(ch)] = Chosen(Frequency(ch))
      /\ CnV[ch] = Width(MOD[Of(ch)], asked[ch])
  BY DEF ServoInv
<1>3. MOD[Of(ch)] \in Int /\ 0 < MOD[Of(ch)] /\ MOD[Of(ch)] <= Reg
  BY <1>1, <1>2, PeriodFits
<1>4. 0 <= asked[ch] /\ asked[ch] <= Full =>
        /\ Full * CnV[ch] <= MOD[Of(ch)] * asked[ch]
        /\ MOD[Of(ch)] * asked[ch] < Full * (CnV[ch] + 1)
  <2> SUFFICES ASSUME 0 <= asked[ch], asked[ch] <= Full
               PROVE  /\ Full * CnV[ch] <= MOD[Of(ch)] * asked[ch]
                      /\ MOD[Of(ch)] * asked[ch] < Full * (CnV[ch] + 1)
    OBVIOUS
  <2>1. asked[ch] \in Int
    BY DEF ServoInv, TypeOK
  <2>2. ASSUME NEW m \in Int, NEW d \in Int, m = MOD[Of(ch)], d = asked[ch]
        PROVE  /\ Full * CnV[ch] <= MOD[Of(ch)] * asked[ch]
               /\ MOD[Of(ch)] * asked[ch] < Full * (CnV[ch] + 1)
    <3>1. 0 < m /\ m <= Reg /\ 0 <= d /\ d <= Full
      BY <1>3, <2>2
    <3>2. Full * Width(m, d) <= m * d /\ m * d < Full * (Width(m, d) + 1)
      BY <3>1, WidthIsShare
    <3>3. CnV[ch] = Width(m, d)
      BY <1>2, <2>2
    <3> QED BY <2>2, <3>2, <3>3
  <2> QED BY <1>3, <2>1, <2>2
<1>6. PICK f : f = Frequency(ch)
  OBVIOUS
<1>7. Quotient(f) - (Modulo(f, Chosen(f)) + 1) * Power[Chosen(f) + 1] \in 0..(Power[Chosen(f) + 1] - 1)
  BY <1>1, <1>6, PeriodFits
<1>8. Quotient(Frequency(ch)) - (MOD[Of(ch)] + 1) * Power[PS[Of(ch)] + 1]
        \in 0..(Power[PS[Of(ch)] + 1] - 1)
  BY <1>2, <1>6, <1>7
<1> QED BY <1>3, <1>4, <1>8 DEF Wave

\* The wave of every channel is the one asked for (WaveAsAsked).
THEOREM WavesAreAsAsked == Spec => []WaveAsAsked
  BY ServoIsInvariant, ServoInvImpliesWave, PTL

\* The second round that steers by the same difference.
LEMMA KickStep ==
  ASSUME ServoInv, Next, resultturn' # resultturn, resultturn' \notin {3700, 5600},
         Len(held') = 2, held'[1] = held'[2]
  PROVE  resultturn' = MEDIAN + Cut(streepid.p * Polynomial(held'[1]), 1000)
<1>1. PICK n \in Differences : SteerRound(n, 0)
  BY DEF Next, InitBasic, HalfDuty, StartClock, SetDuty, EditGains, LostRound, SteerRound,
         HardOver, timerVars, steerVars
<1>3. held # <<>> /\ held'[1] = n /\ held[1] = n
  BY <1>1 DEF SteerRound, ServoInv, TypeOK
<1>4. error1 = Polynomial(n) /\ Polynomial(n) \in Int
  BY <1>3, PolynomialType, DifferencesAssumption DEF ServoInv
<1>5. Polynomial(n) - error1 = 0
  BY <1>4
<1>6. resultturn' = MEDIAN + Cut(streepid.p * Polynomial(n), 1000) + Cut(streepid.d * 0, 1000)
  BY <1>1, <1>5 DEF SteerRound, Steered
<1>7. streepid.p \in Int /\ streepid.d \in Int
  BY GainTypes DEF ServoInv
<1>8. Cut(streepid.d * 0, 1000) = 0
  BY <1>7, SMT DEF Cut
<1>9. streepid.p * Polynomial(n) \in Int
  BY <1>4, <1>7, SMT
<1>10. \A a \in Int : Cut(a, 1000) \in Int
  BY SMT DEF Cut
<1>11. Cut(streepid.p * Polynomial(n), 1000) \in Int
  BY <1>9, <1>10
<1>12. \A x \in Int : MEDIAN + x + 0 = MEDIAN + x
  BY DEF MEDIAN
<1>13. resultturn' = MEDIAN + Cut(streepid.p * Polynomial(n), 1000) + 0
  BY <1>6, <1>8
<1>14. resultturn' = MEDIAN + Cut(streepid.p * Polynomial(n), 1000)
  BY <1>11, <1>12, <1>13
<1> QED BY <1>3, <1>14

\* The derivative of streePID() lasts one round (KickLastsOneRound).
THEOREM KicksLastOneRound == Spec => KickLastsOneRound
<1> DEFINE Kick ==
      resultturn' # resultturn /\ resultturn' \notin {3700, 5600} /\ Len(held') = 2 /\ held'[1] = held'[2]
        => resultturn' = MEDIAN + Cut(streepid.p * Polynomial(held'[1]), 1000)
<1>1. ServoInv /\ [Next]_vars => [Kick]_vars
  BY KickStep
<1> QED BY <1>1, ServoIsInvariant, PTL DEF Spec, KickLastsOneRound
=============================================================================
