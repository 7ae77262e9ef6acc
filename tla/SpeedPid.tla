------------------------------ MODULE SpeedPid ------------------------------
(***************************************************************************)
(* The arithmetic of speedPID() in ctrl.c: an incremental controller whose *)
(* terms are int16_t.  A gain is a float that the Set page counts in       *)
(* tenths, so it is given in tenths here; the rounding of the float, which *)
(* may move a product to the next integer, is left out.                    *)
(***************************************************************************)
EXTENDS Integers

CONSTANTS Counts,      \* what the encoder may have counted in one round
          Half,        \* half the range of an int16_t: 32768
          KP, KI, KD,  \* the gains, in tenths
          Target,      \* the speed that is asked for, as an int16_t
          KWPLUSMAX,   \* limit of a term, and of one step of the duty: 190
          KOUPLUSMAX   \* the largest duty: 5000

ASSUME SpeedPidAssumption ==
  /\ Half \in Nat \ {0} /\ Counts \subseteq 0..(Half - 1) /\ 0 \in Counts
  /\ {KP, KI, KD} \subseteq Nat /\ Target \in -Half..(Half - 1)
  /\ KWPLUSMAX \in Nat \ {0} /\ KOUPLUSMAX \in Nat
  /\ 3 * KWPLUSMAX < Half /\ KOUPLUSMAX + KWPLUSMAX < Half

\* The value that the low bits of n have as an int16_t.
Int16(n) == ((n + Half) % (2 * Half)) - Half

Clamp(n, lo, hi) == IF n < lo THEN lo ELSE IF n > hi THEN hi ELSE n

\* The product of a gain and a difference, cut off towards 0.
Product(k, d) == IF d >= 0 THEN (k * d) \div 10 ELSE -((k * (-d)) \div 10)

\* A term is narrowed before it is limited, so that a large product changes its sign.
Term(k, d) == Clamp(Int16(Product(k, d)), -KWPLUSMAX, KWPLUSMAX)

\* Mutant: the step is what the three terms add up to.
StepUnlimited(p, i, d) == d - i + p

StepOf(p, i, d) == Clamp(d - i + p, -KWPLUSMAX, KWPLUSMAX)

Output(duty, step) == Clamp(duty + step, 0, KOUPLUSMAX)

\* Mutant: the error has the wrong sign.
TermPReversed(n) == Term(KP, Int16(n - Target))

\* The terms, given the count n and the two before, newest first.
TermP(n)         == Term(KP, Int16(Target - n))
TermI(n, c1)     == Term(KI, Int16(n - c1))
TermD(n, c1, c2) == Term(KD, Int16(c2 + n - 2 * c1))

DutyAfter(duty, n, c1, c2) ==
  Output(duty, StepOf(TermP(n), TermI(n, c1), TermD(n, c1, c2)))

\* The error at the count n and its product are values of an int16_t, and the product is
\* not cut off to 0.
Int16s == -Half..(Half - 1)
Fits(n) == Target - n \in Int16s /\ Product(KP, Target - n) \in Int16s \ {0}
=============================================================================
