------------------------------- MODULE MCServo -------------------------------
(***************************************************************************)
(* The servo on the clock of the build, CLOCK_SETUP 4 of                   *)
(* system_MK60D10.c: 32768 Hz * 2929, halved for the bus.                  *)
(***************************************************************************)
EXTENDS Servo

MCBusClock == (32768 * 2929) \div 2

\* Differences of both signs, and one whose duty is negative under the larger gain.
MCDifferences == {-15, 0, 4, 28}
=============================================================================
