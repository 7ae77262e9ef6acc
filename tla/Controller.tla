----------------------------- MODULE Controller -----------------------------
(***************************************************************************)
(* What the callers of speedPID() rely on: a call takes one count, sees it *)
(* with the counts of the two calls before, and moves the duty by one      *)
(* step.  Nothing happens in between.                                      *)
(***************************************************************************)
EXTENDS SpeedPid

VARIABLES c1, c2,  \* the counts of the last call and of the one before
          duty     \* what the last call came to

cvars == <<c1, c2, duty>>

CInit == c1 = 0 /\ c2 = 0 /\ duty = 0

Update(n) ==
  /\ duty' = DutyAfter(duty, n, c1, c2)
  /\ c1' = n /\ c2' = c1

CNext == \E n \in Counts : Update(n)

CSpec == CInit /\ [][CNext]_cvars

\* A call that sees the same count for the third time moves the duty against the error,
\* until there is no duty further that way.
Corrects ==
  [][\A n \in Counts :
       c1 = n /\ c2 = n /\ Fits(n) /\ Update(n) =>
         IF n < Target THEN duty' > duty \/ duty' = KOUPLUSMAX
         ELSE duty' < duty \/ duty' = 0]_cvars
=============================================================================
