----------------------------- MODULE MCFirmware -----------------------------
(***************************************************************************)
(* The firmware with its own priorities and short times.                   *)
(***************************************************************************)
EXTENDS Firmware

\* All six tasks, and those that share state in Firmware.
AllPrio == 4..9
SharingPrio == {4, 6, 8, 9}
MCMsg == 1..5

\* 200 ticks become 2, 5 become 1; the Set page waits for ever.
MCKeyTimeout == [p \in {"Menu", "Run", "State", "Set", "Read"} |->
  CASE p \in {"Menu", "Run"} -> 2 [] p \in {"State", "Read"} -> 1 [] OTHER -> 0]
=============================================================================
