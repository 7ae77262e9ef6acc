------------------------------ MODULE Encoder -------------------------------
(***************************************************************************)
(* The encoder of the wheel: each of its pulses is a DMA request, and the  *)
(* loop counter of channel 1 counts them down (conm.c).  The speed task    *)
(* reads the counter, lets speedCtrl() work, and sets it again             *)
(* (speedStartTask() of app.c, dma.c).  A pulse may come between any two   *)
(* accesses.                                                               *)
(***************************************************************************)
EXTENDS Integers

CONSTANTS CITER_MASK,  \* the largest count of the loop counter: 0x7FFF
          MaxPulses    \* bound: pulses in all

ASSUME EncoderAssumption == CITER_MASK \in Nat \ {0} /\ MaxPulses \in Nat

VARIABLES at,       \* where the speed task stands
          citer,    \* the field CITER of the channel
          erq,      \* 1 if the channel takes requests
          ENCODE,   \* the count of the last round
          total,    \* auxiliary: pulses that have come ...
          counted,  \* ... that some ENCODE has held ...
          inGap,    \* ... that came after the counter was read and before it was set
          lost,     \* ... and that came while the channel was off or filled the count
          came,     \* auxiliary: pulses since the counter was set
          spent     \* auxiliary: since the channel was enabled the counter has run full, or
                    \* a pulse has come while its field was clear

chl == <<citer, erq>>
sums == <<total, counted, inGap, lost>>
since == <<came, spent>>
vars == <<at, chl, ENCODE, sums, since>>

\* DMA_PulseCountInit(); the speed task comes later.
Init ==
  /\ at = "read" /\ citer = CITER_MASK /\ erq = 1 /\ ENCODE = 0
  /\ total = 0 /\ counted = 0 /\ inGap = 0 /\ lost = 0
  /\ came = 0 /\ spent = FALSE

\* The places between the read of the counter and the second write that sets it.
Gap == {"control", "cancel", "clear", "set"}

(***************************************************************************)
(* The hardware.  A pulse moves one byte, which is a whole minor loop.     *)
(***************************************************************************)
\* The last loop reloads the counter and, with DREQ set, switches the channel off.
\* What the hardware makes of the 0 that DMA_SetMajorLoopCounter() leaves for a moment
\* is not specified.
Pulse ==
  /\ total < MaxPulses /\ total' = total + 1
  /\ \/ erq = 0 /\ UNCHANGED chl
     \/ erq = 1 /\ citer > 1 /\ citer' = citer - 1 /\ erq' = erq
     \/ erq = 1 /\ citer = 1 /\ citer' = CITER_MASK /\ erq' = 0
     \/ erq = 1 /\ citer = 0 /\ citer' \in 0..CITER_MASK /\ erq' \in {0, 1}
  /\ IF at \in Gap
       THEN inGap' = inGap + 1 /\ lost' = lost
       ELSE /\ UNCHANGED inGap
            /\ lost' = IF erq = 0 THEN lost + 1 ELSE IF citer = 1 THEN lost + CITER_MASK ELSE lost
  /\ came' = came + 1
  /\ spent' = (spent \/ came' >= CITER_MASK \/ at = "set")
  /\ UNCHANGED <<at, ENCODE, counted>>

(***************************************************************************)
(* speedStartTask().                                                       *)
(***************************************************************************)
Tick ==
  /\ at = "delay" /\ at' = "read"
  /\ UNCHANGED <<chl, ENCODE, sums, since>>

\* Mutant: the start value of the counter is read.
ReadsStart ==
  /\ at = "read" /\ at' = "control"
  /\ ENCODE' = 0
  /\ counted' = counted + ENCODE'
  /\ UNCHANGED <<chl, total, inGap, lost, since>>

ReadCounter ==
  /\ at = "read" /\ at' = "control"
  /\ ENCODE' = CITER_MASK - citer
  /\ counted' = counted + ENCODE'
  /\ UNCHANGED <<chl, total, inGap, lost, since>>

\* speedCtrl(), in Drive.tla; it does not touch the channel, nor does the cancelling
\* of a transfer that one byte long has nothing left to move.
Control == at = "control" /\ at' = "cancel" /\ UNCHANGED <<chl, ENCODE, sums, since>>
DMA_CancelTransfer == at = "cancel" /\ at' = "clear" /\ UNCHANGED <<chl, ENCODE, sums, since>>

\* DMA_SetMajorLoopCounter() clears the field, then sets its bits.
SetField(from, to, value) ==
  /\ at = from /\ at' = to
  /\ citer' = value
  /\ UNCHANGED <<erq, ENCODE, sums>>

ClearCounter == SetField("clear", "set", 0) /\ UNCHANGED since

\* Mutant: the field is left cleared.
LeavesCleared == at = "set" /\ at' = "enable" /\ UNCHANGED <<chl, ENCODE, sums, since>>

SetCounter == SetField("set", "enable", CITER_MASK) /\ came' = 0 /\ spent' = spent

\* Mutant: the request is not enabled again.
EnablesNothing == at = "enable" /\ at' = "delay" /\ UNCHANGED <<chl, ENCODE, sums, since>>

DMA_EnableRequest ==
  /\ at = "enable" /\ at' = "delay"
  /\ erq' = 1 /\ spent' = FALSE
  /\ UNCHANGED <<citer, ENCODE, sums, came>>

\* Mutant: the request is enabled before the counter is set.
EnablesFirst ==
  \/ ReadCounter \/ Control \/ ClearCounter
  \/ /\ at = "cancel" /\ at' = "clear"
     /\ erq' = 1 /\ spent' = FALSE
     /\ UNCHANGED <<citer, ENCODE, sums, came>>
  \/ SetField("set", "delay", CITER_MASK) /\ came' = 0 /\ spent' = spent

Round == ReadCounter \/ Control \/ DMA_CancelTransfer \/ ClearCounter \/ SetCounter \/ DMA_EnableRequest

Next == Pulse \/ Tick \/ Round

Spec == Init /\ [][Next]_vars

\* The tick that ends a delay comes again and again: the timer does not stop, and each
\* round ends.  (One of Tick and Round is possible at any time, so this is weak fairness
\* of both.)  Nothing is assumed of the wheel.
FairSpec == Spec /\ []<><<Tick>>_vars

(***************************************************************************)
(* Properties.                                                             *)
(***************************************************************************)
\* A count never fills the word: it converts to int16_t and stays what it is.
TypeOK ==
  /\ at \in Gap \cup {"delay", "read", "enable"}
  /\ citer \in 0..CITER_MASK /\ (citer = 0 => at = "set") /\ erq \in {0, 1}
  /\ ENCODE \in 0..(CITER_MASK - 1)
  /\ total \in Nat /\ counted \in Nat /\ inGap \in Nat /\ lost \in Nat
  /\ came \in Nat /\ spent \in BOOLEAN

\* Every pulse is in the count of exactly one round, or has come between the read of
\* the counter and its reset (app.c:263 to 270), or is lost: it came while the channel
\* was off, or was in the counter when it ran full.  None is counted twice, although
\* the reset takes two writes and never stops the channel.
EveryPulseOnce ==
  total = counted + inGap + lost + (IF at \in Gap THEN 0 ELSE CITER_MASK - citer)

\* Each round starts afresh, whatever the rounds before it have lost: a pulse outside
\* the gap is lost only if CITER_MASK pulses have come since the counter was set in this
\* round.  The one exception is the moment between the setting of the counter and
\* DMA_EnableRequest() (app.c:270 to 271): the channel may still be off from the round
\* before, which ran full or had a pulse in its clear field.
LossNeedsFullCount ==
  [][lost' # lost => came' >= CITER_MASK \/ (at = "enable" /\ spent)]_vars

\* The inductive invariant: the counter holds no more than has come since it was set,
\* and a channel that is off was switched off since it was enabled, by a full count
\* unless the round is at its reset.
EncoderInv ==
  /\ TypeOK
  /\ EveryPulseOnce
  /\ at # "set" => CITER_MASK - citer <= came
  /\ erq = 0 => spent
  /\ erq = 0 /\ at \notin {"set", "enable"} => came >= CITER_MASK

\* A pulse that has come outside the gap shows in the count the speed task reads next,
\* unless the channel is switched off before.
PulseIsSeen ==
  (at \notin Gap /\ citer # CITER_MASK) ~> ((at = "control" /\ ENCODE > 0) \/ erq = 0)

\* A channel that is off, by a full count or by a pulse in the clear field, is on again
\* when the next round of the speed task has ended.
CounterRevives == erq = 0 ~> erq = 1
=============================================================================
