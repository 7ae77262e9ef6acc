--------------------------- MODULE EncoderProofs ---------------------------
(***************************************************************************)
(* No pulse of the encoder is counted twice, for any width of the counter, *)
(* each round loses pulses only to a full count of its own, and a channel  *)
(* that is off comes back.                                                 *)
(***************************************************************************)
EXTENDS Encoder, TLAPS

\* The state DMA_PulseCountInit() leaves satisfies the invariant.
LEMMA InitInv == Init => EncoderInv
<1> SUFFICES ASSUME Init PROVE EncoderInv
  OBVIOUS
<1>1. spent \in BOOLEAN
  BY Zenon DEF Init
<1> QED
  BY <1>1, EncoderAssumption DEF Init, EncoderInv, TypeOK, EveryPulseOnce, Gap

\* What one pulse does to the channel, wherever it comes.
LEMMA PulseChannel ==
  ASSUME EncoderInv, Pulse
  PROVE  /\ citer' \in 0..CITER_MASK /\ erq' \in {0, 1} /\ (citer' = 0 => at = "set")
         /\ at # "set" => CITER_MASK - citer' <= came'
         /\ at # "set" /\ erq' = 0 => erq = 0 \/ came' >= CITER_MASK
<1> USE EncoderAssumption DEF EncoderInv, TypeOK
<1>1. came' = came + 1 /\ came \in Nat /\ citer \in 0..CITER_MASK /\ erq \in {0, 1}
      /\ (citer = 0 => at = "set") /\ (at # "set" => CITER_MASK - citer <= came)
  BY DEF Pulse
<1>2. CASE erq = 0 /\ UNCHANGED chl
  BY <1>1, <1>2 DEF chl
<1>3. CASE erq = 1 /\ citer > 1 /\ citer' = citer - 1 /\ erq' = erq
  BY <1>1, <1>3
<1>4. CASE erq = 1 /\ citer = 1 /\ citer' = CITER_MASK /\ erq' = 0
  BY <1>1, <1>4
<1>5. CASE erq = 1 /\ citer = 0 /\ citer' \in 0..CITER_MASK /\ erq' \in {0, 1}
  BY <1>1, <1>5
<1> QED
  BY <1>2, <1>3, <1>4, <1>5 DEF Pulse

\* A pulse is one more in total, and in one of the four sums.
LEMMA PulseSum == EncoderInv /\ Pulse => EveryPulseOnce' /\ lost' \in Nat /\ inGap' \in Nat
<1> SUFFICES ASSUME EncoderInv, Pulse PROVE EveryPulseOnce' /\ lost' \in Nat /\ inGap' \in Nat
  OBVIOUS
<1> USE EncoderAssumption DEF EncoderInv, TypeOK
<1>1. /\ total' = total + 1 /\ UNCHANGED <<at, ENCODE, counted>>
      /\ total \in Nat /\ counted \in Nat /\ inGap \in Nat /\ lost \in Nat /\ citer \in 0..CITER_MASK
  BY DEF Pulse
<1>2. CASE at \in Gap
  <2>1. inGap' = inGap + 1 /\ lost' = lost
    BY <1>2 DEF Pulse
  <2> QED
    BY <1>1, <1>2, <2>1 DEF EveryPulseOnce
<1>3. CASE at \notin Gap
  <2>1. inGap' = inGap /\ citer # 0 /\ total = counted + inGap + lost + CITER_MASK - citer
        /\ lost' = IF erq = 0 THEN lost + 1 ELSE IF citer = 1 THEN lost + CITER_MASK ELSE lost
    BY <1>1, <1>3 DEF Pulse, EveryPulseOnce, Gap
  <2>2. CASE erq = 0
    <3>1. citer' = citer
      BY <2>2 DEF Pulse, chl
    <3> QED
      BY <1>1, <1>3, <2>1, <2>2, <3>1 DEF EveryPulseOnce
  <2>3. CASE erq = 1 /\ citer > 1
    <3>1. citer' = citer - 1
      BY <1>1, <2>3 DEF Pulse
    <3> QED
      BY <1>1, <1>3, <2>1, <2>3, <3>1 DEF EveryPulseOnce
  <2>4. CASE erq = 1 /\ citer = 1
    <3>1. citer' = CITER_MASK
      BY <2>4 DEF Pulse
    <3> QED
      BY <1>1, <1>3, <2>1, <2>4, <3>1 DEF EveryPulseOnce
  <2> QED
    BY <1>1, <2>1, <2>2, <2>3, <2>4
<1> QED
  BY <1>2, <1>3

\* A pulse keeps the invariant.
LEMMA PulseInv == EncoderInv /\ Pulse => EncoderInv'
<1> SUFFICES ASSUME EncoderInv, Pulse PROVE EncoderInv'
  OBVIOUS
<1>1. /\ UNCHANGED <<at, ENCODE, counted>> /\ total' = total + 1 /\ came' = came + 1
      /\ spent' = (spent \/ came' >= CITER_MASK \/ at = "set")
  BY DEF Pulse
<1>2. TypeOK'
  BY <1>1, PulseChannel, PulseSum DEF EncoderInv, TypeOK
<1>3. erq' = 0 => spent'
  BY <1>1, PulseChannel DEF EncoderInv
<1>4. erq' = 0 /\ at' \notin {"set", "enable"} => came' >= CITER_MASK
  BY <1>1, PulseChannel, EncoderAssumption DEF EncoderInv, TypeOK
<1> QED
  BY <1>1, <1>2, <1>3, <1>4, PulseChannel, PulseSum DEF EncoderInv

\* So do the steps of the speed task: reading moves what the counter holds to counted,
\* and setting the counter forgets what had come before.
LEMMA RoundInv == EncoderInv /\ (Tick \/ Round) => EncoderInv'
<1> SUFFICES ASSUME EncoderInv, Tick \/ Round PROVE EncoderInv'
  OBVIOUS
<1> USE EncoderAssumption DEF EncoderInv, TypeOK, EveryPulseOnce, Gap, sums, chl, since
<1>1. CASE Tick
  BY <1>1 DEF Tick
<1>2. CASE ReadCounter
  BY <1>2 DEF ReadCounter
<1>3. CASE Control \/ DMA_CancelTransfer
  BY <1>3 DEF Control, DMA_CancelTransfer
<1>4. CASE ClearCounter \/ SetCounter
  BY <1>4 DEF ClearCounter, SetCounter, SetField
<1>5. CASE DMA_EnableRequest
  <2>1. spent' \in BOOLEAN
    BY <1>5, Zenon DEF DMA_EnableRequest
  <2> QED
    BY <1>5, <2>1 DEF DMA_EnableRequest
<1> QED
  BY <1>1, <1>2, <1>3, <1>4, <1>5 DEF Round

LEMMA StepInv == EncoderInv /\ [Next]_vars => EncoderInv'
<1>1. EncoderInv /\ UNCHANGED vars => EncoderInv'
  BY DEF vars, chl, sums, since, EncoderInv, TypeOK, EveryPulseOnce
<1> QED
  BY <1>1, PulseInv, RoundInv DEF Next

\* The invariant holds at every moment.
THEOREM EncoderSafe == Spec => []EncoderInv
<1> QED
  BY InitInv, StepInv, PTL DEF Spec

\* A count never fills the word.
THEOREM EncoderTypes == Spec => []TypeOK
<1>1. EncoderInv => TypeOK
  BY DEF EncoderInv
<1> QED
  BY <1>1, EncoderSafe, PTL

\* Every pulse is counted once, or has come in the gap, or was lost to a counter that ran
\* full or a channel that was off.
THEOREM PulsesCountedOnce == Spec => []EveryPulseOnce
<1>1. EncoderInv => EveryPulseOnce
  BY DEF EncoderInv
<1> QED
  BY <1>1, EncoderSafe, PTL

\* Only a pulse loses pulses: one that finds the channel off or fills the count.  In either
\* case the invariant has CITER_MASK pulses since the counter was set, unless the round
\* has yet to enable the channel.
LEMMA LossStep ==
  EncoderInv /\ [Next]_vars => (lost' # lost => came' >= CITER_MASK \/ (at = "enable" /\ spent))
<1> SUFFICES ASSUME EncoderInv, [Next]_vars, lost' # lost
             PROVE  came' >= CITER_MASK \/ (at = "enable" /\ spent)
  OBVIOUS
<1>1. Pulse
  BY DEF Next, Round, Tick, ReadCounter, Control, DMA_CancelTransfer, ClearCounter, SetCounter, SetField,
         DMA_EnableRequest, vars, sums
<1>2. at # "set" /\ came' = came + 1 /\ came \in Nat /\ CITER_MASK \in Nat /\ citer \in 0..CITER_MASK
      /\ (erq = 0 \/ citer = 1)
  BY <1>1, EncoderAssumption DEF Pulse, Gap, EncoderInv, TypeOK
<1>3. CASE erq = 0
  BY <1>2, <1>3 DEF EncoderInv
<1>4. CASE citer = 1
  BY <1>2, <1>4 DEF EncoderInv
<1> QED
  BY <1>2, <1>3, <1>4

\* In each round, however many pulses earlier rounds have seen or lost, a pulse outside the
\* gap is lost to a full count of this round, or before the channel is enabled again.
THEOREM LossIsFullCount == Spec => LossNeedsFullCount
<1> QED
  BY EncoderSafe, LossStep, PTL DEF Spec, LossNeedsFullCount

(***************************************************************************)
(* Liveness: what lasts from a tick to the end of the round that the tick  *)
(* begins does not last for ever.                                          *)
(***************************************************************************)
\* A channel that a full count or a pulse in the clear field has switched off is enabled
\* again by the end of the round that begins next.
THEOREM CounterIsRevived == FairSpec => CounterRevives
<1> DEFINE Off == erq = 0
           On == erq = 1
           Pending == at # "delay"
<1>1. Off /\ Pending /\ [Next]_vars => Pending' \/ ~ Off'
  <2> SUFFICES ASSUME Off, Pending, [Next]_vars, Off' PROVE Pending'
    OBVIOUS
  <2>1. CASE Pulse
    BY <2>1 DEF Pulse
  <2>2. CASE DMA_EnableRequest
    BY <2>2 DEF DMA_EnableRequest
  <2>3. CASE ~ Pulse /\ ~ DMA_EnableRequest
    BY <2>3 DEF Next, Tick, Round, ReadCounter, Control, DMA_CancelTransfer, ClearCounter, SetCounter,
                SetField, vars, chl
  <2> QED
    BY <2>1, <2>2, <2>3
<1>2. <<Tick>>_vars => ~ Pending /\ Pending'
  BY DEF Tick
<1>3. EncoderInv /\ ~ Off => On
  BY DEF EncoderInv, TypeOK
<1>4. FairSpec => (Off ~> On)
  <2> HIDE DEF Off, On, Pending
  <2> QED
    BY <1>1, <1>2, <1>3, EncoderSafe, PTL DEF FairSpec, Spec
<1> QED
  BY <1>4 DEF CounterRevives

\* A pulse outside the gap shows in the count that the next round reads, unless the channel
\* is switched off before.
THEOREM PulseSeen == FairSpec => PulseIsSeen
<1> DEFINE Come == at \notin Gap /\ citer # CITER_MASK
           Seen == (at = "control" /\ ENCODE > 0) \/ erq = 0
           Waits == Come /\ erq = 1
           Due == at = "read" /\ citer # CITER_MASK /\ erq = 1
<1>1. EncoderInv /\ Come => Waits \/ Seen
  BY DEF EncoderInv, TypeOK
<1>2. EncoderInv /\ Waits /\ [Next]_vars => Waits' \/ Seen'
  <2> SUFFICES ASSUME EncoderInv, Waits, [Next]_vars PROVE Waits' \/ Seen'
    OBVIOUS
  <2>1. at \in {"delay", "read", "enable"} /\ citer \in 1..(CITER_MASK - 1) /\ CITER_MASK \in Nat
    BY EncoderAssumption DEF EncoderInv, TypeOK, Gap
  <2>2. CASE Pulse
    BY <2>1, <2>2 DEF Pulse
  <2>3. CASE ReadCounter
    BY <2>1, <2>3 DEF ReadCounter
  <2>4. CASE DMA_EnableRequest \/ Tick \/ UNCHANGED vars
    BY <2>1, <2>4 DEF DMA_EnableRequest, Tick, vars, chl, Gap
  <2>5. CASE Control \/ DMA_CancelTransfer \/ ClearCounter \/ SetCounter
    BY <2>1, <2>5 DEF Control, DMA_CancelTransfer, ClearCounter, SetCounter, SetField
  <2> QED
    BY <2>2, <2>3, <2>4, <2>5 DEF Next, Round
<1>3. EncoderInv /\ Due /\ [Next]_vars => Due' \/ Seen'
  <2> SUFFICES ASSUME EncoderInv, Due, [Next]_vars PROVE Due' \/ Seen'
    OBVIOUS
  <2>1. citer \in 1..(CITER_MASK - 1) /\ CITER_MASK \in Nat
    BY EncoderAssumption DEF EncoderInv, TypeOK
  <2>2. CASE Pulse
    BY <2>1, <2>2 DEF Pulse
  <2>3. CASE ReadCounter
    BY <2>1, <2>3 DEF ReadCounter
  <2>4. CASE ~ Pulse /\ ~ ReadCounter
    BY <2>1, <2>4 DEF Next, Round, DMA_EnableRequest, Tick, Control, DMA_CancelTransfer, ClearCounter,
                      SetCounter, SetField, vars, chl
  <2> QED
    BY <2>2, <2>3, <2>4
<1>4. Waits /\ <<Tick>>_vars => Due' /\ ~ Due
  BY DEF Tick, chl
<1>5. Due /\ <<Tick>>_vars => FALSE
  BY DEF Tick
<1>6. FairSpec => (Come ~> Seen)
  <2> HIDE DEF Come, Seen, Waits, Due
  <2> QED
    BY <1>1, <1>2, <1>3, <1>4, <1>5, EncoderSafe, PTL DEF FairSpec, Spec
<1> QED
  BY <1>6 DEF PulseIsSeen
=============================================================================
