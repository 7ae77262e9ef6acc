# Formal models of the smart-car firmware

The program is the firmware of a line-following model car on an MK60D10, a
few tasks on uC/OS-II v2.92. This directory holds TLA+ models of it, the TLC
runs that check them and the proofs TLAPS checks.

## The system

| Part | Source | State | Operations | Talks to |
| --- | --- | --- | --- | --- |
| Kernel | `utilities/uCOSII/core/os_{core,mbox,task,time}.c`, `port/` | ready list, per-task status, delay, message, wait list and slot of a mailbox | scheduler, tick, delays, create, delete, suspend and resume of tasks, mailbox create, accept, pend, abort, post, broadcast, delete | every task |
| Boot and tasks | `src/main.c`, `app/app.c` | priorities, tick on or off | `main`, `allInit`, `AppStartTast`, five task loops | kernel services |
| Key scanner | `app.c:68`, `work/KEY/key.c` | key of the last scan, its age, repeat count | scan, release, repeat | posts to `msg_key`, drops when full |
| Pages | `work/UI/ui.c` | page, arrow, cursor and edit state of the Set page | Menu, Run, State, Set, Record, Read | pend on `msg_key`; `speedswitch`, duties, parameters |
| Parameter store | `work/FLASHUI/FlashUI.c` | one flash sector of seven words | `Falsh_Reserve`, `Flash_Read`, erase, write | parameters of both controllers |
| Steering | `work/AD/ad.c`, `work/CTRL/ctrl.c` | sample filters, `sum_diff`, lost-line latch `spe`, servo duty | `ad`, `guiyi`, `ctrl`, `streePID` | AD writes what TURN reads, no lock |
| Drive | `ctrl.c:52`, `ctrl.c:144` | `speedswitch`, statics of `speedPID`, duties of the bridge | `speedCtrl`, `speedPID` | called by the speed task and by the Run page |
| Encoder counter | `work/CONM/conm.c`, `drivers/K/src/dma.c` | a DMA loop counter | read, cancel, reset, enable | speed task |
| Timers | `work/PWM/pwm.c`, `drivers/K/src/ftm.c` | period, divider, clock and channel registers | `speedInit`, `FTM_PWM_QuickInit`, `FTM_PWM_ChangeDuty` | written by `speedCtrl`, `ctrl`, the pages |
| Mutex | `utilities/uCOSII/core/os_mutex.c` | owner, its original priority, ceiling, wait list | pend, accept, post, delete | kernel; built into the image, used by no task yet |
| Display, Bluetooth, drivers | `work/OLED`, `work/BLUETOOTH`, `drivers` | registers | output | - |

Scheduling is preemptive with one task per priority: START 4, AD 5, SPEED 6,
TURN 7, KEY 8, UI 9 (a smaller number is more urgent). Tasks share plain globals
and take no lock; a task is only preempted by a more urgent one, after a tick or
in a kernel call. All delays used, 5 ms and 10 ms, are one tick of 10 ms.

Hard to test: the tick between any two critical sections; a mailbox timeout
racing a post; a task preempted between two statements that must agree (the two
duties, the tests of `ctrl`, the two values of `sum_diff`); the order in which
tasks come up; a power cut between two flash commands; long key sequences;
conversions between floats and flash words. `PROJECT.json` lists each at its line.

What makes each part correct: the kernel runs the most urgent ready task, its
lists agree with its control blocks, and a message is neither lost once
accepted nor delivered twice; the motor is driven on the Run page only and stops
when told to; every accepted key reaches a page; the Set page edits the item it
highlights and the sector holds what it shows; steering uses whole differences,
tells a lost line from one bad sample, and comes back from it; each channel of the
timers gives the period and share asked of it; a task blocked on the mutex waits for
its owner and for more urgent tasks only.

## Modules

| Module | Models | Code to model |
| --- | --- | --- |
| `Mailbox` | abstract mailbox: slot, messages in hand, waiters, results; no scheduler, clock or suspension | what callers rely on |
| `Kernel` | the kernel, tasks named by their priority | an action is one critical section; a service that ends in `OS_Sched()` leaves `pc` at `sched` (or `pendSched`), and `OS_Sched` is the next action, so the tick fits in between; variables keep the kernel's names, status bits are a set |
| `Firmware` | `app.c` and the pages on the kernel (EXTENDS `Kernel`) | `step[p]` is the place of task p in its own code; an action lies between two accesses to shared state; a kernel call is the kernel's own action |
| `SetPage` | `Set_UI()`, `Falsh_Reserve()`, `Flash_Read()` | a key is an action, and so is each flash command; power may be cut between them |
| `Steering` | `AdStartTask()`, `ad()`, `ctrl()` | one action per test of the coils in `ctrl()` and per write of `sum_diff`; AD preempts between any two |
| `SpeedPid` | the arithmetic of `speedPID()`, in narrowed integers | gains are tenths, the width is a constant |
| `Controller` | abstract speed controller: a call is one step | what `speedPID()` promises its callers |
| `Drive` | `speedPID()` statement by statement, in the SPEED task and in the Run page | `at[t]` is the statement, `loc[t]` the locals of a call; the statics are variables of their own |
| `Encoder` | the counter of pulses, its DMA channel and the round of the SPEED task | one action per access to the channel; a pulse may come between any two |
| `Servo` | the timers' registers through `speedInit()`, the polynomial and the derivative of `streePID()` | one action per call of `FTM_PWM_ChangeDuty()` and per group of register writes; a division by zero has both outcomes |
| `PriorityLock` | abstract lock: owner, who was told, who waits; no scheduler, clock or ceiling | what callers of a mutex rely on |
| `Mutex` | the mutex with scheduler, tick and delay | a task is named by the priority it was created with, `OSTCBPrio` is the one it has now; otherwise as `Kernel` |
| `KernelProofs`, `SteeringProofs`, `SetPageProofs`, `DriveProofs`, `EncoderProofs`, `ServoProofs`, `MutexProofs`, `FirmwareProofs` | theorems | - |
| `MCKernel`, `MCFirmware`, `MCServo`, `MCMutex` | constants for TLC | - |

`Firmware` composes tasks and kernel. The others stand alone: AD and TURN
(`Steering`) share nothing with the other tasks but processor time, which
`Firmware` keeps (`SteeringWork`); while the Set page is shown the user interface
alone writes the parameters (`SetPage`); `Drive` keeps the priorities of SPEED and
UI and what each writes of the motor, and takes its counts from `Encoder`; `Servo`
is written by one task at a time. `Mutex` repeats the scheduler of `Kernel`, because
a promoted owner has a priority that is not its name, which no task of `Kernel` has. `Firmware` treats key 4 on the Set page as
"stay or leave", which `SetPage` decides.

Data is abstract where no property needs it. A duty is off, brake or pid in
`Firmware`; in `Steering` it is a symbol that names the difference it was computed
from (the derivative term of `streePID`, which also depends on the difference
before, is left out). A float parameter is its number of tenths and whether it lies
just below, at or just above it, which is all `(int)(p*10)` tells apart; adding 0.1
may leave it on any of the three. Where a conversion to `u32` is undefined,
`clamps` chooses clamping or wrapping, once per build. `keysave` in `app.c:75` is
uninitialised: every key it could hold is an initial state.

A definition after a `\* Mutant` comment is not part of the model: it is a
plausible mistake in the definition that follows it, kept to show that the
properties notice it.

## Runs

| Run | Checks | Instance |
| --- | --- | --- |
| `kernel_delete` | violated: the note at `os_mbox.c:267`, the status of a pend tells whether a message was received | as `kernel`, and a mailbox may be deleted while tasks wait |
| `kernel` | lists, preemption, outcomes of pend, the inductive invariant, refinement of `Mailbox` | three tasks that may call any service in any order, two messages, timeouts 0 to 2 |
| `firmware` | `MailboxBeforeUse`, `MotorOnlyOnRun`, `NoDriveWhileWaiting`, `RoundsNest`, the inductive invariant | all six tasks, keys 3 and 4 |
| `firmware_live` | `KeyIsRead`, `StopTakesEffect` | START, SPEED, KEY, UI; keys 2, 3, 4, which reach every page; with fairness |
| `set_page` | cursor, saves, values over a power cut, what failed commands leave true | one edit, two saves, one cut, one failure, limits of 1, words of 4 bits, tenths exact up to 13 |
| `steering` | filter, difference, latch, servo; three liveness properties | samples 0 and 250 |
| `drive` | the callers of `speedPID()` exclude each other and refine `Controller` unless key 3 repeats; `NoJerk` in any case; a stalled motor gets full power, one too fast is cut | counts 0, 4, 12; up to 2 rounds inside one call of the user interface; with fairness |
| `encoder` | each pulse is counted once or lost for a stated reason, each round loses pulses only to a full count of its own, the counter revives | a counter of 3, pulses between any two accesses |
| `servo` | the waves are the ones asked for, a kick of the derivative lasts one round | the bus clock of the build (48 MHz), differences of both signs, both outcomes of the division by zero |
| `mutex` | no priority inversion, strict preemption, the inductive invariant, refinement of `PriorityLock` | three users, a task above the ceiling, timeouts 0 to 3 |
| `mutex_owner_delays` | violated: the comment at `os_mutex.c:745`, the current task is at this priority | as `mutex`, and the owner may delay |
| `steering_average` | violated: the comment at `ad.c:93`, average of five | the newest of four counts twice |

Why the bounds are enough. Three tasks give a poster, a waiter more urgent
and one less urgent, or two waiters; a timeout of 2 expires between any two steps
or does not; messages are compared with nothing but the null pointer. The key
times are 1 (20 and 2 in the code), so that a held key repeats at once and again.
Page timeouts of 200 and 5 ticks are 2 and 1. A range of flash words of 4 bits
separates wrapped, clamped, erased and ordinary words; the limits of 99.9 and 999
are 1 and a sector of ones is an initial state, so that one edit crosses them; a float
holds tenths up to 2^23 (`Exact`), here 13, the most a word of 4 bits allows. Samples 0 and 250 give averages on both sides
of every threshold (50, 60, 200) and at 50 and 200 themselves, and full
averages need four rounds, which no bound cuts off. Three users of the mutex are an
owner, a waiter that has it promoted and one in between; a timeout of 3 lets a task
pend, be overtaken by a post and still time out. Deadlock is checked
wherever the system runs for ever; `SetPage` may stop because the counters of
edits, saves, cuts and failures run out.

Fairness. `firmware_live` assumes that the tick goes on (`[]<><<SysTick>>_vars`) and
that the idle task runs again and again, that is, the rounds of
the tasks fit between ticks: every task ends its round in a delay or a pend.
`steering` assumes the same of AD and TURN, `drive` of SPEED and UI, and
`encoder` of SPEED. Nothing is assumed about keys or pulses. The timer is
never off once it is on, so "again and again" asks no more of it than weak fairness
would: in `Steering` a tick is possible in every state, in `Encoder` the tick or
the rest of the round it ends, in `Firmware` in every state in which the idle task runs
after boot, and such a state lasts until the tick comes. The form without `ENABLED`
is the one the prover can reason about. `drive`, whose liveness is not proved, states
weak fairness.

What the models taught. `OSMboxDel()` with `OS_DEL_ALWAYS` readies every waiter
with the status of a good pend, so a waiter is told `OS_ERR_NONE` and handed the
null pointer. `PendOutcome`, that this never happens, is therefore checked and
proved for callers that delete only an empty wait list (`DeletesWaited` is
`FALSE`); the other properties of the kernel do not need it.

In `Steering` the converse of `ServoFollowsLatch` is false:
AD may bring the line back between the first and the second test of `ctrl()`,
which clears the latch and leaves the servo on a duty of an earlier round (or
on 0 in the first one). `StaleTurnHeals` shows that the next rounds mend it.

In `Drive` a key 3 that repeats into the Run page calls `speedPID()` while the SPEED
task may preempt it. An update of the duty by SPEED is then lost, but no jerk
follows: `NoJerk` bounds it by the rounds the call spans. A product that leaves
`int16_t` changes its sign before it is limited: gain 99.9 and error 999, both
allowed by the Set page, give 99800, stored as -31272, and a stalled motor would
be cut. `FollowsStandingError` therefore asks for a product that fits (`Fits`).
In `Encoder` the pulses between the read of the counter and its reset, over the whole
of `speedCtrl()`, are in no count (`inGap`). A full count switches the channel
off until `DMA_EnableRequest()` at the end of the next reset, and the pulses until then are
lost (`lost`). A pulse between the two writes of `DMA_SetMajorLoopCounter()` finds a
counter of 0, which may switch it off too, but only until that `DMA_EnableRequest()`.
`LossNeedsFullCount` says so of each round on its own: once the channel is enabled, a pulse
outside the gap is lost only after as many pulses since the counter was set as it can hold.

## Proofs

TLAPS proves, for all values of the constants under the assumptions named in the
modules, type correctness, every safety property that a passing run checks, the three
refinements, of `Mailbox`, `Controller` and `PriorityLock`, and every liveness property but
one, `FollowsStandingError`.

Liveness is proved without a measure, since all that has to happen happens within a
fixed number of rounds. A proof names the phases in between by state predicates and shows of
each, as an action formula, that a step keeps the phase or reaches the next one; a
phase that only a tick ends is left because ticks go on, and one that a round ends is
left because the state in which the rounds are over, which comes again and again,
excludes it. The prover of temporal logic combines these facts.

*Kernel.* `KernelInv` strengthens the properties with two facts. `PendStatus`
follows one task through `OSMboxPend()`: outside it has no MBOX bit, status OK and
no message; blocked it has status OK and no message; woken, it has a message
exactly if its status is OK. And a task that does not exist is in its initial
state. `RunsHighest` and `ReadyIffUnblocked` give that the running task is
unblocked, so that a task that stands after its `OS_Sched()` has been woken. The
proof has one lemma per action. `HighestMember`, that a non-empty set of
priorities has a smallest element, comes from well-foundedness of the naturals.
The refinement maps a post to `Deposit`, an abort to `Abort`, both ways of
receiving to `Take` or `Return`, and the rest to stuttering.
Assumptions: priorities are naturals below that of the idle task, the start task
is one of them, the null pointer is no message; for `PendOutcome` also
`~DeletesWaited`.

*Firmware.* Every step of the firmware is a step of the kernel or leaves its
variables alone (`FirmwareRunsOnKernel`), so `KernelInv` carries over. `FirmwareInv`
adds what the tasks rely on: `RoundsRest`, that a task is not ready only at the end of
its round or in its pend; `BootOrder`, how far START has come and which tasks
exist by then; `MotorOwner`, what `speedswitch` and the duties are at each place of
SPEED and UI. The argument is that of priorities: UI is the least urgent task, so
while it runs code of its own all others sleep, and by `RoundsRest` boot is over, the
mailbox exists and SPEED stands at the start of its round. SPEED may run
between any two writes of UI, but only whole rounds, and what such a round finds is in
`MotorOwner`. `RoundsNest` is that argument for every pair of tasks: a task takes a
step of its own only while every more urgent one rests at the end of its round. `Steering`,
`Drive` and `Encoder` build it into their schedulers; `RoundsAreNested` proves it of the
composition, from `RunsHighest` and `RoundsRest`. `FirmwareImplementsMailbox` carries the
refinement of `Mailbox` over to the tasks, which delete no mailbox. That the counts of a held key start afresh
with each press (`FreshPress`) is a conjunct of `FirmwareInv`.

The two liveness properties rest on `UiSleep`, how UI sleeps: with a
delay of one tick at the end of its round, or inside `OSMboxPend()`, and never suspended. It
is inductive because the others, the tick and the scheduler only shorten that sleep
(`OthersWork`). So when the idle task runs, UI sleeps for one tick or waits for
a key with none in the mailbox (`UiAtIdle`, from `MboxExclusive` and
`WaitListExact`). A key that stays in the mailbox leaves the first only
(`KeyReachesPage`): the tick makes UI ready, and the round that follows ends before the
idle task runs again. It takes the key, unless it is the one of Record, which asks for none; then
the round after it does. A stop key
(`StopIsEffective`) is handled in a round that ends on its way to the menu, and the
round of the menu brakes, by `MotorOwner` with `speedswitch` at 0. Assumptions: the priorities are those of `app.c` (AD and TURN may be left
out), the key times are naturals.

*Steering.* `SteeringInv`: both averages are those of the samples at all times, and
`sum_diff` is their difference outside a round of AD. Since TURN runs only when AD
has delayed, it never sees the transient value. `FilterForgives` is the
arithmetic: below 60 with the newest counted twice needs two samples below 200.
For `LineFollowed` and `StaleTurnMended` a tick that finds TURN asleep begins its round
(`OverUntilTick`). While the state the property wants ended lasts, that round cannot end:
`Pending` holds up to the test that sets or clears the latch, or up to the write of the
computed duty, whatever AD does between two tests of `ctrl()`. But rounds end again and again.
Assumption: samples are naturals.

*Set page.* `SetPageInv` adds `SaveProgress`: while a save runs without a failure,
the words before the next one are written and the others erased; and `SpeedIsInt`: the speed
is always a whole number, since it is loaded as one and edited in whole steps. `WordReadsBack`
is the arithmetic of `ShownSurvives`: page and save cut a value off to the same tenth, whether
it lies just below or above one, and the word of that tenth reads back as exactly that
tenth, clamped or wrapped. Assumptions: `Exact`, up to which a tenth of a word read as a float
gives that word again (2^23 in the code), and twice the limit of the speed, which is
read back as a signed `int`, fit the word.

*Drive.* Two arguments. Without a repeating key, `speedswitch` is a lock: the user
interface calls only while it is 0, SPEED only while it is 1 (`Exclusive`), so a
call finds the history it began with (`WholeCall`), and maps to one step of
`Controller` at the statement that shifts the history. With repeats, `DriftInv`
counts how many steps `SpeedLastPWMK` may be away from the duty SPEED wrote last.
`StandingErrorMoves` is the safety half of `FollowsStandingError`: a call that finds the same
count for the third time has no integral step of a change and no derivative one (`NoDifference`), and a
proportional one of the sign of the error (`ProductSign`), so the duty moves or is at its
limit. That the duty then arrives at its limit is left to TLC.
Assumptions: gains are not negative, the limits fit the width, that of a term is not 0.

*Encoder.* `EveryPulseOnce` is a sum over the pulses that have come: counted, in the
counter, in the gap, or lost. It is inductive with the places at which the
counter has been read. `LossNeedsFullCount` is a property of steps, and speaks of one round
by two history variables: `came`, the pulses since the counter was set, and `spent`, whether since
the channel was enabled the counter has run full or a pulse has come in its clear field. Its
invariant bounds what the counter has counted down by `came`, except between the two writes,
and has a channel that is off `spent`; one that is off from the delay to the clearing of the
field has seen a full count (`PulseChannel`), and setting the counter starts `came` afresh
while `spent` lasts until the channel is enabled. `LossStep` draws
the conclusion for the one step that loses pulses. `CounterIsRevived` and `PulseSeen` follow one round of SPEED, from
the tick that begins it to its reset of the counter or its read.

*Servo.* `ServoInv` gives the registers of every channel that is set up as functions
of its frequency and the duty asked. `NearestExists` shows that the loop over the eight
dividers leaves the nearest one, and a lemma on quotients that the period it gives
fits 16 bits. Assumption: a bus clock between 20 kHz and 2.5 GHz.

*Mutex.* `MutexInv` says that the tables name each task at its priority (`TablesAgree`),
that who is inside `OSMutexPend()` waits, has timed out, or owns the mutex
(`WaitStatus`), and that the owner is ready and at the ceiling only while somebody
waits (`OwnerStatus`). The last is what makes it inductive: while the owner is at the
ceiling no other user runs (`CeilingKeepsOut`), so nobody can time out and leave it
there, and nobody can pend and find it promoted. `OSPrioCur` may be wrong
in one place only, after a task above the ceiling has deleted the mutex
of a promoted owner, and that task calls `OS_Sched()` next (`CurrentStatus`).
`MutexInv`, `RunsHighest` and `NoInversion` assume that the owner does not delay
(`~OwnerDelays`): one that does can be found at the ceiling by a task that pends or
deletes. That the mutex has one owner and tells every pend truly needs less. `LockInv` keeps
the tables, who waits and who was told, of a mutex that is not deleted, and leaves the ceiling
out; `LockSafe` and the refinement of `PriorityLock` hold whether the owner delays or not.
That an owner does not pend again and that users are less urgent than the ceiling is in
the model, as the notes of `OSMutexPend()` and `OSMutexCreate()` demand.

Checked by TLC only: `FollowsStandingError` of `Drive`. The duty takes as many calls as its
distance to the limit asks for, so the proof would be an induction over that distance, in
temporal logic, which the prover does not have; `StandingErrorMoves` is the step of that induction.

## Not modelled

Of the kernel: the scheduler lock, `OSTaskChangePrio`, `OSTaskDelReq`, the option
`OS_POST_OPT_NO_SCHED`, the free lists of control blocks, the other event services,
the statistics and timer tasks; none is called by the firmware. `guiyi()` and
`max_min()` beyond the symbol their scale is, since `app.c:252` overwrites what they
compute; the half duty `FTM_PWM_QuickInit` starts with lasts a few instructions
only and is in `Servo` without a property; the Bluetooth task, whose creation is commented out; the display;
register set-up in the drivers; the rounding of float products, also those of the
duties in `Servo`; the width of the `int` that the polynomial of `streePID()` is converted to
(`ctrl.c:236`, and its products with the gains at 244 and 245): a difference beyond about 305, which
`sum_diff` can reach, leaves 32 bits there, which is undefined in C and saturates with
the usual instruction, while `Polynomial` goes on exactly, and no property depends on its value there; a servo duty outside 0 to 10000, of which `WaveAsAsked` says
nothing; a second mutex, suspension and change of priority with a mutex, and a
mutex without a ceiling (`OS_PRIO_MUTEX_CEIL_DIS`). Two coils tested by one `if` are read together. `OSTimeDly(0)`
in `key_check()` returns at once and is left out. Vendored code that the project
file does not build is ignored.

## Plan

What an extension would take up, in this order:

1. The scheduler lock and `OSTaskChangePrio` in `Kernel`, which change the
   argument of `RunsHighest` and of the naming of tasks by their priority.
2. A module for the State page with `max_min()`, and `guiyi()` with its zero range.
3. Suspension together with a mutex, and several mutexes.
