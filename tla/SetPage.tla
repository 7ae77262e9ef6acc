------------------------------ MODULE SetPage ------------------------------
(***************************************************************************)
(* The parameter page: Set_UI() of ui.c moves a cursor over seven items    *)
(* and edits them, Falsh_Reserve() of FlashUI.c saves them word by word to *)
(* a flash sector, Flash_Read() loads them at power-on.  Power may be cut  *)
(* between any two flash commands and any two keys.                        *)
(*                                                                         *)
(* Items 1 to 6 are floats kept in flash as whole tenths, item 7, speed,   *)
(* is an int.  A float reached by adding 0.1 is a rounding error away from *)
(* its tenth: [n |-> 24, e |-> -1] is a float just below 2.4, whose        *)
(* conversion (int)(p*10) is 23.                                           *)
(***************************************************************************)
EXTENDS Integers

CONSTANTS MaxGain,    \* items 1 to 3 start again at 0 above it; 999 tenths
          MaxSpeed,   \* so does speed; 999
          WordMax,    \* largest word of flash, which is also what erasing leaves
          Exact,      \* w / 10 * 10 in float is w for every word w up to it, 2^23
          MaxEdits,   \* bounds of the exploration: edits of a value,
          MaxSaves,   \* calls of Falsh_Reserve(),
          MaxCuts,    \* power cuts,
          MaxFails    \* and flash commands that report an error

ASSUME WordAssumption == WordMax \in Nat /\ Exact \in Nat /\ Exact + 1 < WordMax
\* A speed that can be set is positive when it is read back as a signed int.
ASSUME LimitAssumption == MaxGain \in Nat /\ MaxSpeed \in Nat /\ 2 * MaxSpeed <= WordMax
ASSUME BoundAssumption ==
  /\ MaxEdits \in Nat /\ MaxSaves \in Nat /\ MaxCuts \in Nat /\ MaxFails \in Nat

SetOptionsNum == 7
Items == 1..SetOptionsNum
Speed == SetOptionsNum
Erased == WordMax

VARIABLES on,         \* the page is shown; otherwise another page is
          SetArrow,   \* row of the arrow on the screen, static
          Page,       \* items scrolled off the top, static
          Item,       \* item that an edit changes, static
          ArrowState, \* 1 while a value is edited
          param,      \* the items in RAM
          flash,      \* the seven words of the sector
          saving,     \* 0, or the next command of Falsh_Reserve(): 1 erases, i + 1 writes i
          intact,     \* the sector was erased, and no command failed since
          stamp,      \* auxiliary: the Falsh_Reserve() that wrote each word, 0 when erased
          clamps,     \* how the build converts a float that is no u32
          edits, saves, cuts, fails

cursor == <<SetArrow, Page, Item>>
bounds == <<edits, saves, cuts, fails>>  \* the counters of the exploration
vars == <<on, cursor, ArrowState, param, flash, saving, intact, stamp, clamps, bounds>>

(***************************************************************************)
(* Conversions.                                                            *)
(***************************************************************************)
\* (int)(p*10), towards zero.
Truncated(v) == IF v.n > 0 /\ v.e < 0 THEN v.n - 1 ELSE IF v.n < 0 /\ v.e > 0 THEN v.n + 1 ELSE v.n

\* (u32) of an int wraps; of a float below 0 or, as an erased word reads, at 2^32 it
\* is undefined, and a build either clamps it to the nearest word or wraps it.
Wrap(n) == n % (WordMax + 1)
Clamp(n) == IF n < 0 THEN 0 ELSE IF n > WordMax THEN WordMax ELSE n
Word(i, v) ==
  IF i = Speed THEN Wrap(v.n)
  ELSE IF v.n = WordMax THEN IF clamps THEN WordMax ELSE 0
  ELSE IF clamps THEN Clamp(Truncated(v)) ELSE Wrap(Truncated(v))

\* Mutant: the word is multiplied by 0.1f, which may fall below its tenth.
FromWordBelow(i, w) == [n |-> w, e |-> IF i = Speed THEN 0 ELSE -1]

\* Flash_Read(): a word divided by 10 is within rounding of its tenth, from where
\* (int)(p*10) finds the word again; speed takes the word as a signed int.
FromWord(i, w) == [n |-> IF i = Speed /\ 2 * w > WordMax THEN w - (WordMax + 1) ELSE w, e |-> 0]

(***************************************************************************)
(* One key.  An edit adds or subtracts 0.1, or 1 for speed, and starts     *)
(* again at 0 above the limit; items 4 to 6 have none, and none has a      *)
(* lower limit.  A float as large as an erased word reads absorbs 0.1.     *)
(***************************************************************************)
Stepped(i, v, d) ==
  IF i = Speed THEN {[n |-> v.n + d, e |-> 0]}
  ELSE IF v.n = WordMax THEN {v}
  ELSE {[n |-> v.n + d, e |-> x] : x \in -1..1}

AboveLimit(i, v) ==
  \/ i \in 1..3 /\ (v.n > MaxGain \/ (v.n = MaxGain /\ v.e >= 0))
  \/ i = Speed /\ v.n > MaxSpeed

Limited(i, v) == IF AboveLimit(i, v) THEN [n |-> 0, e |-> 0] ELSE v

\* Mutant: Item is not wrapped.
DownStops ==
  /\ Item' = IF Item = SetOptionsNum THEN Item ELSE Item + 1
  /\ SetArrow' = IF SetArrow < 7 THEN SetArrow + 1 ELSE IF Page = 1 THEN 2 ELSE 7
  /\ Page' = IF SetArrow < 7 THEN Page ELSE IF Page = 1 THEN 0 ELSE Page + 1

\* Item, SetArrow and Page each wrap in their own way.
Up ==
  /\ Item' = IF Item = 1 THEN SetOptionsNum ELSE Item - 1
  /\ SetArrow' = IF SetArrow > 2 THEN SetArrow - 1 ELSE IF Page = 0 THEN 7 ELSE 2
  /\ Page' = IF SetArrow > 2 THEN Page ELSE IF Page = 0 THEN 1 ELSE Page - 1

Down ==
  /\ Item' = IF Item = SetOptionsNum THEN 1 ELSE Item + 1
  /\ SetArrow' = IF SetArrow < 7 THEN SetArrow + 1 ELSE IF Page = 1 THEN 2 ELSE 7
  /\ Page' = IF SetArrow < 7 THEN Page ELSE IF Page = 1 THEN 0 ELSE Page + 1

Waiting == on /\ saving = 0

\* Keys 1 and 2 outside an edit.
MoveCursor ==
  /\ Waiting /\ ArrowState = 0
  /\ Up \/ Down
  /\ UNCHANGED <<on, ArrowState, param, flash, saving, intact, stamp, clamps, bounds>>

\* Keys 1 and 2 inside an edit.
EditItem ==
  /\ Waiting /\ ArrowState = 1
  /\ edits < MaxEdits
  /\ \E d \in {1, -1} : \E v \in Stepped(Item, param[Item], d) :
       param' = [param EXCEPT ![Item] = Limited(Item, v)]
  /\ edits' = edits + 1
  /\ UNCHANGED <<on, cursor, ArrowState, flash, saving, intact, stamp, clamps, saves, cuts, fails>>

\* Key 3: an item that is above its limit, as after a read of an erased word, is
\* cleared on entry.
ToggleEdit ==
  /\ Waiting
  /\ ArrowState' = 1 - ArrowState
  /\ param' = IF ArrowState = 0 THEN [param EXCEPT ![Item] = Limited(Item, @)] ELSE param
  /\ UNCHANGED <<on, cursor, flash, saving, intact, stamp, clamps, bounds>>

\* Mutant: key 4 leaves the page without a save unless a value is edited.
LeaveUnsaved ==
  /\ Waiting /\ saves < MaxSaves
  /\ IF ArrowState = 1 THEN saving' = 1 /\ saves' = saves + 1 /\ UNCHANGED on
     ELSE on' = FALSE /\ UNCHANGED <<saving, saves>>
  /\ UNCHANGED <<cursor, ArrowState, param, flash, intact, stamp, clamps, edits, cuts, fails>>

\* Key 4 calls Falsh_Reserve(), whether an edit ends or the page is left.
BeginSave ==
  /\ Waiting /\ saves < MaxSaves
  /\ saving' = 1 /\ saves' = saves + 1
  /\ UNCHANGED <<on, cursor, ArrowState, param, flash, intact, stamp, clamps, edits, cuts, fails>>

(***************************************************************************)
(* Falsh_Reserve(): erase, then one word after the other; what a command   *)
(* reports is not looked at.                                               *)
(***************************************************************************)
EraseSector ==
  /\ saving = 1
  /\ flash' = [i \in Items |-> Erased]
  /\ stamp' = [i \in Items |-> 0]
  /\ intact' = TRUE
  /\ saving' = 2
  /\ UNCHANGED <<on, cursor, ArrowState, param, clamps, bounds>>

\* Mutant: the words are written in the opposite order.
WriteBackwards ==
  /\ saving > 1 /\ saving - 1 \in Items
  /\ LET i == SetOptionsNum + 2 - saving IN
       /\ flash[i] = Erased
       /\ flash' = [flash EXCEPT ![i] = Word(i, param[i])]
       /\ stamp' = [stamp EXCEPT ![i] = saves]
  /\ saving' = saving + 1
  /\ UNCHANGED <<on, cursor, ArrowState, param, intact, clamps, bounds>>

WriteWord ==
  /\ saving > 1 /\ saving - 1 \in Items
  /\ LET i == saving - 1 IN
       /\ flash[i] = Erased
       /\ flash' = [flash EXCEPT ![i] = Word(i, param[i])]
       /\ stamp' = [stamp EXCEPT ![i] = saves]
  /\ saving' = saving + 1
  /\ UNCHANGED <<on, cursor, ArrowState, param, intact, clamps, bounds>>

\* The command reports an error and leaves the sector as it is; a word that is not
\* erased cannot be programmed.
CommandFails ==
  /\ saving \in 1..(SetOptionsNum + 1)
  /\ \/ fails < MaxFails /\ fails' = fails + 1
     \/ saving > 1 /\ flash[saving - 1] # Erased /\ UNCHANGED fails
  /\ intact' = FALSE
  /\ saving' = saving + 1
  /\ UNCHANGED <<on, cursor, ArrowState, param, flash, stamp, clamps, edits, saves, cuts>>

\* Mutant: the last item is not saved.
EndSaveEarly ==
  /\ saving = SetOptionsNum + 1
  /\ saving' = 0
  /\ ArrowState' = 0
  /\ on' = (ArrowState = 1)
  /\ UNCHANGED <<cursor, param, flash, intact, stamp, clamps, bounds>>

\* Back in Set_UI(): the edit ends, or else the page.
EndSave ==
  /\ saving = SetOptionsNum + 2
  /\ saving' = 0
  /\ ArrowState' = 0
  /\ on' = (ArrowState = 1)
  /\ UNCHANGED <<cursor, param, flash, intact, stamp, clamps, bounds>>

(***************************************************************************)
(* Around the page.                                                        *)
(***************************************************************************)
\* The menu calls Set_UI(); the cursor is where it was left.
EnterPage ==
  /\ ~on
  /\ on' = TRUE /\ ArrowState' = 0
  /\ UNCHANGED <<cursor, param, flash, saving, intact, stamp, clamps, bounds>>

\* Power comes back: Flash_Read(), and static storage as initialised.
PowerOn ==
  /\ on' = FALSE /\ ArrowState' = 0 /\ saving' = 0
  /\ SetArrow' = 2 /\ Page' = 0 /\ Item' = 1
  /\ param' = [i \in Items |-> FromWord(i, flash[i])]

PowerCut ==
  /\ cuts < MaxCuts
  /\ PowerOn
  /\ cuts' = cuts + 1
  /\ UNCHANGED <<flash, intact, stamp, clamps, edits, saves, fails>>

\* Power-on with a new chip, or with what a complete save left: one edit more may
\* take a value of 1 over its limit.
Init ==
  /\ on = FALSE /\ ArrowState = 0 /\ saving = 0 /\ intact = TRUE
  /\ SetArrow = 2 /\ Page = 0 /\ Item = 1
  /\ \E w \in {0, 1, Erased} \cap 0..WordMax : flash = [i \in Items |-> w]
  /\ param = [i \in Items |-> FromWord(i, flash[i])]
  /\ stamp = [i \in Items |-> 0]
  /\ clamps \in BOOLEAN
  /\ edits = 0 /\ saves = 0 /\ cuts = 0 /\ fails = 0

Next ==
  \/ MoveCursor \/ EditItem \/ ToggleEdit \/ BeginSave
  \/ EraseSector \/ WriteWord \/ CommandFails \/ EndSave
  \/ EnterPage \/ PowerCut

Spec == Init /\ [][Next]_vars

(***************************************************************************)
(* Properties.                                                             *)
(***************************************************************************)
TypeOK ==
  /\ on \in BOOLEAN /\ intact \in BOOLEAN /\ clamps \in BOOLEAN /\ ArrowState \in 0..1
  /\ SetArrow \in 2..7 /\ Page \in 0..1 /\ Item \in Items
  /\ param \in [Items -> [n : Int, e : -1..1]]
  /\ flash \in [Items -> 0..WordMax]
  /\ saving \in 0..(SetOptionsNum + 2)
  /\ stamp \in [Items -> 0..MaxSaves]
  /\ edits \in 0..MaxEdits /\ saves \in 0..MaxSaves
  /\ cuts \in 0..MaxCuts /\ fails \in 0..MaxFails

\* The item an edit changes is the one on the row of the arrow: rows 2 to 7 of the
\* screen show items Page + 1 to Page + 6 (ui.c:624), whatever keys came before.
CursorOnItem == Item = Page + SetArrow - 1

\* While another page is shown, and so whenever the motor may run, the sector holds
\* the parameters in use, saved from them or read into them, unless a flash command
\* failed unnoticed.
SavedOutsidePage ==
  ~on /\ intact =>
     \A i \in Items : flash[i] = Word(i, param[i]) \/ param[i] = FromWord(i, flash[i])

\* The page is never left with an edit that was not saved: all seven words are those
\* of the last Falsh_Reserve(), unless a command failed.
LeftOnlySaved ==
  [][on /\ ~on' /\ cuts' = cuts /\ intact => \A i \in Items : stamp[i] = saves]_vars

\* A value survives a power cut on another page as it was shown on the Set page,
\* unless it is negative, comes from an erased word or is too large for a float to
\* hold its tenths.
ShownSurvivesPowerCut ==
  [][cuts' # cuts /\ ~on /\ intact =>
       \A i \in Items : Truncated(param[i]) \in 0..Exact =>
          Truncated(param'[i]) = Truncated(param[i])]_vars

\* speed is written last and marks the save complete: when its word is programmed,
\* all seven words are of one save.
SpeedCommits ==
  flash[Speed] # Erased /\ intact => \A i \in Items : stamp[i] = stamp[Speed]

\* A save in progress: the words before the next one are written, of this save and of
\* the values in use, and those from it on are erased.
SaveProgress ==
  saving > 1 /\ intact =>
    \A i \in Items :
      IF i < saving - 1 THEN stamp[i] = saves /\ flash[i] = Word(i, param[i])
      ELSE flash[i] = Erased

\* speed is an int that the word it was saved as gives back.
SpeedIsInt == param[Speed].e = 0 /\ 2 * param[Speed].n <= WordMax

\* The inductive invariant: a save only runs on the page, and what it leaves behind
\* when it ends or the power is cut is what SaveProgress says.
SetPageInv ==
  /\ TypeOK
  /\ saving # 0 => on
  /\ CursorOnItem /\ SaveProgress /\ SavedOutsidePage /\ SpeedCommits /\ SpeedIsInt
=============================================================================
