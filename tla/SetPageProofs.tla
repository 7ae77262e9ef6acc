---------------------------- MODULE SetPageProofs ----------------------------
(***************************************************************************)
(* The safety properties of SetPage, for every limit, word size and bound. *)
(* The conversions matter only in what survives a power cut.               *)
(***************************************************************************)
EXTENDS SetPage, TLAPS

Value == [n : Int, e : -1..1]

\* Both conversions between a parameter and a word of flash stay in range.
LEMMA WordType ==
  ASSUME NEW i \in Items, NEW v \in Value, clamps \in BOOLEAN
  PROVE  Word(i, v) \in 0..WordMax
<1>1. \A n \in Int : Wrap(n) \in 0..WordMax /\ Clamp(n) \in 0..WordMax
  BY WordAssumption DEF Wrap, Clamp
<1>2. v.n \in Int /\ Truncated(v) \in Int
  BY DEF Truncated, Value
<1>3. 0 \in 0..WordMax /\ WordMax \in 0..WordMax
  BY WordAssumption
<1> QED
  BY <1>1, <1>2, <1>3 DEF Word

LEMMA FromWordType ==
  ASSUME NEW i \in Items, NEW w \in 0..WordMax
  PROVE  FromWord(i, w) \in Value
<1>1. w \in Int /\ w - (WordMax + 1) \in Int
  BY WordAssumption
<1> QED
  BY <1>1 DEF FromWord, Value

LEMMA LimitedType ==
  ASSUME NEW i \in Items, NEW v \in Value
  PROVE  Limited(i, v) \in Value
<1>1. [n |-> 0, e |-> 0] \in Value
  BY DEF Value
<1> QED
  BY <1>1 DEF Limited

\* An edit gives a value.
LEMMA SteppedType ==
  ASSUME NEW i \in Items, NEW v \in Value, NEW d \in {1, -1}, NEW x \in Stepped(i, v, d)
  PROVE  x \in Value
<1>1. v.n + d \in Int
  BY DEF Value
<1> QED
  BY <1>1 DEF Stepped, Value

\* A value that a word can hold reads back as it was shown, however the build converts.
LEMMA WordReadsBack ==
  ASSUME NEW i \in Items, NEW v \in Value, clamps \in BOOLEAN, Truncated(v) \in 0..Exact,
         i = Speed => v.e = 0 /\ 2 * v.n <= WordMax
  PROVE  Truncated(FromWord(i, Word(i, v))) = Truncated(v)
<1> DEFINE w == Truncated(v)
<1>1. w \in Nat /\ w < WordMax /\ v.n \in Int /\ v.e \in -1..1 /\ v.n # WordMax
  BY WordAssumption DEF Value, Truncated
<1>2. \A n \in 0..WordMax : Wrap(n) = n /\ Clamp(n) = n
  BY WordAssumption DEF Wrap, Clamp
<1>3. w \in 0..WordMax
  BY <1>1, WordAssumption
<1> HIDE DEF w
<1>4. CASE i # Speed
  <2>1. Word(i, v) = w
    BY <1>1, <1>2, <1>3, <1>4 DEF Word, w
  <2>2. FromWord(i, w) = [n |-> w, e |-> 0]
    BY <1>4 DEF FromWord
  <2>3. Truncated([n |-> w, e |-> 0]) = w
    BY DEF Truncated
  <2> QED
    BY <2>1, <2>2, <2>3 DEF w
<1>5. CASE i = Speed
  <2>1. v.n = w /\ ~ (2 * w > WordMax)
    BY <1>1, <1>5, WordAssumption DEF Truncated, w
  <2>2. Word(i, v) = w
    BY <1>2, <1>3, <1>5, <2>1 DEF Word
  <2>3. FromWord(i, w) = [n |-> w, e |-> 0]
    BY <2>1 DEF FromWord
  <2>4. Truncated([n |-> w, e |-> 0]) = w
    BY DEF Truncated
  <2> QED
    BY <2>2, <2>3, <2>4 DEF w
<1> QED
  BY <1>4, <1>5

\* Whatever is read from flash as speed, and whatever an edit makes of it, is an int
\* that a word gives back.
LEMMA ReadSpeed ==
  ASSUME NEW w \in 0..WordMax
  PROVE  FromWord(Speed, w).e = 0 /\ 2 * FromWord(Speed, w).n <= WordMax
BY WordAssumption DEF FromWord

LEMMA EditedSpeed ==
  ASSUME NEW v \in Value, v.e = 0
  PROVE  /\ Limited(Speed, v).e = 0 /\ 2 * Limited(Speed, v).n <= WordMax
         /\ \A d \in {1, -1} : \A x \in Stepped(Speed, v, d) : x \in Value /\ x.e = 0
<1>1. v.n \in Int /\ Speed \notin 1..3
  BY DEF Value, Speed, SetOptionsNum
<1>2. Limited(Speed, v) = IF v.n > MaxSpeed THEN [n |-> 0, e |-> 0] ELSE v
  BY <1>1 DEF Limited, AboveLimit
<1>3. Limited(Speed, v).e = 0 /\ Limited(Speed, v).n \in Int /\ Limited(Speed, v).n <= MaxSpeed
  BY <1>1, <1>2, LimitAssumption
<1>4. \A d \in {1, -1} : \A x \in Stepped(Speed, v, d) : x = [n |-> v.n + d, e |-> 0]
  BY DEF Stepped
<1>5. \A d \in {1, -1} : [n |-> v.n + d, e |-> 0] \in Value
  BY <1>1 DEF Value
<1>6. 2 * Limited(Speed, v).n <= WordMax
  BY <1>3, LimitAssumption, WordAssumption
<1> QED
  BY <1>3, <1>4, <1>5, <1>6

\* The items and the words of the sector after power-on.
LEMMA PowerOnType ==
  ASSUME PowerOn, flash \in [Items -> 0..WordMax]
  PROVE  param' \in [Items -> Value] /\ \A i \in Items : param'[i] = FromWord(i, flash[i])
<1>1. \A i \in Items : FromWord(i, flash[i]) \in Value
  BY FromWordType
<1> QED
  BY <1>1 DEF PowerOn

\* A new chip, and one with a complete save, satisfy the invariant.
LEMMA InitInv == Init => SetPageInv
<1> SUFFICES ASSUME Init PROVE SetPageInv
  OBVIOUS
<1> USE DEF Init
<1>1. flash \in [Items -> 0..WordMax]
  BY WordAssumption DEF Erased
<1>2. param \in [Items -> Value]
  BY <1>1, FromWordType
<1>3. TypeOK
  <2>1. 1 \in Items /\ 0 \in 0..(SetOptionsNum + 2)
    BY DEF Items, SetOptionsNum
  <2>2. stamp \in [Items -> 0..MaxSaves]
    BY BoundAssumption
  <2>3. 0 \in 0..MaxSaves /\ 0 \in 0..MaxEdits /\ 0 \in 0..MaxCuts /\ 0 \in 0..MaxFails
    BY BoundAssumption
  <2>4. on \in BOOLEAN /\ intact \in BOOLEAN /\ clamps \in BOOLEAN
    OBVIOUS
  <2>5. /\ ArrowState = 0 /\ saving = 0
        /\ SetArrow = 2 /\ Page = 0 /\ Item = 1
        /\ edits = 0 /\ saves = 0 /\ cuts = 0 /\ fails = 0
    OBVIOUS
  <2> HIDE DEF Init
  <2> QED
    BY <1>1, <1>2, <2>1, <2>2, <2>3, <2>4, <2>5 DEF TypeOK, Value
<1>4. CursorOnItem /\ SaveProgress /\ SavedOutsidePage
  BY DEF CursorOnItem, SaveProgress, SavedOutsidePage
<1>5. SpeedCommits
  BY DEF SpeedCommits, Items, Speed, SetOptionsNum
<1>6. SpeedIsInt
  BY <1>1, ReadSpeed DEF SpeedIsInt, Items, Speed, SetOptionsNum
<1> QED
  BY <1>3, <1>4, <1>5, <1>6 DEF SetPageInv

\* No key, flash command or power cut breaks the invariant.
LEMMA StepInv == SetPageInv /\ [Next]_vars => SetPageInv'
<1> SUFFICES ASSUME SetPageInv, [Next]_vars PROVE SetPageInv'
  OBVIOUS
<1> USE DEF SetPageInv
<1>t. /\ TypeOK /\ CursorOnItem
      /\ param \in [Items -> Value] /\ flash \in [Items -> 0..WordMax] /\ clamps \in BOOLEAN
  BY DEF TypeOK, Value
<1>u. Speed \in Items /\ SpeedIsInt
  BY DEF Speed, Items, SetOptionsNum
<1>1. CASE MoveCursor
  <2>1. (SetArrow \in 2..7 /\ Page \in 0..1 /\ Item \in Items /\ CursorOnItem)'
    BY <1>1, <1>t DEF MoveCursor, Up, Down, TypeOK, CursorOnItem, Items, SetOptionsNum
  <2>2. TypeOK'
    BY <1>1, <2>1 DEF MoveCursor, TypeOK, bounds
  <2>3. UNCHANGED <<on, param, flash, saving, intact, stamp, clamps, saves>>
    BY <1>1 DEF MoveCursor, bounds
  <2> QED
    BY <2>1, <2>2, <2>3 DEF SaveProgress, SavedOutsidePage, SpeedCommits, SpeedIsInt, Word
<1>2. CASE EditItem
  <2>1. Item \in Items /\ saving = 0 /\ on
    BY <1>2 DEF EditItem, Waiting, TypeOK
  <2>2. param' \in [Items -> Value] /\ SpeedIsInt'
    <3>1. PICK d \in {1, -1} : \E v \in Stepped(Item, param[Item], d) :
            param' = [param EXCEPT ![Item] = Limited(Item, v)]
      BY <1>2 DEF EditItem
    <3>2. PICK v \in Stepped(Item, param[Item], d) :
            param' = [param EXCEPT ![Item] = Limited(Item, v)]
      BY <3>1
    <3>3. Limited(Item, v) \in Value
      BY <1>t, <2>1, SteppedType, LimitedType
    <3>4. Item = Speed => Limited(Item, v).e = 0 /\ 2 * Limited(Item, v).n <= WordMax
      <4>1. Item = Speed => v \in Value /\ v.e = 0
        BY <1>t, <1>u, <3>2, EditedSpeed DEF SpeedIsInt
      <4> QED
        BY <4>1, EditedSpeed
    <3>5. SpeedIsInt'
      BY <1>t, <1>u, <2>1, <3>2, <3>4 DEF SpeedIsInt
    <3> QED
      BY <1>t, <3>2, <3>3, <3>5
  <2>3. edits' \in 0..MaxEdits
    BY <1>2, BoundAssumption DEF EditItem, TypeOK
  <2>4. UNCHANGED <<on, cursor, flash, saving, intact, stamp, clamps, saves, ArrowState, cuts, fails>>
    BY <1>2 DEF EditItem
  <2>5. TypeOK'
    BY <2>2, <2>3, <2>4 DEF TypeOK, Value, cursor
  <2> QED
    BY <2>1, <2>2, <2>4, <2>5 DEF CursorOnItem, SaveProgress, SavedOutsidePage, SpeedCommits, cursor
<1>3. CASE ToggleEdit
  <2>1. Item \in Items /\ saving = 0 /\ on
    BY <1>3 DEF ToggleEdit, Waiting, TypeOK
  <2>2. param' \in [Items -> Value] /\ SpeedIsInt'
    <3>1. Limited(Item, param[Item]) \in Value
      BY <1>t, <2>1, LimitedType
    <3>2. /\ Limited(Speed, param[Speed]).e = 0
          /\ 2 * Limited(Speed, param[Speed]).n <= WordMax
      BY <1>t, <1>u, EditedSpeed DEF SpeedIsInt
    <3>3. param' \in [Items -> Value] /\ (param' = param \/ param' = [param EXCEPT ![Item] = Limited(Item, param[Item])])
      BY <1>t, <1>3, <3>1 DEF ToggleEdit
    <3> QED
      BY <1>t, <1>u, <2>1, <3>2, <3>3 DEF SpeedIsInt
  <2>3. ArrowState' \in 0..1
    BY <1>3 DEF ToggleEdit, TypeOK
  <2>4. UNCHANGED <<on, cursor, flash, saving, intact, stamp, clamps, edits, saves, cuts, fails>>
    BY <1>3 DEF ToggleEdit, bounds
  <2>5. TypeOK'
    BY <2>2, <2>3, <2>4 DEF TypeOK, Value, cursor
  <2> QED
    BY <2>1, <2>2, <2>4, <2>5 DEF CursorOnItem, SaveProgress, SavedOutsidePage, SpeedCommits, cursor
<1>4. CASE BeginSave
  <2>1. on /\ saving' = 1 /\ saves' \in 0..MaxSaves
    BY <1>4, BoundAssumption DEF BeginSave, Waiting, TypeOK
  <2>2. UNCHANGED <<on, cursor, ArrowState, param, flash, intact, stamp, clamps, edits, cuts, fails>>
    BY <1>4 DEF BeginSave
  <2>3. TypeOK'
    BY <2>1, <2>2 DEF TypeOK, cursor, SetOptionsNum
  <2> QED
    BY <2>1, <2>2, <2>3 DEF CursorOnItem, SaveProgress, SavedOutsidePage, SpeedCommits, cursor, SpeedIsInt
<1>5. CASE EraseSector
  <2>1. /\ on /\ saving' = 2 /\ UNCHANGED <<on, cursor, ArrowState, param, clamps, bounds>>
        /\ flash' = [i \in Items |-> Erased] /\ stamp' = [i \in Items |-> 0] /\ intact' = TRUE
    BY <1>5 DEF EraseSector
  <2>2. TypeOK'
    BY <2>1, WordAssumption, BoundAssumption DEF TypeOK, cursor, bounds, SetOptionsNum, Erased
  <2>3. SaveProgress'
    BY <2>1 DEF SaveProgress, Items, SetOptionsNum
  <2> QED
    BY <2>1, <2>2, <2>3 DEF CursorOnItem, SavedOutsidePage, SpeedCommits, Items, Speed, SetOptionsNum, cursor, SpeedIsInt
<1>6. CASE WriteWord
  <2> DEFINE i == saving - 1
  <2>1. /\ on /\ i \in Items /\ saving' = saving + 1
        /\ UNCHANGED <<on, cursor, ArrowState, param, intact, clamps, bounds>>
        /\ flash' = [flash EXCEPT ![i] = Word(i, param[i])]
        /\ stamp' = [stamp EXCEPT ![i] = saves]
    BY <1>6 DEF WriteWord
  <2>2. Word(i, param[i]) \in 0..WordMax
    BY <1>t, <2>1, WordType
  <2>3. flash' \in [Items -> 0..WordMax] /\ stamp' \in [Items -> 0..MaxSaves]
    BY <1>t, <2>1, <2>2 DEF TypeOK, bounds
  <2>4. saving' \in 0..(SetOptionsNum + 2)
    BY <2>1 DEF Items, SetOptionsNum, TypeOK
  <2>5. TypeOK'
    BY <2>1, <2>3, <2>4 DEF TypeOK, cursor, bounds
  <2>6. \A j \in Items : Word(j, param[j])' = Word(j, param[j])
    BY <2>1 DEF Word
  <2>7. SaveProgress'
    <3> SUFFICES ASSUME intact, NEW j \in Items
                 PROVE  IF j < saving THEN stamp'[j] = saves /\ flash'[j] = Word(j, param[j])
                        ELSE flash'[j] = Erased
      BY <2>1, <2>6 DEF SaveProgress, bounds, Items, SetOptionsNum
    <3>1. IF j < i THEN stamp[j] = saves /\ flash[j] = Word(j, param[j]) ELSE flash[j] = Erased
      BY <2>1 DEF SaveProgress, Items, SetOptionsNum
    <3>2. CASE j = i
      BY <1>t, <2>1, <3>2 DEF TypeOK, Items, SetOptionsNum
    <3>3. CASE j # i
      BY <1>t, <2>1, <3>1, <3>3 DEF TypeOK, Items, SetOptionsNum
    <3> QED
      BY <3>2, <3>3
  <2>8. SpeedCommits'
    <3> SUFFICES ASSUME flash'[Speed] # Erased, intact, NEW j \in Items
                 PROVE  stamp'[j] = stamp'[Speed]
      BY <2>1 DEF SpeedCommits
    <3>1. saving' > 1 /\ saves' = saves
      BY <2>1 DEF Items, SetOptionsNum, bounds
    <3>2. Speed \in Items /\ Speed < saving' - 1 /\ j < saving' - 1
      BY <2>1, <2>7, <3>1 DEF SaveProgress, Items, Speed, SetOptionsNum
    <3> QED
      BY <2>1, <2>7, <3>1, <3>2 DEF SaveProgress
  <2> QED
    BY <2>1, <2>5, <2>7, <2>8 DEF CursorOnItem, SavedOutsidePage, cursor, SpeedIsInt
<1>7. CASE CommandFails
  <2>1. /\ on /\ intact' = FALSE /\ saving' = saving + 1
        /\ saving' \in 0..(SetOptionsNum + 2) /\ saving' # 0
        /\ UNCHANGED <<on, cursor, ArrowState, param, flash, stamp, clamps, edits, saves, cuts>>
    BY <1>7 DEF CommandFails, SetOptionsNum
  <2>2. fails' \in 0..MaxFails
    BY <1>7, BoundAssumption DEF CommandFails, TypeOK
  <2>3. TypeOK'
    BY <2>1, <2>2 DEF TypeOK, cursor
  <2> QED
    BY <2>1, <2>3 DEF CursorOnItem, SaveProgress, SavedOutsidePage, SpeedCommits, cursor, SpeedIsInt
<1>8. CASE EndSave
  <2>1. /\ saving = SetOptionsNum + 2 /\ saving' = 0 /\ ArrowState' = 0 /\ on' \in BOOLEAN
        /\ UNCHANGED <<cursor, param, flash, intact, stamp, clamps, bounds>>
    BY <1>8 DEF EndSave
  <2>2. TypeOK'
    BY <2>1 DEF TypeOK, cursor, bounds, SetOptionsNum
  <2>3. \A i \in Items : Word(i, param[i])' = Word(i, param[i])
    BY <2>1 DEF Word
  <2>4. SavedOutsidePage'
    BY <2>1, <2>3 DEF SavedOutsidePage, SaveProgress, Items, SetOptionsNum
  <2> QED
    BY <2>1, <2>2, <2>4 DEF CursorOnItem, SaveProgress, SpeedCommits, cursor, SpeedIsInt
<1>9. CASE EnterPage
  <2>1. /\ on' = TRUE /\ ArrowState' = 0
        /\ UNCHANGED <<cursor, param, flash, saving, intact, stamp, clamps, bounds>>
    BY <1>9 DEF EnterPage
  <2>2. TypeOK'
    BY <2>1 DEF TypeOK, cursor, bounds
  <2>3. SaveProgress'
    BY <2>1 DEF SaveProgress, Word, bounds
  <2> QED
    BY <2>1, <2>2, <2>3 DEF CursorOnItem, SavedOutsidePage, SpeedCommits, cursor, SpeedIsInt
<1>10. CASE PowerCut
  <2>1. /\ PowerOn /\ cuts' \in 0..MaxCuts
        /\ UNCHANGED <<flash, intact, stamp, clamps, edits, saves, fails>>
    BY <1>10, BoundAssumption DEF PowerCut, TypeOK
  <2>2. param' \in [Items -> Value] /\ \A i \in Items : param'[i] = FromWord(i, flash[i])
    BY <1>t, <2>1, PowerOnType
  <2>3. TypeOK'
    <3>1. 1 \in Items /\ 0 \in 0..(SetOptionsNum + 2)
      BY DEF Items, SetOptionsNum
    <3>2. /\ on' \in BOOLEAN /\ ArrowState' = 0 /\ saving' = 0
          /\ SetArrow' = 2 /\ Page' = 0 /\ Item' = 1
      BY <2>1 DEF PowerOn
    <3> QED
      BY <2>1, <2>2, <3>1, <3>2 DEF TypeOK, Value
  <2>4. SavedOutsidePage'
    BY <2>1, <2>2 DEF SavedOutsidePage, FromWord
  <2>5. SpeedIsInt'
    BY <1>t, <1>u, <2>2, ReadSpeed DEF SpeedIsInt
  <2> QED
    BY <2>1, <2>3, <2>4, <2>5 DEF PowerOn, CursorOnItem, SaveProgress, SpeedCommits
<1>11. CASE UNCHANGED vars
  <2>1. UNCHANGED <<on, cursor, ArrowState, param, flash, saving, intact, stamp, clamps, bounds>>
    BY <1>11 DEF vars
  <2>2. TypeOK'
    BY <2>1 DEF TypeOK, cursor, bounds
  <2> QED
    BY <2>1, <2>2 DEF CursorOnItem, SaveProgress, SavedOutsidePage, SpeedCommits, Word, FromWord, cursor, bounds, SpeedIsInt
<1> QED
  BY <1>1, <1>2, <1>3, <1>4, <1>5, <1>6, <1>7, <1>8, <1>9, <1>10, <1>11 DEF Next

\* The invariant holds at every moment.
THEOREM SetPageSafe == Spec => []SetPageInv
<1> QED
  BY InitInv, StepInv, PTL DEF Spec

\* The cursor, the parameters, the sector and the save keep their ranges.
THEOREM SetPageTypes == Spec => []TypeOK
<1>1. SetPageInv => TypeOK
  BY DEF SetPageInv
<1> QED
  BY <1>1, SetPageSafe, PTL

\* The three variables of the cursor, each wrapped in its own way, agree after any keys.
THEOREM CursorAgrees == Spec => []CursorOnItem
<1>1. SetPageInv => CursorOnItem
  BY DEF SetPageInv
<1> QED
  BY <1>1, SetPageSafe, PTL

\* Outside the page the sector and the parameters agree, whatever cuts the save short.
THEOREM SectorAgrees == Spec => []SavedOutsidePage
<1>1. SetPageInv => SavedOutsidePage
  BY DEF SetPageInv
<1> QED
  BY <1>1, SetPageSafe, PTL

\* The word of speed, once programmed, vouches for the other six.
THEOREM SpeedMarksSave == Spec => []SpeedCommits
<1>1. SetPageInv => SpeedCommits
  BY DEF SetPageInv
<1> QED
  BY <1>1, SetPageSafe, PTL

\* Key 4 saves before it leaves the page.
THEOREM LeavingSaves == Spec => LeftOnlySaved
<1>1. SetPageInv /\ [Next]_vars =>
        [on /\ ~on' /\ cuts' = cuts /\ intact => \A i \in Items : stamp[i] = saves]_vars
  <2> SUFFICES ASSUME SetPageInv, Next, on, ~on', cuts' = cuts, intact, NEW i \in Items
               PROVE  stamp[i] = saves
    OBVIOUS
  <2>1. cuts \in Nat
    BY BoundAssumption DEF SetPageInv, TypeOK
  <2>2. CASE EndSave
    BY <2>2 DEF EndSave, SetPageInv, SaveProgress, Items, SetOptionsNum
  <2>3. CASE ~ EndSave
    <3>1. ~ PowerCut
      <4>1. cuts + 1 # cuts
        BY <2>1
      <4> QED
        BY <4>1 DEF PowerCut
    <3> QED
      <4>1. \/ MoveCursor \/ EditItem \/ ToggleEdit \/ BeginSave
            \/ EraseSector \/ WriteWord \/ CommandFails \/ EnterPage
        BY <2>3, <3>1 DEF Next
      <4>2. MoveCursor \/ EditItem \/ ToggleEdit \/ BeginSave \/ EnterPage => on'
        BY DEF MoveCursor, EditItem, ToggleEdit, BeginSave, EnterPage
      <4>3. EraseSector \/ WriteWord \/ CommandFails => on'
        BY DEF EraseSector, WriteWord, CommandFails
      <4> QED
        BY <4>1, <4>2, <4>3
  <2> QED
    BY <2>2, <2>3
<1> QED
  BY <1>1, SetPageSafe, PTL DEF Spec, LeftOnlySaved

\* A value that was saved from the page, or read and not edited since, is shown the same
\* after a power cut.
THEOREM ShownSurvives == Spec => ShownSurvivesPowerCut
<1>1. SetPageInv /\ [Next]_vars =>
        [cuts' # cuts /\ ~on /\ intact =>
           \A i \in Items : Truncated(param[i]) \in 0..Exact =>
              Truncated(param'[i]) = Truncated(param[i])]_vars
  <2> SUFFICES ASSUME SetPageInv, Next, cuts' # cuts, ~on, intact,
                      NEW i \in Items, Truncated(param[i]) \in 0..Exact
               PROVE  Truncated(param'[i]) = Truncated(param[i])
    OBVIOUS
  <2>1. /\ param \in [Items -> Value] /\ flash \in [Items -> 0..WordMax] /\ clamps \in BOOLEAN
        /\ SavedOutsidePage /\ SpeedIsInt
    BY DEF SetPageInv, TypeOK, Value
  <2>2. PowerCut
    BY DEF Next, MoveCursor, EditItem, ToggleEdit, BeginSave, EraseSector, WriteWord,
           CommandFails, EndSave, EnterPage, bounds
  <2>3. param'[i] = FromWord(i, flash[i])
    BY <2>1, <2>2, PowerOnType DEF PowerCut
  <2>4. CASE param[i] = FromWord(i, flash[i])
    BY <2>3, <2>4
  <2>5. CASE flash[i] = Word(i, param[i])
    <3>1. param[i] \in Value /\ (i = Speed => param[i].e = 0 /\ 2 * param[i].n <= WordMax)
      BY <2>1 DEF SpeedIsInt
    <3> QED
      BY <2>1, <2>3, <2>5, <3>1, WordReadsBack
  <2> QED
    BY <2>1, <2>4, <2>5 DEF SavedOutsidePage
<1> QED
  BY <1>1, SetPageSafe, PTL DEF Spec, ShownSurvivesPowerCut
=============================================================================
