---------------------------- MODULE ClientProofs ----------------------------
(***************************************************************************)
(* Proofs about two clients of the control hub.  The palette column: it is *)
(* a hub like any other, and the palette in use belongs to a slot that is  *)
(* live, for any number of slots.  The APC mini: its lamps are true and    *)
(* what is played on it ends with the hands, for any size of its grid.     *)
(***************************************************************************)
EXTENDS PaletteColumn, ApcMini, ControlHubProofs, WellFoundedInduction

-----------------------------------------------------------------------------
(* The highest of a set of slots.                                          *)

LEMMA LeastNatural ==
  ASSUME NEW T \in SUBSET Nat, T # {}
  PROVE  \E n \in T : \A m \in T : n <= m
<1>1. PICK n \in T : \A m \in T : ~ <<m, n>> \in OpToRel(<, Nat)
  <2> DEFINE R == OpToRel(<, Nat)
  <2>1. IsWellFoundedOn(R, Nat)
    BY NatLessThanWellFounded
  <2> HIDE DEF R
  <2>2. \E x \in T : \A y \in T : ~ (<<y, x>> \in R)
    BY <2>1, WFMin
  <2>3. QED
    BY <2>2 DEF R
<1>2. \A m \in T : ~(m < n)
  BY <1>1 DEF OpToRel
<1>3. QED
  BY <1>2

LEMMA MaxIsTop ==
  ASSUME NEW b \in Nat, NEW S \in SUBSET (0 .. b), S # {}
  PROVE  Max(S) \in S /\ \A s \in S : s <= Max(S)
<1> DEFINE T == {n \in Nat : \A s \in S : s <= n}
<1>1. b \in T
  OBVIOUS
<1>2. PICK n \in T : \A m \in T : n <= m
  BY <1>1, LeastNatural
<1>3. n \in S
  <2>1. CASE n = 0
    <3>1. PICK s \in S : TRUE
      OBVIOUS
    <3>2. s = n
      BY <1>2, <2>1, <3>1
    <3>3. QED
      BY <3>1, <3>2
  <2>2. CASE n # 0 /\ n \notin S
    <3>1. n - 1 \in T
      BY <1>2, <2>2
    <3>2. QED
      BY <1>2, <3>1
  <2>3. QED
    BY <2>1, <2>2
<1>4. QED
  BY <1>2, <1>3 DEF Max

LEMMA MaxOfSlots ==
  ASSUME NEW S \in SUBSET Slots, S # {}
  PROVE  Max(S) \in S
<1>1. MaxSlots \in Nat /\ S \in SUBSET (0 .. MaxSlots)
  BY BoundsAssumption DEF Slots
<1>2. QED
  BY <1>1, MaxIsTop

-----------------------------------------------------------------------------
(* The column is a client of the hub: whatever is proved of the hub holds  *)
(* of a hub with a palette column.                                         *)

LEMMA PaletteStepIsHubStep == [PaletteNext]_paletteVars => [Next]_hubVars
<1>1. NPalettes - 1 \in Slots
  BY PaletteAssumption, BoundsAssumption DEF Slots
<1>2. Create => Next
  BY <1>1, PaletteAssumption DEF Create, Next, Setup
<1>3. HubAlone => Next
  BY DEF HubAlone, Next
<1>4. ASSUME NEW c \in Columns, NEW s \in Slots, Pressed(c, s) \/ Released(c, s)
      PROVE  Next
  BY <1>4 DEF Pressed, Released, Next, Buttons
<1>5. ASSUME NEW c \in Columns, NEW s \in Slots, NEW active \in BOOLEAN, NEW f \in SetFlags,
             SlotSet(c, s, active, {f})
      PROVE  Next
  BY <1>5 DEF SlotSet, Next, SlotControl
<1>6. QED
  BY <1>2, <1>3, <1>4, <1>5 DEF PaletteNext, paletteVars

(* A hub with a palette column implements the hub.                         *)
THEOREM PaletteColumnIsAClient == PaletteSpec => Spec
<1>1. PaletteInit => Init
  BY DEF PaletteInit
<1>2. QED
  BY <1>1, PaletteStepIsHubStep, PTL DEF PaletteSpec, Spec

-----------------------------------------------------------------------------
(* What the callback does.                                                 *)

(* No caller made the column longer than its palettes.                     *)
OnlyPalettes == nSlots[PaletteCol] <= NPalettes

Col == [Slots -> SUBSET Flags]

(* Told v about a slot, the palette becomes that slot's if v is live, and  *)
(* else one that is live in the column as the callback reads it, if any.   *)
LEMMA ToldIsLive ==
  ASSUME TypeOK, OnlyPalettes, NEW pal, NEW s \in Slots, s < nSlots[PaletteCol],
         NEW v, NEW col, Live(v) => s \in LiveSlots(col)
  PROVE  /\ Live(v) => Told(pal, s, v, col) = s
         /\ LiveSlots(col) # {} => Told(pal, s, v, col) \in LiveSlots(col)
         /\ LiveSlots(col) = {} => Told(pal, s, v, col) = pal
<1>1. ~(s >= NPalettes)
  BY PaletteAssumption DEF OnlyPalettes, TypeOK, Slots
<1>2. LiveSlots(col) # {} => Max(LiveSlots(col)) \in LiveSlots(col)
  <2>1. LiveSlots(col) \in SUBSET Slots
    BY DEF LiveSlots
  <2>2. QED
    BY <2>1, MaxOfSlots
<1> HIDE DEF LiveSlots
<1>3. QED
  BY <1>1, <1>2 DEF Told

(* Slots of the column have palettes.                                      *)
LEMMA LiveHasPalette ==
  ASSUME TypeOK, OnlyPalettes, NEW col, NEW s \in LiveSlots(col)
  PROVE  s \in 0 .. NPalettes - 1
BY PaletteAssumption DEF OnlyPalettes, TypeOK, Slots, LiveSlots

(* The release loop leaves a palette of the column.                        *)
LEMMA ReleaseType ==
  ASSUME TypeOK, OnlyPalettes, PaletteTypeOK, HasColumn(PaletteCol),
         \A s \in Slots : ~HasSlot(PaletteCol, s) => activated[PaletteCol][s] = {}
  PROVE  AfterRelease(PaletteCol) \in {NoPalette} \cup 0 .. NPalettes - 1
<1> DEFINE c == PaletteCol
           released(n) ==
             [t \in Slots |-> IF t <= n THEN activated[c][t] \ {DEFAULT} ELSE activated[c][t]]
           decisive == {n \in Selected(c) : n < NPalettes /\ LiveSlots(released(n)) # {}}
           last == Max(decisive)
<1>1. CASE decisive = {}
  BY <1>1 DEF AfterRelease, PaletteTypeOK
<1>2. CASE decisive # {}
  <2>1. last \in decisive
    <3>1. decisive \in SUBSET Slots
      BY DEF Selected
    <3>2. QED
      BY <1>2, <3>1, MaxOfSlots
  <2>2. last \in Slots /\ LiveSlots(released(last)) # {} /\ DEFAULT \in activated[c][last]
    BY <2>1 DEF Selected
  <2>3. last < nSlots[c]
    BY <2>2 DEF HasSlot
  <2>4. Told(palette, last, {}, released(last)) \in LiveSlots(released(last))
    <3>1. ~Live({})
      BY DEF Live
    <3> HIDE DEF released, last
    <3>2. QED
      BY <2>2, <2>3, <3>1, ToldIsLive
  <2>5. AfterRelease(c) = Told(palette, last, {}, released(last))
    BY <1>2 DEF AfterRelease
  <2>6. QED
    BY <2>4, <2>5, LiveHasPalette
<1>3. QED
  BY <1>1, <1>2

-----------------------------------------------------------------------------
(* The palette in use.                                                     *)

(* A slot that does not exist is not on.                                   *)
Unused == \A c \in Columns, s \in Slots : ~HasSlot(c, s) => activated[c][s] = {}

PaletteLive == LiveSlots(Column) # {} => palette \in LiveSlots(Column)

PaletteIInv == TypeOK /\ PaletteTypeOK /\ Unused /\ PaletteLive

(* The slots that become live take the palette over.                       *)
TakesOver == \A s \in LiveSlots(Column)' \ LiveSlots(Column) : palette' = s

LEMMA UnusedStep ==
  ASSUME TypeOK, Unused, [Next]_hubVars
  PROVE  Unused'
<1>1. ASSUME UNCHANGED activated, \A c \in Columns, s \in Slots : HasSlot(c, s) => HasSlot(c, s)'
      PROVE  Unused'
  BY <1>1 DEF Unused
<1>2. ASSUME UNCHANGED <<nColumns, nSlots>>, NEW c \in Columns, NEW s \in Slots, HasSlot(c, s),
             \A d \in Columns, t \in Slots :
               activated[d][t] = {} /\ ~(d = c /\ t = s) => activated'[d][t] = {}
      PROVE  Unused'
  BY <1>2 DEF Unused, HasSlot, HasColumn
<1>3. ASSUME NEW c \in Columns, NEW s \in Slots, NEW all \in BOOLEAN, ExpandTo(c, s, all)
      PROVE  Unused'
  <2>1. /\ nColumns' = Larger(nColumns, c + 1)
        /\ \A d \in Columns : nSlots'[d] \in {nSlots[d], Larger(nSlots[d], s + 1)}
    BY <1>3 DEF ExpandTo
  <2>2. /\ nColumns \in Nat /\ nColumns' \in Nat /\ nColumns <= nColumns'
        /\ \A d \in Columns : nSlots[d] \in Nat /\ nSlots'[d] \in Nat /\ nSlots[d] <= nSlots'[d]
    <3>1. \A a, b \in Nat : Larger(a, b) \in Nat /\ a <= Larger(a, b)
      BY DEF Larger
    <3>2. nColumns \in Nat /\ c + 1 \in Nat /\ s + 1 \in Nat
          /\ \A d \in Columns : nSlots[d] \in Nat
      BY BoundsAssumption DEF TypeOK, Columns, Slots
    <3>3. \A d \in Columns : nSlots'[d] \in Nat /\ nSlots[d] <= nSlots'[d]
      <4>1. TAKE d \in Columns
      <4>2. CASE nSlots'[d] = nSlots[d]
        BY <3>2, <4>2
      <4>3. CASE nSlots'[d] = Larger(nSlots[d], s + 1)
        BY <3>1, <3>2, <4>3
      <4>4. QED
        BY <2>1, <4>2, <4>3
    <3>4. QED
      BY <2>1, <3>1, <3>2, <3>3
  <2>3. \A d \in Columns, t \in Slots : HasSlot(d, t) => HasSlot(d, t)'
    BY <2>2 DEF HasSlot, HasColumn, Columns, Slots
  <2>4. QED
    BY <1>1, <1>3, <2>3 DEF ExpandTo, state
<1>4. CASE Setup
  <2>1. CASE \E c \in Columns, s \in Slots, all \in BOOLEAN : ExpandTo(c, s, all)
    BY <1>3, <2>1
  <2>2. CASE UNCHANGED <<activated, nColumns, nSlots>>
    BY <1>1, <2>2 DEF HasSlot, HasColumn
  <2>3. QED
    BY <1>4, <2>1, <2>2
    DEF Setup, SetFlash, SetForcedSelection, AddParams, RegisterInput, Start, layout, state
<1>5. CASE Faders \/ Subscriptions \/ UNCHANGED hubVars
  BY <1>1, <1>5
  DEF Faders, Dim, SetMasterDim, SetParam, UpdatePreviewActivatedMasks,
      Subscriptions, Subscribe, Resend, Unsubscribe, hubVars, layout, state, HasSlot, HasColumn
<1>6. ASSUME NEW c \in Columns, NEW s \in Slots, ButtonPressed(c, s)
      PROVE  Unused'
  BY ZenonT(60), <1>2, <1>6 DEF TypeOK, ButtonPressed, PressedColumn, layout
<1>7. ASSUME NEW c \in Columns, NEW s \in Slots, ButtonReleased(c, s)
      PROVE  Unused'
  BY <1>2, <1>7 DEF TypeOK, ButtonReleased, layout
<1>8. ASSUME NEW c \in Columns, NEW s \in Slots, NEW active \in BOOLEAN, NEW f \in SetFlags,
             SetSlotActive(c, s, active, {f})
      PROVE  Unused'
  <2>1. /\ UNCHANGED <<nColumns, nSlots>> /\ HasSlot(c, s)
        /\ activated' = [activated EXCEPT ![c][s] = WithFlags(activated[c][s], active, {f})]
    BY <1>8 DEF SetSlotActive, SetSlots, layout
  <2>2. \A d \in Columns, t \in Slots :
          ~(d = c /\ t = s) => activated'[d][t] = activated[d][t]
    BY <2>1 DEF TypeOK
  <2>3. \A d \in Columns, t \in Slots :
          activated[d][t] = {} /\ ~(d = c /\ t = s) => activated'[d][t] = {}
    BY <2>2
  <2>4. QED
    BY <1>2, <2>1, <2>3
<1>9. QED
  BY <1>4, <1>5, <1>6, <1>7, <1>8 DEF Next, Buttons, SlotControl

(* The callback at the end of an operation on slot s of the column.        *)
LEMMA Turned ==
  ASSUME PaletteIInv, OnlyPalettes, UNCHANGED nSlots,
         NEW s \in Slots, s < nSlots[PaletteCol], NEW v,
         NEW pal \in {NoPalette} \cup 0 .. NPalettes - 1,
         palette' = Told(pal, s, v, Column'),
         Live(v) => s \in LiveSlots(Column'),
         LiveSlots(Column') \ LiveSlots(Column) \subseteq (IF Live(v) THEN {s} ELSE {})
  PROVE  /\ palette' \in {NoPalette} \cup 0 .. NPalettes - 1
         /\ PaletteLive' /\ TakesOver
<1> DEFINE col == Column'
<1>1. LiveSlots(Column)' = LiveSlots(col)
  BY DEF LiveSlots
<1>2. /\ Live(v) => palette' = s
      /\ LiveSlots(col) # {} => palette' \in LiveSlots(col)
      /\ LiveSlots(col) = {} => palette' = pal
  BY ToldIsLive DEF PaletteIInv
<1>3. LiveSlots(col) # {} => palette' \in 0 .. NPalettes - 1
  BY <1>2, LiveHasPalette DEF PaletteIInv
<1> HIDE DEF col
<1>4. QED
  BY <1>1, <1>2, <1>3 DEF PaletteLive, TakesOver, col

(* Where the column stays as it is, so does the palette.                   *)
LEMMA Unturned ==
  ASSUME PaletteIInv, UNCHANGED palette, LiveSlots(Column)' = LiveSlots(Column)
  PROVE  /\ palette' \in {NoPalette} \cup 0 .. NPalettes - 1
         /\ PaletteLive' /\ TakesOver
BY DEF PaletteIInv, PaletteTypeOK, PaletteLive, TakesOver

LEMMA PaletteStep ==
  ASSUME PaletteIInv, OnlyPalettes, [PaletteNext]_paletteVars
  PROVE  PaletteIInv' /\ TakesOver
<1> DEFINE Good == /\ palette' \in {NoPalette} \cup 0 .. NPalettes - 1
                   /\ PaletteLive' /\ TakesOver
<1>1. TypeOK /\ PaletteTypeOK /\ Unused /\ PaletteCol \in Columns
  BY PaletteAssumption DEF PaletteIInv
<1>2. ASSUME NEW c \in Columns, NEW s \in Slots, Pressed(c, s)
      PROVE  Good
  <2>1. /\ HasSlot(c, s) /\ UNCHANGED nSlots
        /\ activated' = [activated EXCEPT ![c] = PressedColumn(c, s)]
    BY <1>2 DEF Pressed, ButtonPressed, layout
  <2>2. CASE c # PaletteCol
    <3>1. Column' = Column /\ palette' = palette
      BY <1>1, <1>2, <2>1, <2>2 DEF TypeOK, Pressed, Column
    <3>2. QED
      BY <2>1, <3>1, Unturned DEF LiveSlots
  <2>3. CASE c = PaletteCol
    <3> DEFINE pal == IF releaseColumn[c][s] THEN AfterRelease(c) ELSE palette
    <3>1. Column' = PressedColumn(c, s) /\ s < nSlots[PaletteCol] /\ HasColumn(c)
      BY <1>1, <2>1, <2>3 DEF TypeOK, HasSlot, Column
    <3>2. palette' = Told(pal, s, PressedFlags(c, s), Column')
      BY <1>2, <2>3, <3>1 DEF Pressed, AfterPress
    <3>3. pal \in {NoPalette} \cup 0 .. NPalettes - 1
      BY <1>1, <2>3, <3>1, ReleaseType DEF PaletteTypeOK, Unused
    <3>4. \A t \in Slots \ {s} : Live(Column'[t]) => Live(Column[t])
      BY <2>3, <3>1 DEF PressedColumn, Live, Column
    <3>5. Column'[s] = PressedFlags(c, s)
      BY <3>1 DEF PressedColumn
    <3>6. Live(PressedFlags(c, s)) <=> s \in LiveSlots(Column')
      BY <3>1, <3>5 DEF LiveSlots
    <3>7. LiveSlots(Column') \ LiveSlots(Column)
            \subseteq (IF Live(PressedFlags(c, s)) THEN {s} ELSE {})
      BY <3>4, <3>6, <2>1 DEF LiveSlots
    <3> HIDE DEF pal
    <3>8. QED
      BY <2>1, <3>1, <3>2, <3>3, <3>6, <3>7, Turned
  <2>4. QED
    BY <2>2, <2>3
<1>3. ASSUME NEW c \in Columns, NEW s \in Slots, Released(c, s)
      PROVE  Good
  <2>1. /\ HasSlot(c, s) /\ UNCHANGED nSlots
        /\ activated' = [activated EXCEPT ![c][s] = @ \ {FLASH}]
    BY <1>3 DEF Released, ButtonReleased, layout
  <2>2. CASE c # PaletteCol
    <3>1. Column' = Column /\ palette' = palette
      BY <1>1, <1>3, <2>1, <2>2 DEF TypeOK, Released, Column
    <3>2. QED
      BY <2>1, <3>1, Unturned DEF LiveSlots
  <2>3. CASE c = PaletteCol
    <3>1. s < nSlots[PaletteCol] /\ palette' = Told(palette, s, {}, Column')
      BY <1>3, <2>1, <2>3 DEF Released, HasSlot, Column
    <3>2. ~Live({})
      BY DEF Live
    <3>3. \A t \in Slots : Live(Column'[t]) => Live(Column[t])
      BY <1>1, <2>1, <2>3 DEF TypeOK, Live, Column
    <3>4. LiveSlots(Column') \subseteq LiveSlots(Column)
      BY <2>1, <3>3 DEF LiveSlots
    <3>5. QED
      BY <1>1, <2>1, <3>1, <3>2, <3>4, Turned DEF PaletteTypeOK
  <2>4. QED
    BY <2>2, <2>3
<1>4. ASSUME NEW c \in Columns, NEW s \in Slots, NEW active \in BOOLEAN, NEW f \in SetFlags,
             SlotSet(c, s, active, {f})
      PROVE  Good
  <2>1. /\ HasSlot(c, s) /\ UNCHANGED nSlots
        /\ activated' = [activated EXCEPT ![c][s] = WithFlags(@, active, {f})]
    BY <1>4 DEF SlotSet, SetSlotActive, SetSlots, layout
  <2>2. CASE c # PaletteCol
    <3>1. Column' = Column /\ palette' = palette
      BY <1>1, <1>4, <2>1, <2>2 DEF TypeOK, SlotSet, Column
    <3>2. QED
      BY <2>1, <3>1, Unturned DEF LiveSlots
  <2>3. CASE c = PaletteCol
    <3>1. s < nSlots[PaletteCol] /\ palette' = Told(palette, s, Column'[s], Column')
      BY <1>4, <2>1, <2>3 DEF SlotSet, HasSlot, Column
    <3>2. \A t \in Slots \ {s} : Column'[t] = Column[t]
      BY <1>1, <2>1, <2>3 DEF TypeOK, Column
    <3>3. Live(Column'[s]) <=> s \in LiveSlots(Column')
      BY <2>1, <3>1 DEF LiveSlots
    <3>4. LiveSlots(Column') \ LiveSlots(Column)
            \subseteq (IF Live(Column'[s]) THEN {s} ELSE {})
      BY <2>1, <3>2, <3>3 DEF LiveSlots
    <3>5. QED
      BY <1>1, <2>1, <3>1, <3>3, <3>4, Turned DEF PaletteTypeOK
  <2>4. QED
    BY <2>2, <2>3
<1>5. ASSUME UNCHANGED <<activated, palette>>, [Next]_hubVars
      PROVE  Good
  <2>1. ASSUME NEW s \in Slots, ~(s < nSlots[PaletteCol])
        PROVE  ~Live(Column[s])
    <3>1. Column[s] = {}
      BY <1>1, <2>1 DEF Unused, HasSlot, Column
    <3>2. QED
      BY <3>1 DEF Live
  <2>2. LiveSlots(Column) = {s \in Slots : Live(Column[s])}
    BY <2>1 DEF LiveSlots
  <2>3. Unused' /\ PaletteCol \in Columns
    BY <1>1, <1>5, UnusedStep
  <2>4. ASSUME NEW s \in Slots, ~(s < nSlots'[PaletteCol])
        PROVE  ~Live(Column'[s])
    <3>1. Column'[s] = {}
      BY <2>3, <2>4 DEF Unused, HasSlot, Column
    <3>2. QED
      BY <3>1 DEF Live
  <2>5. LiveSlots(Column)' = {s \in Slots : Live(Column'[s])}
    BY <2>4 DEF LiveSlots
  <2>6. QED
    BY <1>5, <2>2, <2>5, Unturned DEF Column
<1>6. [Next]_hubVars
  BY PaletteStepIsHubStep
<1>7. Good
  <2>1. CASE Create \/ HubAlone \/ UNCHANGED paletteVars
    BY <1>5, <1>6, <2>1
    DEF Create, HubAlone, paletteVars, hubVars, state, ExpandTo,
        Setup, SetFlash, SetForcedSelection, AddParams, RegisterInput, Start,
        Faders, Dim, SetMasterDim, SetParam, UpdatePreviewActivatedMasks,
        Subscriptions, Subscribe, Resend, Unsubscribe
  <2>2. QED
    BY <1>2, <1>3, <1>4, <2>1 DEF PaletteNext
<1>8. TypeOK' /\ Unused'
  BY <1>1, <1>6, NextType, UnusedStep
<1>9. created' \in BOOLEAN
  BY <1>1 DEF PaletteTypeOK, PaletteNext, Create, HubAlone, paletteVars
<1>10. QED
  BY <1>7, <1>8, <1>9 DEF PaletteIInv, PaletteTypeOK

LEMMA PaletteStart == PaletteInit => PaletteIInv
<1> SUFFICES ASSUME PaletteInit PROVE PaletteIInv
  OBVIOUS
<1>1. TypeOK
  BY InitType DEF PaletteInit
<1>2. Unused /\ \A s \in Slots : Column[s] = {}
  BY PaletteAssumption DEF PaletteInit, Init, Unused, Column
<1>3. LiveSlots(Column) = {}
  BY <1>2 DEF LiveSlots, Live
<1>4. QED
  BY <1>1, <1>2, <1>3 DEF PaletteInit, PaletteIInv, PaletteTypeOK, PaletteLive

(* As long as no caller makes the column longer than its palettes, the     *)
(* palette in use belongs to a live slot if there is one, whatever the     *)
(* order of presses, flashes, steps and previews (onHubSlotActiveChange).  *)
THEOREM PaletteIsLive == PaletteSpec /\ []OnlyPalettes => []PaletteInv
<1>1. PaletteIInv /\ OnlyPalettes /\ [PaletteNext]_paletteVars => PaletteIInv'
  BY PaletteStep
<1>2. PaletteIInv => PaletteInv
  BY DEF PaletteIInv, PaletteInv, PaletteLive
<1>3. QED
  BY PaletteStart, <1>1, <1>2, PTL DEF PaletteSpec

(* And the slot that becomes live last has its palette used.               *)
THEOREM LastOneTakesOver == PaletteSpec /\ []OnlyPalettes => LastOneWins
<1>1. PaletteIInv /\ OnlyPalettes /\ [PaletteNext]_paletteVars => PaletteIInv'
  BY PaletteStep
<1>2. ASSUME PaletteIInv, OnlyPalettes, [PaletteNext]_paletteVars
      PROVE  [\A s \in LiveSlots(Column)' \ LiveSlots(Column) : palette' = s]_paletteVars
  BY <1>2, PaletteStep DEF TakesOver
<1>3. QED
  BY PaletteStart, <1>1, <1>2, PTL DEF PaletteSpec, LastOneWins

-----------------------------------------------------------------------------
(* The surface.                                                            *)

HeldKeys == {<<ColumnOf(k), k[2]>> : k \in held}

(* The slots that there are are the ones that are lit.                     *)
ApcHub ==
  /\ TypeOK /\ apc \in subscribed
  /\ \A c \in Columns, s \in Slots : ~HasSlot(c, s) => activated[c][s] = {}

ApcModes ==
  /\ mk2 \in BOOLEAN /\ columnOffset \in {0, Width}
  /\ flashMode \in BOOLEAN /\ offsetLamp \in BOOLEAN /\ flashLamp \in BOOLEAN
  /\ held \subseteq Keys

OnePointer == mouse = {} \/ \E x \in Columns \X Slots : mouse = {x}

(* What flashes will be released: by the button of a flash slot, or by a   *)
(* key of the flash mode while the mode lasts.                             *)
WillEnd(x) == flash[x[1]][x[2]] \/ (flashMode /\ x \in HeldKeys)

FlashEnds == \A x \in Flashing \ slipped : x \in Held /\ WillEnd(x)

ApcSafe ==
  /\ ApcHub /\ ApcModes /\ OnePointer /\ NoGhostLamp /\ ModeLampsTrue
  /\ slipped \subseteq Flashing /\ FlashEnds

LEMMA ApcSafeImplies == ApcSafe => SurfaceInv
<1> SUFFICES ASSUME ApcSafe PROVE SurfaceInv
  OBVIOUS
<1>1. mouse \subseteq Columns \X Slots /\ Cardinality(mouse) <= 1
  <2>1. CASE mouse = {}
    BY <2>1, FS_EmptySet
  <2>2. ASSUME NEW x \in Columns \X Slots, mouse = {x}
        PROVE  mouse \subseteq Columns \X Slots /\ Cardinality(mouse) <= 1
    <3>1. Cardinality({x}) = 1
      BY FS_Singleton
    <3>2. QED
      BY <2>2, <3>1
  <2>3. QED
    BY <2>1, <2>2 DEF ApcSafe, OnePointer
<1>2. ApcTypeOK
  BY <1>1 DEF ApcSafe, ApcModes, ApcTypeOK
<1>3. FlashIsHeld
  BY DEF ApcSafe, FlashEnds, FlashIsHeld
<1>4. QED
  BY <1>2, <1>3 DEF ApcSafe, SurfaceInv

-----------------------------------------------------------------------------
(* What the hub's operations do to flags and lamps.                        *)

(* A slot is left alone, or its lamp goes out and no flag comes, or its    *)
(* lamp shows its new flags.                                               *)
Redrawn ==
  \A c \in Columns, s \in Slots :
    \/ activated'[c][s] = activated[c][s] /\ seenSlot'[apc][c][s] = seenSlot[apc][c][s]
    \/ seenSlot'[apc][c][s] = {} /\ activated'[c][s] \subseteq activated[c][s]
    \/ HasSlot(c, s) /\ seenSlot'[apc][c][s] = activated'[c][s]

(* No slot but those of On is set flashing.                                *)
FlashesOnly(On) ==
  \A x \in Columns \X Slots :
    FLASH \in activated'[x[1]][x[2]] => FLASH \in activated[x[1]][x[2]] \/ x \in On

(* The operation of a surface or a pointer.                                *)
HubAction(On) ==
  /\ TypeOK' /\ Redrawn /\ FlashesOnly(On)
  /\ nColumns' = nColumns /\ nSlots' = nSlots /\ flash' = flash /\ subscribed' = subscribed

LEMMA ThereIsColumn ==
  ASSUME TypeOK, NEW c \in Nat, HasColumn(c)
  PROVE  c \in Columns
BY BoundsAssumption DEF TypeOK, HasColumn, Columns

LEMMA NoAction == ASSUME ApcHub, UNCHANGED hubVars PROVE HubAction({})
BY DEF ApcHub, HubAction, Redrawn, FlashesOnly, hubVars, layout, state, seen, TypeOK

LEMMA PressAction ==
  ASSUME ApcHub, NEW c \in Columns, NEW s \in Slots, ButtonPressed(c, s)
  PROVE  HubAction(IF flash[c][s] THEN {<<c, s>>} ELSE {})
<1>1. TypeOK /\ TypeOK'
  BY ButtonPressedType DEF ApcHub
<1>2. /\ HasSlot(c, s) /\ UNCHANGED <<layout, subscribed>>
      /\ activated' = [activated EXCEPT ![c] = PressedColumn(c, s)]
      /\ seenSlot' = Tell(seenSlot, [k \in Controllers |->
                       [seenSlot[k] EXCEPT ![c] = PressedSeen(k, c, s)]])
  BY DEF ButtonPressed
<1>3. seenSlot'[apc] = [seenSlot[apc] EXCEPT ![c] = PressedSeen(apc, c, s)]
  BY <1>2, ApcAssumption DEF ApcHub, Tell
<1>4. /\ activated'[c] = PressedColumn(c, s) /\ seenSlot'[apc][c] = PressedSeen(apc, c, s)
      /\ \A d \in Columns : d # c => /\ activated'[d] = activated[d]
                                     /\ seenSlot'[apc][d] = seenSlot[apc][d]
  BY ZenonT(60), <1>1, <1>2, <1>3, ApcAssumption DEF TypeOK
<1>5. ASSUME NEW t \in Slots
      PROVE  /\ t = s => /\ activated'[c][t] = PressedFlags(c, s)
                         /\ seenSlot'[apc][c][t] = PressedFlags(c, s)
             /\ t # s => \/ /\ activated'[c][t] = activated[c][t]
                            /\ seenSlot'[apc][c][t] = seenSlot[apc][c][t]
                         \/ /\ activated'[c][t] = activated[c][t] \ {DEFAULT}
                            /\ seenSlot'[apc][c][t] = {}
  <2>1. DEFAULT \notin activated[c][t] => activated[c][t] \ {DEFAULT} = activated[c][t]
    OBVIOUS
  <2>2. QED
    BY <1>4, <2>1 DEF PressedColumn, PressedSeen, Selected
<1>6. Redrawn
  <2> SUFFICES ASSUME NEW d \in Columns, NEW t \in Slots
               PROVE
    \/ activated'[d][t] = activated[d][t] /\ seenSlot'[apc][d][t] = seenSlot[apc][d][t]
    \/ seenSlot'[apc][d][t] = {} /\ activated'[d][t] \subseteq activated[d][t]
    \/ HasSlot(d, t) /\ seenSlot'[apc][d][t] = activated'[d][t]
    BY DEF Redrawn
  <2>1. CASE d # c
    BY <1>4, <2>1
  <2>2. CASE d = c /\ t = s
    BY <1>2, <1>5, <2>2
  <2>3. CASE d = c /\ t # s
    BY <1>5, <2>3
  <2>4. QED
    BY <2>1, <2>2, <2>3
<1>7. FlashesOnly(IF flash[c][s] THEN {<<c, s>>} ELSE {})
  <2> SUFFICES ASSUME NEW d \in Columns, NEW t \in Slots, FLASH \in activated'[d][t],
                      FLASH \notin activated[d][t]
               PROVE  d = c /\ t = s /\ flash[c][s]
    BY DEF FlashesOnly
  <2>1. d = c /\ t = s
    BY <1>4, <1>5
  <2>2. FLASH \in PressedFlags(c, s)
    BY <1>5, <2>1
  <2>3. QED
    BY <2>1, <2>2 DEF PressedFlags, DEFAULT, FLASH
<1>8. QED
  BY <1>1, <1>2, <1>6, <1>7 DEF HubAction, layout

LEMMA ReleaseAction ==
  ASSUME ApcHub, NEW c \in Columns, NEW s \in Slots, ButtonReleased(c, s)
  PROVE  HubAction({}) /\ FLASH \notin activated'[c][s]
<1>1. TypeOK /\ TypeOK'
  BY ButtonReleasedType DEF ApcHub
<1>2. /\ HasSlot(c, s) /\ UNCHANGED <<layout, subscribed>>
      /\ activated' = [activated EXCEPT ![c][s] = @ \ {FLASH}]
      /\ seenSlot' = Tell(seenSlot, [k \in Controllers |-> [seenSlot[k] EXCEPT ![c][s] = {}]])
  BY DEF ButtonReleased
<1>3. seenSlot'[apc] = [seenSlot[apc] EXCEPT ![c][s] = {}]
  BY <1>2, ApcAssumption DEF ApcHub, Tell
<1>4. /\ activated'[c][s] = activated[c][s] \ {FLASH} /\ seenSlot'[apc][c][s] = {}
      /\ \A d \in Columns, t \in Slots : <<d, t>> # <<c, s>> =>
           /\ activated'[d][t] = activated[d][t]
           /\ seenSlot'[apc][d][t] = seenSlot[apc][d][t]
  <2>1. /\ activated \in [Columns -> [Slots -> SUBSET Flags]]
        /\ seenSlot[apc] \in [Columns -> [Slots -> {Unknown} \cup SUBSET Flags]]
    BY <1>1, ApcAssumption DEF TypeOK
  <2> DEFINE f == seenSlot[apc]
             g == seenSlot'[apc]
  <2>2. f \in [Columns -> [Slots -> {Unknown} \cup SUBSET Flags]]
        /\ g = [f EXCEPT ![c][s] = {}]
    BY <1>3, <2>1
  <2> HIDE DEF f, g
  <2>3. /\ g[c][s] = {}
        /\ \A d \in Columns, t \in Slots : <<d, t>> # <<c, s>> => g[d][t] = f[d][t]
    BY <2>2
  <2>4. /\ activated'[c][s] = activated[c][s] \ {FLASH}
        /\ \A d \in Columns, t \in Slots : <<d, t>> # <<c, s>> => activated'[d][t] = activated[d][t]
    BY <1>2, <2>1
  <2>5. QED
    BY <2>3, <2>4 DEF f, g
<1>5. Redrawn
  BY <1>4 DEF Redrawn
<1>6. FlashesOnly({}) /\ FLASH \notin activated'[c][s]
  BY <1>4 DEF FlashesOnly
<1>7. QED
  BY <1>1, <1>2, <1>5, <1>6 DEF HubAction, layout

LEMMA SetAction ==
  ASSUME ApcHub, NEW c \in Columns, NEW s \in Slots, NEW active \in BOOLEAN, NEW f \in Flags,
         SetSlotActive(c, s, active, {f})
  PROVE  /\ HubAction(IF active /\ f = FLASH THEN {<<c, s>>} ELSE {})
         /\ ~active => f \notin activated'[c][s]
<1> DEFINE new == [activated EXCEPT ![c][s] = WithFlags(@, active, {f})]
<1>1. TypeOK /\ activated \in [Columns -> [Slots -> SUBSET Flags]]
  BY DEF ApcHub, TypeOK
<1>2. WithFlags(activated[c][s], active, {f}) \in SUBSET Flags
  BY <1>1 DEF WithFlags
<1>3. new \in [Columns -> [Slots -> SUBSET Flags]]
  BY <1>1, <1>2
<1>4. HasSlot(c, s) /\ SetSlots(new) /\ UNCHANGED <<layout, subscribed>>
  BY DEF SetSlotActive
<1>5. TypeOK'
  <2> HIDE DEF new
  <2>1. /\ activated' \in [Columns -> [Slots -> SUBSET Flags]]
        /\ seenSlot' \in [Controllers -> [Columns -> [Slots -> {Unknown} \cup SUBSET Flags]]]
    BY <1>1, <1>3, <1>4, SetSlotsType
  <2>2. QED
    BY <1>1, <2>1 DEF TypeOK, SetSlotActive, layout
<1>6. /\ new[c][s] = WithFlags(activated[c][s], active, {f})
      /\ \A d \in Columns, t \in Slots : <<d, t>> # <<c, s>> => new[d][t] = activated[d][t]
  BY <1>1
<1> HIDE DEF new
<1>7. /\ activated' = new
      /\ \A d \in Columns, t \in Slots : seenSlot'[apc][d][t] =
           IF new[d][t] # activated[d][t] THEN new[d][t] ELSE seenSlot[apc][d][t]
  <2>1. seenSlot'[apc] = [d \in Columns |-> [t \in Slots |->
           IF new[d][t] # activated[d][t] THEN new[d][t] ELSE seenSlot[apc][d][t]]]
    BY <1>4, ApcAssumption DEF ApcHub, SetSlots, Tell
  <2>2. \A d \in Columns, t \in Slots : seenSlot'[apc][d][t] =
          IF new[d][t] # activated[d][t] THEN new[d][t] ELSE seenSlot[apc][d][t]
    BY <2>1
  <2>3. QED
    BY <1>4, <2>2 DEF SetSlots
<1>8. Redrawn
  BY <1>4, <1>6, <1>7 DEF Redrawn
<1>9. FlashesOnly(IF active /\ f = FLASH THEN {<<c, s>>} ELSE {})
  <2> SUFFICES ASSUME NEW d \in Columns, NEW t \in Slots, FLASH \in new[d][t],
                      FLASH \notin activated[d][t]
               PROVE  <<d, t>> = <<c, s>> /\ active /\ f = FLASH
    BY <1>7 DEF FlashesOnly
  <2>1. <<d, t>> = <<c, s>>
    BY <1>6
  <2>2. FLASH \in WithFlags(activated[c][s], active, {f})
    BY <1>6, <2>1
  <2>3. QED
    BY <2>1, <2>2 DEF WithFlags
<1>10. ~active => f \notin activated'[c][s]
  BY <1>6, <1>7 DEF WithFlags
<1>11. QED
  BY <1>4, <1>5, <1>8, <1>9, <1>10 DEF HubAction, layout

LEMMA DimmingAction ==
  ASSUME ApcHub, UNCHANGED <<activated, seenSlot, layout, subscribed>>, TypeOK'
  PROVE  HubAction({})
BY DEF HubAction, Redrawn, FlashesOnly, layout

-----------------------------------------------------------------------------
(* What the surface and the pointer make of it.                            *)

LEMMA LampsStay ==
  ASSUME ApcHub, NoGhostLamp, columnOffset' = columnOffset, columnOffset \in {0, Width},
         NEW On, HubAction(On)
  PROVE  ApcHub' /\ NoGhostLamp'
<1>1. \A c \in Columns, s \in Slots : HasSlot(c, s)' <=> HasSlot(c, s)
  BY DEF HubAction, HasSlot, HasColumn
<1>2. \A c \in Columns, s \in Slots : ~HasSlot(c, s)' => activated'[c][s] = {}
  <2> SUFFICES ASSUME NEW c \in Columns, NEW s \in Slots, ~HasSlot(c, s)
               PROVE  activated'[c][s] = {}
    BY <1>1
  <2>1. activated[c][s] = {}
    BY DEF ApcHub
  <2>2. QED
    BY <2>1 DEF HubAction, Redrawn
<1>3. ApcHub'
  BY <1>2 DEF ApcHub, HubAction
<1>4. NoGhostLamp'
  <2> SUFFICES ASSUME NEW c \in columnOffset .. columnOffset + Width - 1, NEW s \in Slots,
                      c \in Columns, seenSlot'[apc][c][s] # {}
               PROVE  /\ HasSlot(c, s)' /\ activated'[c][s] # {}
                      /\ seenSlot'[apc][c][s] \in {activated'[c][s], {DEFAULT}}
    BY DEF NoGhostLamp
  <2>1. CASE activated'[c][s] = activated[c][s] /\ seenSlot'[apc][c][s] = seenSlot[apc][c][s]
    BY <1>1, <2>1 DEF NoGhostLamp
  <2>2. CASE HasSlot(c, s) /\ seenSlot'[apc][c][s] = activated'[c][s]
    BY <1>1, <2>2
  <2>3. QED
    BY <2>1, <2>2 DEF HubAction, Redrawn
<1>5. QED
  BY <1>3, <1>4

(* A step of the surface or the pointer that leaves the modes alone: what  *)
(* it switches on is held, and what it lets go of does not flash.          *)
LEMMA HandsMove ==
  ASSUME ApcSafe, UNCHANGED <<mk2, columnOffset, flashMode, offsetLamp, flashLamp>>,
         NEW On, HubAction(On), held' \subseteq Keys, OnePointer', Forget,
         \A x \in On : x \in Held' /\ WillEnd(x)',
         \A x \in Flashing' \ slipped : x \in Held /\ WillEnd(x) => x \in Held' /\ WillEnd(x)'
  PROVE  ApcSafe'
<1>1. ApcHub' /\ NoGhostLamp'
  BY LampsStay DEF ApcSafe, ApcModes
<1>2. ApcModes' /\ ModeLampsTrue'
  BY DEF ApcSafe, ApcModes, ModeLampsTrue
<1>3. slipped' \subseteq Flashing'
  BY DEF Forget
<1>4. FlashEnds'
  <2> SUFFICES ASSUME NEW x \in Flashing' \ slipped' PROVE x \in Held' /\ WillEnd(x)'
    BY DEF FlashEnds
  <2>1. x \in Columns \X Slots /\ FLASH \in activated'[x[1]][x[2]] /\ x \notin slipped
    BY DEF Flashing, Forget
  <2>2. CASE x \in On
    BY <2>2
  <2>3. CASE x \notin On
    <3>1. x \in Flashing
      BY <2>1, <2>3 DEF HubAction, FlashesOnly, Flashing
    <3>2. x \in Held /\ WillEnd(x)
      BY <2>1, <3>1 DEF ApcSafe, FlashEnds
    <3>3. QED
      BY <2>1, <3>2
  <2>4. QED
    BY <2>2, <2>3
<1>5. QED
  BY <1>1, <1>2, <1>3, <1>4 DEF ApcSafe

LEMMA KeyFacts ==
  ASSUME ApcSafe, NEW k \in Keys
  PROVE  ColumnOf(k) \in Nat /\ k[2] \in Slots /\ k[2] \in Nat
<1>1. k[1] \in 0 .. Width - 1 /\ k[2] \in Slots
  BY DEF Keys
<1>2. columnOffset \in Nat
  BY ApcAssumption DEF ApcSafe, ApcModes
<1>3. QED
  BY <1>1, <1>2, ApcAssumption DEF ColumnOf, Slots

(* The hub's operations for a slot that may not exist.                     *)
LEMMA PressDone ==
  ASSUME ApcHub, NEW c \in Nat, NEW s \in Slots, Press(c, s)
  PROVE  \E On : HubAction(On) /\ \A x \in On : x = <<c, s>> /\ c \in Columns /\ flash[c][s]
<1>1. CASE ButtonPressed(c, s)
  <2>1. c \in Columns
    BY <1>1, ThereIsColumn DEF ButtonPressed, HasSlot, ApcHub
  <2>2. HubAction(IF flash[c][s] THEN {<<c, s>>} ELSE {})
    BY <1>1, <2>1, PressAction
  <2>3. QED
    BY <2>1, <2>2
<1>2. CASE UNCHANGED hubVars
  <2>1. HubAction({})
    BY <1>2, NoAction
  <2>2. QED
    BY <2>1
<1>3. QED
  BY <1>1, <1>2 DEF Press

LEMMA ReleaseDone ==
  ASSUME ApcHub, NEW c \in Nat, NEW s \in Slots, Release(c, s)
  PROVE  HubAction({}) /\ (c \in Columns /\ flash[c][s] => FLASH \notin activated'[c][s])
<1>1. CASE ButtonReleased(c, s)
  <2>1. c \in Columns
    BY <1>1, ThereIsColumn DEF ButtonReleased, HasSlot, ApcHub
  <2>2. QED
    BY <1>1, <2>1, ReleaseAction
<1>2. CASE (HasSlot(c, s) => ~flash[c][s] \/ FLASH \notin activated[c][s]) /\ UNCHANGED hubVars
  <2>1. HubAction({}) /\ activated' = activated
    BY <1>2, NoAction DEF hubVars, state
  <2>2. c \in Columns /\ flash[c][s] => FLASH \notin activated[c][s]
    BY <1>2 DEF ApcHub
  <2>3. QED
    BY <2>1, <2>2
<1>3. QED
  BY <1>1, <1>2 DEF Release

LEMMA SetDone ==
  ASSUME ApcHub, NEW c \in Nat, NEW s \in Slots, NEW active \in BOOLEAN,
         SetSlot(c, s, active, {FLASH})
  PROVE  /\ \E On : HubAction(On) /\ \A x \in On : x = <<c, s>> /\ active
         /\ ~active /\ c \in Columns => FLASH \notin activated'[c][s]
<1>1. CASE SetSlotActive(c, s, active, {FLASH})
  <2>1. c \in Columns /\ FLASH \in Flags
    BY <1>1, ThereIsColumn DEF SetSlotActive, HasSlot, ApcHub, Flags
  <2>2. /\ HubAction(IF active /\ FLASH = FLASH THEN {<<c, s>>} ELSE {})
        /\ ~active => FLASH \notin activated'[c][s]
    BY <1>1, <2>1, SetAction
  <2>3. QED
    BY <2>1, <2>2
<1>2. CASE (HasSlot(c, s) => WithFlags(activated[c][s], active, {FLASH}) = activated[c][s])
           /\ UNCHANGED hubVars
  <2>1. HubAction({}) /\ activated' = activated
    BY <1>2, NoAction DEF hubVars, state
  <2>2. ~active /\ c \in Columns => FLASH \notin activated[c][s]
    BY <1>2 DEF ApcHub, WithFlags
  <2>3. QED
    BY <2>1, <2>2
<1>3. QED
  BY <1>1, <1>2 DEF SetSlot

LEMMA KeyDownApc == ASSUME ApcSafe, NEW k \in Keys, KeyDown(k) PROVE ApcSafe'
<1> DEFINE x == <<ColumnOf(k), k[2]>>
<1>1. /\ ColumnOf(k) \in Nat /\ k[2] \in Slots /\ ApcHub
      /\ held' = held \cup {k} /\ Forget /\ UNCHANGED <<mk2, modeVars, mouse>>
  BY KeyFacts DEF KeyDown, ApcSafe
<1>2. \E On : HubAction(On) /\ \A y \in On : y = x /\ (flashMode \/ flash[x[1]][x[2]])
  <2>1. CASE flashMode
    <3>1. SetSlot(ColumnOf(k), k[2], TRUE, {FLASH})
      BY <2>1 DEF KeyDown
    <3>2. QED
      BY <1>1, <2>1, <3>1, SetDone
  <2>2. CASE ~flashMode
    BY <1>1, <2>2, PressDone DEF KeyDown
  <2>3. QED
    BY <2>1, <2>2
<1>3. PICK On : HubAction(On) /\ \A y \in On : y = x /\ (flashMode \/ flash[x[1]][x[2]])
  BY <1>2
<1>4. HeldKeys' = HeldKeys \cup {x} /\ Held' = Held \cup {x}
  BY <1>1 DEF HeldKeys, Held, modeVars, ColumnOf
<1> HIDE DEF x
<1>5. flash' = flash /\ flashMode' = flashMode
  BY <1>1, <1>3 DEF HubAction, modeVars
<1>6. \A y : WillEnd(y) => WillEnd(y)'
  BY <1>4, <1>5 DEF WillEnd
<1>7. \A y \in On : y \in Held' /\ WillEnd(y)'
  BY <1>3, <1>4, <1>5 DEF WillEnd
<1>8. held' \subseteq Keys /\ OnePointer'
  BY <1>1 DEF ApcSafe, ApcModes, OnePointer
<1>9. QED
  BY <1>1, <1>3, <1>4, <1>6, <1>7, <1>8, HandsMove DEF modeVars

LEMMA KeyUpApc == ASSUME ApcSafe, NEW k \in Keys, KeyUp(k) PROVE ApcSafe'
<1> DEFINE x == <<ColumnOf(k), k[2]>>
<1>1. /\ ColumnOf(k) \in Nat /\ k[2] \in Slots /\ ApcHub /\ k \in held
      /\ held' = held \ {k} /\ Forget /\ UNCHANGED <<mk2, modeVars, mouse>>
  BY KeyFacts DEF KeyUp, ApcSafe
<1>2. /\ HubAction({})
      /\ flashMode \/ flash[x[1]][x[2]] => x \notin Flashing'
  <2>1. CASE flashMode
    <3>1. SetSlot(ColumnOf(k), k[2], FALSE, {FLASH})
      BY <2>1 DEF KeyUp
    <3>2. /\ \E On : HubAction(On) /\ \A y \in On : y = x /\ FALSE
          /\ ColumnOf(k) \in Columns => FLASH \notin activated'[ColumnOf(k)][k[2]]
      BY <1>1, <3>1, SetDone
    <3>3. PICK On : HubAction(On) /\ \A y \in On : FALSE
      BY <3>2
    <3>4. On = {}
      BY <3>3
    <3>5. HubAction({})
      BY <3>3, <3>4
    <3>6. QED
      BY <3>2, <3>5 DEF Flashing
  <2>2. CASE ~flashMode
    BY <1>1, <2>2, ReleaseDone DEF KeyUp, Flashing
  <2>3. QED
    BY <2>1, <2>2
<1>3. /\ \A y \in HeldKeys : y # x => y \in HeldKeys'
      /\ \A y \in Held : y # x => y \in Held'
      /\ x \in mouse => x \in Held'
  BY <1>1 DEF HeldKeys, Held, modeVars, ColumnOf
<1> HIDE DEF x
<1>4. flash' = flash /\ flashMode' = flashMode
  BY <1>1, <1>2 DEF HubAction, modeVars
<1>5. ASSUME NEW y \in Flashing' \ slipped, y \in Held, WillEnd(y)
      PROVE  y \in Held' /\ WillEnd(y)'
  <2>1. y # x
    BY <1>2, <1>5 DEF WillEnd
  <2>2. QED
    BY <1>3, <1>4, <1>5, <2>1 DEF WillEnd
<1>6. held' \subseteq Keys /\ OnePointer'
  BY <1>1 DEF ApcSafe, ApcModes, OnePointer
<1>7. QED
  BY <1>1, <1>2, <1>5, <1>6, HandsMove DEF modeVars

LEMMA MouseDownApc ==
  ASSUME ApcSafe, NEW c \in Columns, NEW s \in Slots, MouseDown(c, s) PROVE ApcSafe'
<1>1. /\ c \in Nat /\ ApcHub /\ Press(c, s) /\ mouse = {} /\ mouse' = {<<c, s>>}
      /\ Forget /\ UNCHANGED <<mk2, modeVars, held>>
  BY BoundsAssumption DEF MouseDown, ApcSafe, Columns
<1>2. PICK On : HubAction(On) /\ \A x \in On : x = <<c, s>> /\ c \in Columns /\ flash[c][s]
  BY <1>1, PressDone
<1>3. Held' = Held \cup {<<c, s>>} /\ HeldKeys' = HeldKeys
  BY <1>1 DEF Held, HeldKeys, modeVars, ColumnOf
<1>4. flash' = flash /\ flashMode' = flashMode
  BY <1>1, <1>2 DEF HubAction, modeVars
<1>5. \A y : WillEnd(y) => WillEnd(y)'
  BY <1>3, <1>4 DEF WillEnd
<1>6. \A x \in On : x \in Held' /\ WillEnd(x)'
  BY <1>2, <1>3, <1>4 DEF WillEnd
<1>7. held' \subseteq Keys /\ OnePointer'
  BY <1>1 DEF ApcSafe, ApcModes, OnePointer
<1>8. QED
  BY <1>1, <1>2, <1>3, <1>5, <1>6, <1>7, HandsMove DEF modeVars

LEMMA MouseUpApc ==
  ASSUME ApcSafe, NEW c \in Columns, NEW s \in Slots, MouseUp(c, s) PROVE ApcSafe'
<1>1. /\ c \in Nat /\ ApcHub /\ Release(c, s) /\ mouse = {<<c, s>>} /\ mouse' = {}
      /\ Forget /\ UNCHANGED <<mk2, modeVars, held>>
  BY BoundsAssumption DEF MouseUp, ApcSafe, Columns
<1>2. HubAction({}) /\ (flash[c][s] => FLASH \notin activated'[c][s])
  BY <1>1, ReleaseDone
<1>3. HeldKeys' = HeldKeys /\ Held' = HeldKeys /\ Held = HeldKeys \cup {<<c, s>>}
  BY <1>1 DEF Held, HeldKeys, modeVars, ColumnOf
<1>4. flash' = flash /\ flashMode' = flashMode
  BY <1>1, <1>2 DEF HubAction, modeVars
<1>5. ASSUME NEW y \in Flashing' \ slipped, y \in Held, WillEnd(y)
      PROVE  y \in Held' /\ WillEnd(y)'
  <2>1. WillEnd(y)'
    BY <1>3, <1>4, <1>5 DEF WillEnd
  <2>2. y = <<c, s>> => ~flash[y[1]][y[2]]
    BY <1>2, <1>5 DEF Flashing
  <2>3. QED
    BY <1>3, <1>5, <2>1, <2>2 DEF WillEnd
<1>6. held' \subseteq Keys /\ OnePointer'
  BY <1>1 DEF ApcSafe, ApcModes, OnePointer
<1>7. QED
  BY <1>1, <1>2, <1>5, <1>6, HandsMove DEF modeVars

(* A step of the sequencer, a fader: the flashing slots stay the same.     *)
LEMMA NobodysHand ==
  ASSUME ApcSafe, UNCHANGED <<mk2, modeVars, held, mouse, slipped>>, HubAction({}),
         Flashing' = Flashing
  PROVE  ApcSafe'
<1>1. Forget
  BY DEF ApcSafe, Forget
<1>2. Held' = Held /\ HeldKeys' = HeldKeys
  BY DEF Held, HeldKeys, ColumnOf, modeVars
<1>3. \A x : WillEnd(x)' <=> WillEnd(x)
  BY <1>2 DEF WillEnd, HubAction, modeVars
<1>4. held' \subseteq Keys /\ OnePointer'
  BY DEF ApcSafe, ApcModes, OnePointer
<1>5. \A x \in {} : x \in Held' /\ WillEnd(x)'
  OBVIOUS
<1>6. QED
  BY <1>1, <1>2, <1>3, <1>4, <1>5, HandsMove DEF modeVars

LEMMA SequencerApc ==
  ASSUME ApcSafe, NEW active \in BOOLEAN, SequencerStep(active) PROVE ApcSafe'
<1>1. SetSlotActive(0, 0, active, {SEQUENCE}) /\ ApcHub
  BY DEF SequencerStep, ApcSafe
<1>2. 0 \in Columns /\ 0 \in Slots /\ SEQUENCE \in Flags
  <2>1. 0 \in Columns
    BY <1>1, ThereIsColumn DEF SetSlotActive, HasSlot, ApcHub
  <2>2. QED
    BY <2>1, ApcAssumption DEF Slots, Flags
<1>3. HubAction({})
  <2>1. HubAction(IF active /\ SEQUENCE = FLASH THEN {<<0, 0>>} ELSE {})
    BY <1>1, <1>2, SetAction
  <2>2. QED
    BY <2>1 DEF SEQUENCE, FLASH
<1>4. activated' = [activated EXCEPT ![0][0] = WithFlags(@, active, {SEQUENCE})]
  BY <1>1 DEF SetSlotActive, SetSlots
<1>5. activated \in [Columns -> [Slots -> SUBSET Flags]]
  BY <1>1 DEF ApcHub, TypeOK
<1>6. \A c \in Columns, s \in Slots :
        FLASH \in activated'[c][s] <=> FLASH \in activated[c][s]
  <2>1. SEQUENCE # FLASH
    BY DEF SEQUENCE, FLASH
  <2> HIDE DEF WithFlags
  <2>2. FLASH \in WithFlags(activated[0][0], active, {SEQUENCE}) <=> FLASH \in activated[0][0]
    BY <2>1 DEF WithFlags
  <2>3. QED
    BY <1>2, <1>4, <1>5, <2>2
<1>7. Flashing' = Flashing
  BY <1>6 DEF Flashing
<1>8. QED
  BY <1>3, <1>7, NobodysHand DEF SequencerStep

LEMMA FaderApc ==
  ASSUME ApcSafe, NEW x \in 0 .. Width - 1, NEW v \in Levels, Fader(x, v) PROVE ApcSafe'
<1>1. Dim(x + columnOffset, v) /\ ApcHub
  BY DEF Fader, ApcSafe
<1>2. x + columnOffset \in Nat
  BY ApcAssumption DEF ApcSafe, ApcModes
<1>3. x + columnOffset \in Columns
  BY <1>1, <1>2, ThereIsColumn DEF Dim, ApcHub
<1>4. TypeOK' /\ UNCHANGED <<activated, seenSlot, layout, subscribed>>
  BY <1>1, <1>3, DimType DEF ApcHub, Dim
<1>5. HubAction({}) /\ Flashing' = Flashing
  BY <1>1, <1>4, DimmingAction DEF Flashing
<1>6. QED
  BY <1>5, NobodysHand DEF Fader

LEMMA MasterFaderApc == ASSUME ApcSafe, NEW v \in Levels, MasterFader(v) PROVE ApcSafe'
<1>1. SetMasterDim(v) /\ ApcHub
  BY DEF MasterFader, ApcSafe
<1>2. TypeOK' /\ UNCHANGED <<activated, seenSlot, layout, subscribed>>
  BY <1>1, SetMasterDimType DEF ApcHub, SetMasterDim
<1>3. HubAction({}) /\ Flashing' = Flashing
  BY <1>1, <1>2, DimmingAction DEF Flashing
<1>4. QED
  BY <1>3, NobodysHand DEF MasterFader

(* When a mode changes, what is held while it flashes slips out of the     *)
(* hands: nothing else flashed.                                            *)
LEMMA AllSlip ==
  ASSUME ApcSafe, Slip, UNCHANGED activated
  PROVE  slipped' \subseteq Flashing' /\ FlashEnds'
<1>1. Flashing' = Flashing
  BY DEF Flashing
<1>2. slipped' = Flashing
  BY DEF ApcSafe, FlashEnds, Slip
<1>3. QED
  BY <1>1, <1>2 DEF FlashEnds

LEMMA ToggleFlashApc == ASSUME ApcSafe, ToggleFlash PROVE ApcSafe'
<1>1. UNCHANGED <<hubVars, mk2, columnOffset, offsetLamp, held, mouse>> /\ Slip
      /\ flashMode' = ~flashMode /\ flashLamp' = flashMode'
  BY DEF ToggleFlash
<1>2. ApcHub' /\ NoGhostLamp'
  <2>1. HubAction({})
    BY <1>1, NoAction DEF ApcSafe
  <2>2. QED
    BY <1>1, <2>1, LampsStay DEF ApcSafe, ApcModes
<1>3. slipped' \subseteq Flashing' /\ FlashEnds'
  BY <1>1, AllSlip DEF hubVars, state
<1>4. ApcModes' /\ OnePointer' /\ ModeLampsTrue'
  BY <1>1 DEF ApcSafe, ApcModes, OnePointer, ModeLampsTrue
<1>5. QED
  BY <1>2, <1>3, <1>4 DEF ApcSafe

LEMMA ToggleColumnOffsetApc == ASSUME ApcSafe, ToggleColumnOffset PROVE ApcSafe'
<1>1. /\ columnOffset' = Width - columnOffset /\ SetLeds(columnOffset') /\ Slip
      /\ offsetLamp' = (columnOffset' # 0) /\ flashLamp' = (flashLamp /\ mk2)
      /\ UNCHANGED <<started, layout, state, subscribed, seenDim, seenMaster, seenParam, seenMask,
                     mk2, flashMode, held, mouse>>
  BY DEF ToggleColumnOffset, NextOffset
<1>2. columnOffset' \in {0, Width}
  BY <1>1, ApcAssumption DEF ApcSafe, ApcModes
<1>3. \A c \in Columns, s \in Slots : seenSlot'[apc][c][s] =
        IF c \in columnOffset' .. columnOffset' + Width - 1
        THEN IF HasSlot(c, s) /\ activated[c][s] # {} THEN {DEFAULT} ELSE {}
        ELSE seenSlot[apc][c][s]
  BY <1>1, ApcAssumption DEF SetLeds, ApcSafe, ApcHub, TypeOK
<1>4. seenSlot' \in [Controllers -> [Columns -> [Slots -> {Unknown} \cup SUBSET Flags]]]
  <2> DEFINE T == {Unknown} \cup SUBSET Flags
             leds == [c \in Columns |-> [s \in Slots |->
               IF c \in columnOffset' .. columnOffset' + Width - 1
               THEN IF HasSlot(c, s) /\ activated[c][s] # {} THEN {DEFAULT} ELSE {}
               ELSE seenSlot[apc][c][s]]]
  <2>1. {DEFAULT} \in T /\ {} \in T
    BY DEF Flags
  <2>2. seenSlot \in [Controllers -> [Columns -> [Slots -> T]]]
    BY DEF ApcSafe, ApcHub, TypeOK
  <2> HIDE DEF T
  <2>3. \A c \in Columns, s \in Slots : seenSlot[apc][c][s] \in T
    BY <2>2, ApcAssumption
  <2>4. leds \in [Columns -> [Slots -> T]]
    BY <2>1, <2>3
  <2>5. seenSlot' = [seenSlot EXCEPT ![apc] = leds]
    BY <1>1 DEF SetLeds
  <2> HIDE DEF leds
  <2>6. QED
    BY <2>2, <2>4, <2>5 DEF T
<1>5. ApcHub'
  <2>1. TypeOK'
    BY <1>1, <1>4 DEF ApcSafe, ApcHub, TypeOK, layout, state
  <2>2. QED
    BY <1>1, <2>1 DEF ApcSafe, ApcHub, HasSlot, HasColumn, layout, state
<1>6. NoGhostLamp'
  <2> SUFFICES ASSUME NEW c \in columnOffset' .. columnOffset' + Width - 1, NEW s \in Slots,
                      c \in Columns, seenSlot'[apc][c][s] # {}
               PROVE  /\ HasSlot(c, s)' /\ activated'[c][s] # {}
                      /\ seenSlot'[apc][c][s] \in {activated'[c][s], {DEFAULT}}
    BY DEF NoGhostLamp
  <2>1. HasSlot(c, s)' <=> HasSlot(c, s)
    BY <1>1 DEF HasSlot, HasColumn, layout
  <2>2. QED
    BY <1>1, <1>3, <2>1 DEF state
<1>7. slipped' \subseteq Flashing' /\ FlashEnds'
  BY <1>1, AllSlip DEF state
<1>8. ApcModes' /\ OnePointer' /\ ModeLampsTrue'
  <2>1. OnePointer' /\ ModeLampsTrue'
    BY <1>1 DEF ApcSafe, ApcModes, OnePointer, ModeLampsTrue
  <2>2. ApcModes'
    BY <1>1, <1>2 DEF ApcSafe, ApcModes
  <2>3. QED
    BY <2>1, <2>2
<1>9. QED
  BY <1>5, <1>6, <1>7, <1>8 DEF ApcSafe

LEMMA ApcInitSafe == ApcInit => ApcSafe
<1> SUFFICES ASSUME ApcInit PROVE ApcSafe
  OBVIOUS
<1>1. TypeOK
  <2>1. nColumns \in 0 .. MaxColumns /\ nSlots \in [Columns -> 0 .. MaxSlots]
    BY BoundsAssumption, ApcAssumption DEF ApcInit
  <2>2. /\ activated \in [Columns -> [Slots -> SUBSET Flags]]
        /\ flash \in [Columns -> [Slots -> BOOLEAN]]
        /\ releaseColumn \in [Columns -> [Slots -> BOOLEAN]]
        /\ forced \in [Columns -> BOOLEAN]
    BY DEF ApcInit
  <2>3. /\ dim \in [Columns -> Levels] /\ masterDim \in Levels /\ nParams \in 1 .. MaxParams
        /\ params \in [ParamSlots -> [Fields -> Values]] /\ inputs \in Seq(Input)
    BY BoundsAssumption, DataAssumption DEF ApcInit
  <2>4. seenSlot \in [Controllers -> [Columns -> [Slots -> {Unknown} \cup SUBSET Flags]]]
    BY DEF ApcInit
  <2>5. /\ seenDim \in [Controllers -> [Columns -> Levels \cup {Unknown}]]
        /\ seenMaster \in [Controllers -> Levels \cup {Unknown}]
        /\ seenParam \in [Controllers -> [ParamSlots -> [Fields -> Values \cup {Unknown}]]]
        /\ seenMask \in [Controllers -> {Unknown} \cup SUBSET Flags]
    BY DEF ApcInit
  <2>6. started \in BOOLEAN /\ subscribed \subseteq Controllers
    BY ApcAssumption DEF ApcInit
  <2>7. QED
    BY <2>1, <2>2, <2>3, <2>4, <2>5, <2>6 DEF TypeOK
<1>2. ApcHub
  BY <1>1 DEF ApcHub, ApcInit
<1>3. ApcModes /\ OnePointer /\ ModeLampsTrue
  BY DEF ApcInit, ApcModes, OnePointer, ModeLampsTrue
<1>4. NoGhostLamp
  BY ApcAssumption DEF ApcInit, NoGhostLamp
<1>5. Flashing = {} /\ slipped = {}
  BY DEF ApcInit, Flashing
<1>6. QED
  BY <1>2, <1>3, <1>4, <1>5 DEF ApcSafe, FlashEnds

LEMMA ApcStepSafe == ASSUME ApcSafe, [ApcNext]_vars PROVE ApcSafe'
<1>1. ASSUME NEW k \in Keys, KeyDown(k) PROVE ApcSafe'
  BY <1>1, KeyDownApc
<1>2. ASSUME NEW k \in Keys, KeyUp(k) PROVE ApcSafe'
  BY <1>2, KeyUpApc
<1>3. CASE ToggleColumnOffset
  BY <1>3, ToggleColumnOffsetApc
<1>4. CASE ToggleFlash
  BY <1>4, ToggleFlashApc
<1>5. ASSUME NEW x \in 0 .. Width - 1, NEW v \in Levels, Fader(x, v) PROVE ApcSafe'
  BY <1>5, FaderApc
<1>6. ASSUME NEW v \in Levels, MasterFader(v) PROVE ApcSafe'
  BY <1>6, MasterFaderApc
<1>7. ASSUME NEW c \in Columns, NEW s \in Slots, MouseDown(c, s) PROVE ApcSafe'
  BY <1>7, MouseDownApc
<1>8. ASSUME NEW c \in Columns, NEW s \in Slots, MouseUp(c, s) PROVE ApcSafe'
  BY <1>8, MouseUpApc
<1>9. ASSUME NEW active \in BOOLEAN, SequencerStep(active) PROVE ApcSafe'
  BY <1>9, SequencerApc
<1>10. CASE UNCHANGED vars
  <2>1. HubAction({})
    BY <1>10, NoAction DEF ApcSafe, vars
  <2>2. Flashing' = Flashing
    BY <1>10 DEF Flashing, vars, hubVars, state
  <2>3. QED
    BY <1>10, <2>1, <2>2, NobodysHand DEF vars
<1>11. CASE Surface
  BY <1>1, <1>2, <1>3, <1>4, <1>5, <1>6, <1>11 DEF Surface
<1>12. CASE Others
  BY <1>7, <1>8, <1>9, <1>12 DEF Others
<1>13. QED
  BY <1>10, <1>11, <1>12 DEF ApcNext

(* Wherever the window of the surface stands and whoever else switches the *)
(* slots, a lit lamp is over a live slot, what flashes is held or slipped  *)
(* away at a change of mode, and the mode lamps do not lie: for any grid,  *)
(* any hub and either make.                                                *)
THEOREM SurfaceIsTrue == ApcSpec => []SurfaceInv
<1>1. ApcInit => ApcSafe
  BY ApcInitSafe
<1>2. ApcSafe /\ [ApcNext]_vars => ApcSafe'
  BY ApcStepSafe
<1>3. ApcSafe => SurfaceInv
  BY ApcSafeImplies
<1>4. QED
  BY <1>1, <1>2, <1>3, PTL DEF ApcSpec
=============================================================================
