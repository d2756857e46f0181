---------------------------- MODULE PaletteColumn ---------------------------
(***************************************************************************)
(* A palette column: a hub controller that turns the slots of one column   *)
(* into a choice of palette for a parameter set.  Its callback runs inside *)
(* the hub's operations and reads the column while the hub is still        *)
(* changing it, so the callbacks of one press are played one by one.       *)
(***************************************************************************)
EXTENDS ControlHub, FiniteSetsExt

CONSTANTS
  PaletteCol,   (* columnIndex                                             *)
  NPalettes,    (* palettes.size()                                         *)
  NoPalette     (* the params' palette before the column chose one         *)

ASSUME PaletteAssumption ==
  /\ PaletteCol \in Columns
  /\ NPalettes \in 1 .. MaxSlots
  /\ NoPalette \notin Slots

VARIABLES
  created,      (* the PaletteColumn is constructed and subscribed         *)
  palette       (* Params::palette, as the slot it belongs to              *)

paletteVars == <<hubVars, created, palette>>

PaletteTypeOK ==
  /\ created \in BOOLEAN
  /\ palette \in {NoPalette} \cup 0 .. NPalettes - 1

PaletteInit == Init /\ created = FALSE /\ palette = NoPalette

Live(flags) == flags \ {PREVIEW} # {}

LiveSlots(col) == {s \in Slots : s < nSlots[PaletteCol] /\ Live(col[s])}

ToldNoFallback(pal, s, v, col) == IF s < NPalettes /\ Live(v) THEN s ELSE pal

ToldHighest(pal, s, v, col) ==
  IF s >= NPalettes THEN pal
  ELSE IF LiveSlots(col) # {} THEN Max(LiveSlots(col))
  ELSE pal

(* onHubSlotActiveChange for slot s of the column, told value v, while the *)
(* hub's column holds col; pal is the palette before the call.             *)
Told(pal, s, v, col) ==
  IF s >= NPalettes THEN pal
  ELSE IF Live(v) THEN s
  ELSE IF LiveSlots(col) # {} THEN Max(LiveSlots(col))
  ELSE pal

(* The palette after the release loop of a press, which clears and tells   *)
(* off one selected slot after the other: the last slot that is told while *)
(* another one is live decides.                                            *)
AfterRelease(c) ==
  LET released(n) ==   (* the column when the loop has passed slot n *)
        [t \in Slots |-> IF t <= n THEN activated[c][t] \ {DEFAULT} ELSE activated[c][t]]
      decisive == {n \in Selected(c) : n < NPalettes /\ LiveSlots(released(n)) # {}}
  IN  IF decisive = {} THEN palette
      ELSE Told(palette, Max(decisive), {}, released(Max(decisive)))

AfterPress(c, s) ==
  Told(IF releaseColumn[c][s] THEN AfterRelease(c) ELSE palette,
       s, PressedFlags(c, s), PressedColumn(c, s))

Pressed(c, s) ==
  /\ ButtonPressed(c, s)
  /\ palette' = IF c = PaletteCol THEN AfterPress(c, s) ELSE palette

Released(c, s) ==
  /\ ButtonReleased(c, s)
  /\ palette' = IF c = PaletteCol THEN Told(palette, s, {}, activated'[c]) ELSE palette

SlotSet(c, s, active, fs) ==
  /\ SetSlotActive(c, s, active, fs)
  /\ palette' = IF c = PaletteCol THEN Told(palette, s, activated'[c][s], activated'[c])
                ELSE palette

(* The constructor makes the slots; main() subscribes the column.          *)
Create ==
  /\ ~created
  /\ ExpandTo(PaletteCol, NPalettes - 1, FALSE)
  /\ created' = TRUE
  /\ UNCHANGED palette

(* Whatever else the hub does while it is set up, for its faders and for   *)
(* its other controllers.                                                  *)
HubAlone ==
  /\ Setup \/ Faders \/ Subscriptions
  /\ started' => created
  /\ UNCHANGED <<created, palette>>

PaletteNext ==
  \/ Create
  \/ HubAlone
  \/ /\ created
     /\ UNCHANGED created
     /\ \/ \E c \in Columns, s \in Slots : Pressed(c, s) \/ Released(c, s)
        \/ \E c \in Columns, s \in Slots, active \in BOOLEAN, f \in SetFlags :
             SlotSet(c, s, active, {f})

PaletteSpec == PaletteInit /\ [][PaletteNext]_paletteVars

-----------------------------------------------------------------------------
(* Properties.                                                             *)

Column == activated[PaletteCol]

(* The types; whatever the order of presses, flashes, steps and previews,  *)
(* the palette in use belongs to a slot that is live, if any slot of the   *)
(* column is (the fallback in onHubSlotActiveChange).                      *)
PaletteInv ==
  /\ TypeOK /\ PaletteTypeOK
  /\ LiveSlots(Column) # {} => palette \in LiveSlots(Column)

(* The slot that was switched on last wins: a slot that becomes live by a  *)
(* press, a flash or a step takes the palette over.                        *)
LastOneWins ==
  [][\A s \in LiveSlots(Column)' \ LiveSlots(Column) : palette' = s]_paletteVars

=============================================================================
