------------------------------ MODULE ApcMini ------------------------------
(***************************************************************************)
(* An APC mini on the control hub, beside a web page and a sequencer.  Its *)
(* grid is a window of Width columns that a key moves by Width, and a mode *)
(* key makes every grid key a flash key.  The lamps of the grid are what   *)
(* seenSlot[apc] holds for the slots in the window: setLeds writes them,   *)
(* and the hub's callbacks do.  A key is <<column of the grid, slot>>; the *)
(* tap keys, which only speak to the tempo, are left out.                  *)
(***************************************************************************)
EXTENDS ControlHub

CONSTANTS
  Width,        (* of the grid; its rows are the slots                     *)
  apc           (* the controller                                          *)

ASSUME ApcAssumption ==
  Width \in Nat \ {0} /\ apc \in Controllers /\ MaxSlots \in Nat \ {0}

Keys == (0 .. Width - 1) \X Slots

VARIABLES
  mk2,                          (* the make: MK2 or MK1                    *)
  columnOffset, flashMode,      (* ApcMiniController::columnOffset, flash  *)
  offsetLamp, flashLamp,        (* the lamps of the two mode keys          *)
  held,                         (* keys of the surface that are down       *)
  mouse,                        (* the slots pressed on the web page       *)
  slipped                       (* history: flashing slots whose key was   *)
                                (* down when a mode changed                *)

modeVars == <<columnOffset, flashMode, offsetLamp, flashLamp>>
vars     == <<hubVars, mk2, modeVars, held, mouse, slipped>>

Flashing == {x \in Columns \X Slots : FLASH \in activated[x[1]][x[2]]}

ApcTypeOK ==
  /\ mk2 \in BOOLEAN /\ columnOffset \in {0, Width}
  /\ {flashMode, offsetLamp, flashLamp} \subseteq BOOLEAN
  /\ held \subseteq Keys
  /\ mouse \subseteq Columns \X Slots /\ Cardinality(mouse) <= 1
  /\ slipped \subseteq Flashing

ColumnOf(k) == k[1] + columnOffset
Held == mouse \cup {<<ColumnOf(k), k[2]>> : k \in held}

(* The surface is plugged in when the hub is set up: the last column has a *)
(* slot less than the others, slot 0 of a column releases it, the others   *)
(* are flash slots.                                                        *)
ApcInit ==
  /\ started = TRUE
  /\ nColumns = MaxColumns
  /\ nSlots = [c \in Columns |-> IF c = MaxColumns - 1 THEN MaxSlots - 1 ELSE MaxSlots]
  /\ activated = [c \in Columns |-> [s \in Slots |-> {}]]
  /\ flash = [c \in Columns |-> [s \in Slots |-> s > 0]]
  /\ releaseColumn = [c \in Columns |-> [s \in Slots |-> s = 0]]
  /\ forced = [c \in Columns |-> FALSE]
  /\ dim = [c \in Columns |-> FullLevel] /\ masterDim = FullLevel
  /\ nParams = 1 /\ params = [p \in ParamSlots |-> [f \in Fields |-> InitValue]]
  /\ inputs = <<>>
  /\ subscribed = {apc}
  /\ seenSlot = [k \in Controllers |-> [c \in Columns |-> [s \in Slots |->
                   IF k = apc /\ c < Width THEN {} ELSE Unknown]]]
  /\ seenDim = [k \in Controllers |-> [c \in Columns |-> Unknown]]
  /\ seenMaster = [k \in Controllers |-> Unknown]
  /\ seenParam = [k \in Controllers |-> [p \in ParamSlots |-> [f \in Fields |-> Unknown]]]
  /\ seenMask = [k \in Controllers |-> Unknown]
  /\ mk2 \in BOOLEAN
  /\ columnOffset = 0 /\ flashMode = FALSE /\ offsetLamp = FALSE /\ flashLamp = FALSE
  /\ held = {} /\ mouse = {} /\ slipped = {}

-----------------------------------------------------------------------------
(* The hub's operations, called for slots that may not exist.              *)

Press(c, s) ==
  \/ ButtonPressed(c, s)
  \/ /\ HasSlot(c, s) => PressedFlags(c, s) = activated[c][s] \/ PressRefused(c, s)
     /\ UNCHANGED hubVars

Release(c, s) ==
  \/ ButtonReleased(c, s)
  \/ /\ HasSlot(c, s) => ~flash[c][s] \/ FLASH \notin activated[c][s]
     /\ UNCHANGED hubVars

SetSlot(c, s, active, fs) ==
  \/ SetSlotActive(c, s, active, fs)
  \/ /\ HasSlot(c, s) => WithFlags(activated[c][s], active, fs) = activated[c][s]
     /\ UNCHANGED hubVars

Forget == slipped' = slipped \cap Flashing'

(* Wrong on purpose: a release never looks at the mode.                    *)
PlainRelease(k) ==
  /\ k \in held /\ held' = held \ {k}
  /\ Release(ColumnOf(k), k[2])
  /\ Forget
  /\ UNCHANGED <<mk2, modeVars, mouse>>

KeyDown(k) ==
  /\ k \notin held /\ held' = held \cup {k}
  /\ IF flashMode THEN SetSlot(ColumnOf(k), k[2], TRUE, {FLASH}) ELSE Press(ColumnOf(k), k[2])
  /\ Forget
  /\ UNCHANGED <<mk2, modeVars, mouse>>

KeyUp(k) ==
  /\ k \in held /\ held' = held \ {k}
  /\ IF flashMode THEN SetSlot(ColumnOf(k), k[2], FALSE, {FLASH}) ELSE Release(ColumnOf(k), k[2])
  /\ Forget
  /\ UNCHANGED <<mk2, modeVars, mouse>>

(* setLeds passes whether a slot is active, which reads as DEFAULT, and    *)
(* turns off what has no slot.                                             *)
SetLeds(offset) ==
  seenSlot' = [seenSlot EXCEPT ![apc] = [c \in Columns |-> [s \in Slots |->
    IF c \in offset .. offset + Width - 1
    THEN IF HasSlot(c, s) /\ activated[c][s] # {} THEN {DEFAULT} ELSE {}
    ELSE seenSlot[apc][c][s]]]]

NextOffset == Width - columnOffset

Slip == slipped' = slipped \cup (Flashing \cap Held)

ToggleColumnOffset ==
  /\ columnOffset' = NextOffset
  /\ SetLeds(columnOffset')
  /\ offsetLamp' = (columnOffset' # 0)
  /\ flashLamp' = (flashLamp /\ mk2)        (* 83 is one of MK1's side leds *)
  /\ Slip
  /\ UNCHANGED <<started, layout, state, subscribed, seenDim, seenMaster, seenParam, seenMask,
                 mk2, flashMode, held, mouse>>

ToggleFlash ==
  /\ flashMode' = ~flashMode
  /\ flashLamp' = flashMode'
  /\ Slip
  /\ UNCHANGED <<hubVars, mk2, columnOffset, offsetLamp, held, mouse>>

(* A fader of a column that does not exist moves nothing.                  *)
Fader(x, v) ==
  /\ Dim(x + columnOffset, v)
  /\ UNCHANGED <<mk2, modeVars, held, mouse, slipped>>

MasterFader(v) ==
  /\ columnOffset = 0
  /\ SetMasterDim(v)
  /\ UNCHANGED <<mk2, modeVars, held, mouse, slipped>>

-----------------------------------------------------------------------------
(* The web page's one pointer, and the steps of a sequencer of column 0.   *)

MouseDown(c, s) ==
  /\ mouse = {} /\ mouse' = {<<c, s>>}
  /\ HasSlot(c, s) /\ Press(c, s)
  /\ Forget
  /\ UNCHANGED <<mk2, modeVars, held>>

MouseUp(c, s) ==
  /\ mouse = {<<c, s>>} /\ mouse' = {}
  /\ Release(c, s)
  /\ Forget
  /\ UNCHANGED <<mk2, modeVars, held>>

SequencerStep(active) ==
  /\ SetSlotActive(0, 0, active, {SEQUENCE})
  /\ UNCHANGED <<mk2, modeVars, held, mouse, slipped>>

Surface ==
  \/ \E k \in Keys : KeyDown(k)
  \/ \E k \in Keys : KeyUp(k)
  \/ ToggleColumnOffset
  \/ ToggleFlash
  \/ \E x \in 0 .. Width - 1, v \in Levels : Fader(x, v)
  \/ \E v \in Levels : MasterFader(v)

Others ==
  \/ \E c \in Columns, s \in Slots : MouseDown(c, s)
  \/ \E c \in Columns, s \in Slots : MouseUp(c, s)
  \/ \E active \in BOOLEAN : SequencerStep(active)

ApcNext == Surface \/ Others

ApcSpec == ApcInit /\ [][ApcNext]_vars

-----------------------------------------------------------------------------
(* Properties.                                                             *)

(* Wherever the window is moved and whoever switches the slots, a lit lamp *)
(* of the grid is over an active slot, and it shows the flags of the slot  *)
(* or, after setLeds, plain green (onHubSlotActiveChange, setLeds).        *)
NoGhostLamp ==
  \A c \in columnOffset .. columnOffset + Width - 1, s \in Slots :
    c \in Columns /\ seenSlot[apc][c][s] # {} =>
      HasSlot(c, s) /\ activated[c][s] # {} /\ seenSlot[apc][c][s] \in {activated[c][s], {DEFAULT}}

(* A slot flashes only under a key or pointer that holds it, except when   *)
(* the window or the flash mode was changed while its key was down: the    *)
(* release is then handled with the new mode (handleKeyPress).             *)
FlashIsHeld == Flashing \subseteq Held \cup slipped

(* The lamps of the mode keys never claim a mode that is off, and the MK2  *)
(* shows both modes at all times; on the MK1 setLeds clears the lamp of    *)
(* the flash key (toggleColumnOffset).                                     *)
ModeLampsTrue ==
  /\ offsetLamp = (columnOffset # 0)
  /\ flashLamp => flashMode
  /\ mk2 => flashLamp = flashMode

(* All of these: the surface shows what the hub and its own modes are, and *)
(* what is played on it ends with the hands that play it.                  *)
SurfaceInv == ApcTypeOK /\ NoGhostLamp /\ FlashIsHeld /\ ModeLampsTrue

=============================================================================
