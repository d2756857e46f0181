----------------------------- MODULE ControlHub -----------------------------
(***************************************************************************)
(* The control hub: the grid of columns and slots, the column and master   *)
(* dimmers, the parameter sets and the preview masks, together with what   *)
(* every subscribed controller (web page, MIDI surface, palette column)    *)
(* has been told about them.                                               *)
(*                                                                         *)
(* One action per public operation that changes state.  An operation runs  *)
(* to its end before the next one starts; HubThreads drops that            *)
(* assumption.  Set-up calls (expandTo, setFlash..., addParams,            *)
(* registerInput) come from main() before Hyperion::start().               *)
(* Slot, column and params names are display text and are left out.        *)
(***************************************************************************)
EXTENDS Integers, FiniteSets, Sequences

CONSTANTS
  MaxColumns,   (* bound on the number of columns                          *)
  MaxSlots,     (* bound on the number of slots of a column                *)
  MaxParams,    (* bound on the number of parameter sets                   *)
  MaxInputs,    (* bound on the number of ControlHubInputs                 *)
  Controllers,  (* objects that may subscribe to the hub                   *)
  SetFlags,     (* flags that callers pass to setSlotActive                *)
  Levels,       (* dimmer values in use                                    *)
  Fields,       (* the float members of Params that controllers can set    *)
  Values,       (* values of a parameter in use                            *)
  InitValue,    (* the value a new Params starts with                      *)
  Masks,        (* preview masks that controllers send                     *)
  Unknown       (* what a controller shows before it was told anything     *)

DEFAULT  == "DEFAULT"
FLASH    == "FLASH"
SEQUENCE == "SEQUENCE"
PREVIEW  == "PREVIEW"

Flags     == {DEFAULT, FLASH, SEQUENCE, PREVIEW}
FullLevel == 255
InitMask  == Flags \ {PREVIEW}

Columns    == 0 .. MaxColumns - 1
Slots      == 0 .. MaxSlots - 1
ParamSlots == 0 .. MaxParams - 1

Input == [preview : BOOLEAN, mask : SUBSET Flags]

ASSUME BoundsAssumption ==
  /\ MaxColumns \in Nat /\ MaxSlots \in Nat
  /\ MaxParams \in Nat \ {0} /\ MaxInputs \in Nat

ASSUME DataAssumption ==
  /\ FullLevel \in Levels /\ Levels \subseteq 0 .. FullLevel
  /\ InitValue \in Values
  /\ SetFlags \subseteq Flags
  /\ Masks \subseteq SUBSET Flags

ASSUME UnknownAssumption ==
  (\A fs \in SUBSET Flags : fs # Unknown) /\ Unknown \notin Levels /\ Unknown \notin Values

VARIABLES
  started,        (* Hyperion::start() has been called                     *)
  nColumns,       (* columns.size()                                        *)
  nSlots,         (* slots.size() of each column                           *)
  activated,      (* Slot::activated, as a set of flags                    *)
  flash,          (* Slot::flash                                           *)
  releaseColumn,  (* Slot::releaseColumn                                   *)
  forced,         (* Column::forcedSelection                               *)
  dim,            (* Column::dim                                           *)
  masterDim,
  nParams,        (* paramsSet.size()                                      *)
  params,         (* the Params objects in paramsSet                       *)
  inputs,         (* registered ControlHubInputs: isPreview, activatedMask *)
  subscribed,     (* the controllers vector                                *)
  seenSlot,       (* per controller: last onHubSlotActiveChange            *)
  seenDim,        (* per controller: last onHubColumnDimChange             *)
  seenMaster,     (* per controller: last onHubMasterDimChange             *)
  seenParam,      (* per controller: last onHub<Field>Change               *)
  seenMask        (* per controller: last OnUpdatePreviewActivatedMasks    *)

layout   == <<nColumns, nSlots, flash, releaseColumn, forced, nParams>>
state    == <<activated, dim, masterDim, params, inputs>>
seen     == <<seenSlot, seenDim, seenMaster, seenParam, seenMask>>
hubVars  == <<started, layout, state, subscribed, seen>>

TypeOK ==
  /\ started \in BOOLEAN
  /\ nColumns \in 0 .. MaxColumns
  /\ nSlots \in [Columns -> 0 .. MaxSlots]
  /\ activated \in [Columns -> [Slots -> SUBSET Flags]]
  /\ flash \in [Columns -> [Slots -> BOOLEAN]]
  /\ releaseColumn \in [Columns -> [Slots -> BOOLEAN]]
  /\ forced \in [Columns -> BOOLEAN]
  /\ dim \in [Columns -> Levels]
  /\ masterDim \in Levels
  /\ nParams \in 1 .. MaxParams
  /\ params \in [ParamSlots -> [Fields -> Values]]
  /\ inputs \in Seq(Input)
  /\ subscribed \subseteq Controllers
  /\ seenSlot \in [Controllers -> [Columns -> [Slots -> {Unknown} \cup SUBSET Flags]]]
  /\ seenDim \in [Controllers -> [Columns -> Levels \cup {Unknown}]]
  /\ seenMaster \in [Controllers -> Levels \cup {Unknown}]
  /\ seenParam \in [Controllers -> [ParamSlots -> [Fields -> Values \cup {Unknown}]]]
  /\ seenMask \in [Controllers -> {Unknown} \cup SUBSET Flags]

Init ==
  /\ started = FALSE
  /\ nColumns = 0
  /\ nSlots = [c \in Columns |-> 0]
  /\ activated = [c \in Columns |-> [s \in Slots |-> {}]]
  /\ flash = [c \in Columns |-> [s \in Slots |-> FALSE]]
  /\ releaseColumn = [c \in Columns |-> [s \in Slots |-> FALSE]]
  /\ forced = [c \in Columns |-> FALSE]
  /\ dim = [c \in Columns |-> FullLevel]
  /\ masterDim = FullLevel
  /\ nParams = 1
  /\ params = [p \in ParamSlots |-> [f \in Fields |-> InitValue]]
  /\ inputs = <<>>
  /\ subscribed = {}
  /\ seenSlot = [k \in Controllers |-> [c \in Columns |-> [s \in Slots |-> Unknown]]]
  /\ seenDim = [k \in Controllers |-> [c \in Columns |-> Unknown]]
  /\ seenMaster = [k \in Controllers |-> Unknown]
  /\ seenParam = [k \in Controllers |-> [p \in ParamSlots |-> [f \in Fields |-> Unknown]]]
  /\ seenMask = [k \in Controllers |-> Unknown]

-----------------------------------------------------------------------------
(* Helpers.                                                                *)

HasColumn(c) == c < nColumns
HasSlot(c, s) == HasColumn(c) /\ s < nSlots[c]
HasParams(p) == p < nParams

(* The slots of column c whose DEFAULT flag is on.                         *)
Selected(c) == {s \in Slots : DEFAULT \in activated[c][s]}

(* What the controllers show when each subscriber k is told new[k].         *)
Tell(old, new) ==
  [k \in Controllers |-> IF k \in subscribed THEN new[k] ELSE old[k]]

(* setSlotActive on any number of slots at once: the slots that change are *)
(* stored and announced, each with its new flags.                          *)
SetSlots(new) ==
  /\ activated' = new
  /\ seenSlot' = Tell(seenSlot, [k \in Controllers |-> [c \in Columns |-> [s \in Slots |->
                   IF new[c][s] # activated[c][s] THEN new[c][s] ELSE seenSlot[k][c][s]]]])

WithFlags(old, active, fs) == IF active THEN old \cup fs ELSE old \ fs

-----------------------------------------------------------------------------
(* Buttons.                                                                *)

(* The flags a press asks for: add FLASH, or toggle DEFAULT.               *)
PressedFlags(c, s) ==
  LET old == activated[c][s]
  IN  IF flash[c][s] THEN old \cup {FLASH}
      ELSE IF DEFAULT \in old THEN old \ {DEFAULT} ELSE old \cup {DEFAULT}

(* Wrong on purpose: protects any selection but the last.                  *)
RefusesTooLate(c, s) ==
  /\ DEFAULT \notin PressedFlags(c, s)
  /\ forced[c]
  /\ Cardinality(Selected(c)) > 1

(* The early return that protects a forced selection.                      *)
PressRefused(c, s) ==
  /\ DEFAULT \notin PressedFlags(c, s)
  /\ forced[c]
  /\ Cardinality(Selected(c)) = 1

(* Wrong on purpose: the release loop stops at the pressed slot.           *)
ReleasesBelow(c, s) ==
  [t \in Slots |->
     IF t = s THEN PressedFlags(c, s)
     ELSE IF releaseColumn[c][s] /\ t < s THEN activated[c][t] \ {DEFAULT}
     ELSE activated[c][t]]

(* The column after the release loop and the press itself.                 *)
PressedColumn(c, s) ==
  [t \in Slots |->
     IF t = s THEN PressedFlags(c, s)
     ELSE IF releaseColumn[c][s] THEN activated[c][t] \ {DEFAULT}
     ELSE activated[c][t]]

(* Wrong on purpose: a released slot is announced with its old flags.      *)
TellsOldFlags(k, c, s) ==
  [t \in Slots |->
     IF t = s THEN PressedFlags(c, s)
     ELSE IF releaseColumn[c][s] /\ t \in Selected(c) THEN activated[c][t]
     ELSE seenSlot[k][c][t]]

(* What a subscriber shows for the column after the press: a released slot *)
(* is announced as off, whatever other flags it keeps.                     *)
PressedSeen(k, c, s) ==
  [t \in Slots |->
     IF t = s THEN PressedFlags(c, s)
     ELSE IF releaseColumn[c][s] /\ t \in Selected(c) THEN {}
     ELSE seenSlot[k][c][t]]

ButtonPressed(c, s) ==
  /\ HasSlot(c, s)
  /\ PressedFlags(c, s) # activated[c][s]
  /\ ~PressRefused(c, s)
  /\ activated' = [activated EXCEPT ![c] = PressedColumn(c, s)]
  /\ seenSlot' = Tell(seenSlot, [k \in Controllers |->
                   [seenSlot[k] EXCEPT ![c] = PressedSeen(k, c, s)]])
  /\ UNCHANGED <<started, layout, dim, masterDim, params, inputs, subscribed,
                 seenDim, seenMaster, seenParam, seenMask>>

ButtonReleased(c, s) ==
  /\ HasSlot(c, s)
  /\ flash[c][s]
  /\ FLASH \in activated[c][s]
  /\ activated' = [activated EXCEPT ![c][s] = @ \ {FLASH}]
  /\ seenSlot' = Tell(seenSlot, [k \in Controllers |->
                   [seenSlot[k] EXCEPT ![c][s] = {}]])
  /\ UNCHANGED <<started, layout, dim, masterDim, params, inputs, subscribed,
                 seenDim, seenMaster, seenParam, seenMask>>

SetSlotActive(c, s, active, fs) ==
  /\ HasSlot(c, s)
  /\ WithFlags(activated[c][s], active, fs) # activated[c][s]
  /\ SetSlots([activated EXCEPT ![c][s] = WithFlags(@, active, fs)])
  /\ UNCHANGED <<started, layout, dim, masterDim, params, inputs, subscribed,
                 seenDim, seenMaster, seenParam, seenMask>>

-----------------------------------------------------------------------------
(* Dimmers, parameters and preview masks.                                  *)

(* Wrong on purpose: announces the value the dimmer had before.            *)
TellsOldDim(c, v) ==
  /\ HasColumn(c)
  /\ dim[c] # v
  /\ dim' = [dim EXCEPT ![c] = v]
  /\ seenDim' = Tell(seenDim, [k \in Controllers |-> [seenDim[k] EXCEPT ![c] = dim[c]]])
  /\ UNCHANGED <<started, layout, activated, masterDim, params, inputs, subscribed,
                 seenSlot, seenMaster, seenParam, seenMask>>

Dim(c, v) ==
  /\ HasColumn(c)
  /\ dim[c] # v
  /\ dim' = [dim EXCEPT ![c] = v]
  /\ seenDim' = Tell(seenDim, [k \in Controllers |-> [seenDim[k] EXCEPT ![c] = v]])
  /\ UNCHANGED <<started, layout, activated, masterDim, params, inputs, subscribed,
                 seenSlot, seenMaster, seenParam, seenMask>>

(* Wrong on purpose: the master dimmer is not announced.                   *)
SilentMasterDim(v) ==
  /\ masterDim # v
  /\ masterDim' = v
  /\ UNCHANGED <<started, layout, activated, dim, params, inputs, subscribed, seen>>

SetMasterDim(v) ==
  /\ masterDim # v
  /\ masterDim' = v
  /\ seenMaster' = Tell(seenMaster, [k \in Controllers |-> v])
  /\ UNCHANGED <<started, layout, activated, dim, params, inputs, subscribed,
                 seenSlot, seenDim, seenParam, seenMask>>

(* setVelocity, setAmount, setIntensity, setVariant, setSize, setOffset.   *)
SetParam(p, f, v) ==
  /\ HasParams(p)
  /\ params[p][f] # v
  /\ params' = [params EXCEPT ![p][f] = v]
  /\ seenParam' = Tell(seenParam, [k \in Controllers |->
                    [seenParam[k] EXCEPT ![p][f] = v]])
  /\ UNCHANGED <<started, layout, activated, dim, masterDim, inputs, subscribed,
                 seenSlot, seenDim, seenMaster, seenMask>>

UpdatePreviewActivatedMasks(m) ==
  /\ inputs' = [i \in DOMAIN inputs |->
                  IF inputs[i].preview THEN [preview |-> TRUE, mask |-> m] ELSE inputs[i]]
  /\ seenMask' = Tell(seenMask, [k \in Controllers |-> m])
  /\ UNCHANGED <<started, layout, activated, dim, masterDim, params, subscribed,
                 seenSlot, seenDim, seenMaster, seenParam>>

-----------------------------------------------------------------------------
(* Subscriptions.                                                          *)

Previews == {i \in DOMAIN inputs : inputs[i].preview}
IsFirstPreview(i) == i \in Previews /\ \A j \in Previews : i <= j

(* What controller k shows after sendCurrentStatus.                        *)
SendCurrentStatus(k) ==
  /\ seenSlot' = [seenSlot EXCEPT ![k] = [c \in Columns |-> [s \in Slots |->
                    IF HasSlot(c, s) THEN activated[c][s] ELSE @[c][s]]]]
  /\ seenDim' = [seenDim EXCEPT ![k] = [c \in Columns |->
                    IF HasColumn(c) THEN dim[c] ELSE @[c]]]
  /\ seenMaster' = [seenMaster EXCEPT ![k] = masterDim]
  /\ seenParam' = [seenParam EXCEPT ![k] = [p \in ParamSlots |->
                    IF HasParams(p) THEN params[p] ELSE @[p]]]
  /\ \/ Previews = {} /\ UNCHANGED seenMask
     \/ \E i \in Previews :
          IsFirstPreview(i) /\ seenMask' = [seenMask EXCEPT ![k] = inputs[i].mask]

Subscribe(k, sendStatus) ==
  /\ subscribed' = subscribed \cup {k}
  /\ IF sendStatus THEN SendCurrentStatus(k) ELSE UNCHANGED seen
  /\ UNCHANGED <<started, layout, state>>

(* A browser connects: the websocket controller asks for everything again. *)
Resend(k) ==
  /\ k \in subscribed
  /\ SendCurrentStatus(k)
  /\ UNCHANGED <<started, layout, state, subscribed>>

(* Controllers unsubscribe in their destructor: what they showed is gone.  *)
Unsubscribe(k) ==
  /\ k \in subscribed
  /\ subscribed' = subscribed \ {k}
  /\ seenSlot' = [seenSlot EXCEPT ![k] = [c \in Columns |-> [s \in Slots |-> Unknown]]]
  /\ seenDim' = [seenDim EXCEPT ![k] = [c \in Columns |-> Unknown]]
  /\ seenMaster' = [seenMaster EXCEPT ![k] = Unknown]
  /\ seenParam' = [seenParam EXCEPT ![k] = [p \in ParamSlots |-> [f \in Fields |-> Unknown]]]
  /\ seenMask' = [seenMask EXCEPT ![k] = Unknown]
  /\ UNCHANGED <<started, layout, state>>

-----------------------------------------------------------------------------
(* Set-up.                                                                 *)

Larger(a, b) == IF a < b THEN b ELSE a

ExpandTo(c, s, all) ==
  /\ ~started
  /\ nColumns' = Larger(nColumns, c + 1)
  /\ nSlots' = [d \in Columns |->
                  IF d = c \/ (all /\ d < nColumns') THEN Larger(nSlots[d], s + 1)
                  ELSE nSlots[d]]
  /\ UNCHANGED <<started, flash, releaseColumn, forced, nParams, state, subscribed, seen>>

(* setFlash, setFlashColumn and setFlashRow differ in the slots they cover.*)
SetFlash(where, f, r) ==
  /\ ~started
  /\ flash' = [c \in Columns |-> [s \in Slots |->
                 IF HasSlot(c, s) /\ <<c, s>> \in where THEN f ELSE flash[c][s]]]
  /\ releaseColumn' = [c \in Columns |-> [s \in Slots |->
                 IF HasSlot(c, s) /\ <<c, s>> \in where THEN r ELSE releaseColumn[c][s]]]
  /\ UNCHANGED <<started, nColumns, nSlots, forced, nParams, state, subscribed, seen>>

SetForcedSelection(c, force) ==
  /\ ~started
  /\ HasColumn(c)
  /\ forced' = [forced EXCEPT ![c] = force]
  /\ UNCHANGED <<started, nColumns, nSlots, flash, releaseColumn, nParams, state,
                 subscribed, seen>>

(* A new set holds whatever its owner put in it.                           *)
AddParams(values) ==
  /\ ~started
  /\ nParams < MaxParams
  /\ nParams' = nParams + 1
  /\ params' = [params EXCEPT ![nParams] = values]
  /\ UNCHANGED <<started, nColumns, nSlots, flash, releaseColumn, forced, activated, dim,
                 masterDim, inputs, subscribed, seen>>

RegisterInput(preview, mask) ==
  /\ ~started
  /\ Len(inputs) < MaxInputs
  /\ inputs' = Append(inputs, [preview |-> preview, mask |-> mask])
  /\ UNCHANGED <<started, layout, activated, dim, masterDim, params, subscribed, seen>>

Start ==
  /\ ~started
  /\ started' = TRUE
  /\ UNCHANGED <<layout, state, subscribed, seen>>

-----------------------------------------------------------------------------

Setup ==
  \/ \E c \in Columns, s \in Slots, all \in BOOLEAN : ExpandTo(c, s, all)
  \/ \E c \in Columns, s \in Slots, f, r \in BOOLEAN : SetFlash({<<c, s>>}, f, r)
  \/ \E c \in Columns, f, r \in BOOLEAN : SetFlash({c} \X Slots, f, r)
  \/ \E s \in Slots, f, r \in BOOLEAN : SetFlash(Columns \X {s}, f, r)
  \/ \E c \in Columns, force \in BOOLEAN : SetForcedSelection(c, force)
  \/ \E values \in [Fields -> Values] : AddParams(values)
  \/ \E preview \in BOOLEAN, mask \in Masks \cup {InitMask} : RegisterInput(preview, mask)
  \/ Start

Buttons ==
  \/ \E c \in Columns, s \in Slots : ButtonPressed(c, s)
  \/ \E c \in Columns, s \in Slots : ButtonReleased(c, s)

SlotControl ==
  \E c \in Columns, s \in Slots, active \in BOOLEAN, f \in SetFlags :
    SetSlotActive(c, s, active, {f})

Faders ==
  \/ \E c \in Columns, v \in Levels : Dim(c, v)
  \/ \E v \in Levels : SetMasterDim(v)
  \/ \E p \in ParamSlots, f \in Fields, v \in Values : SetParam(p, f, v)
  \/ \E m \in Masks : UpdatePreviewActivatedMasks(m)

Subscriptions ==
  \/ \E k \in Controllers, sendStatus \in BOOLEAN : Subscribe(k, sendStatus)
  \/ \E k \in Controllers : Resend(k)
  \/ \E k \in Controllers : Unsubscribe(k)

Next == Setup \/ Buttons \/ SlotControl \/ Faders \/ Subscriptions

Spec == Init /\ [][Next]_hubVars

-----------------------------------------------------------------------------
(* Properties.                                                             *)

(* A slot that a controller shows as lit is lit for exactly the reasons    *)
(* the hub holds: the callbacks announce either the new flags or "off", so *)
(* no order of presses, releases and resends leaves a ghost light on a     *)
(* surface (buttonPressed, buttonReleased, setSlotActive).                 *)
NoGhostLight ==
  \A k \in Controllers, c \in Columns, s \in Slots :
    seenSlot[k][c][s] \in {Unknown, {}, activated[c][s]}

(* The faders of a controller never show an old value: what it was told    *)
(* last about a dimmer or a parameter is what the hub holds.               *)
FadersMirrored ==
  \A k \in Controllers :
    /\ \A c \in Columns : seenDim[k][c] \in {Unknown, dim[c]}
    /\ seenMaster[k] \in {Unknown, masterDim}
    /\ \A p \in ParamSlots, f \in Fields : seenParam[k][p][f] \in {Unknown, params[p][f]}

(* A controller shows only what it was told while it was subscribed, and   *)
(* nothing about parameter sets that do not exist yet.                     *)
NothingUntold ==
  \A k \in Controllers :
    /\ k \notin subscribed =>
         /\ \A c \in Columns, s \in Slots : seenSlot[k][c][s] = Unknown
         /\ \A c \in Columns : seenDim[k][c] = Unknown
         /\ seenMaster[k] = Unknown
         /\ \A p \in ParamSlots, f \in Fields : seenParam[k][p][f] = Unknown
    /\ \A p \in ParamSlots, f \in Fields : ~HasParams(p) => seenParam[k][p][f] = Unknown

ToldEverything(k) ==
  /\ \A c \in Columns : HasColumn(c) => seenDim[k][c] = dim[c]
  /\ seenMaster[k] = masterDim
  /\ \A p \in ParamSlots : HasParams(p) => seenParam[k][p] = params[p]

MaskAgrees(k) ==
  \A i \in DOMAIN inputs : inputs[i].preview => inputs[i].mask = seenMask[k]

(* Once the layout is frozen, a controller that knows every dimmer and     *)
(* every parameter of the hub goes on knowing them, and one that shows the *)
(* mask the preview inputs render with goes on showing it: every change is *)
(* told (updatePreviewActivatedMasks, sendCurrentStatus).                  *)
StaysTold ==
  [][\A k \in subscribed : started /\ k \in subscribed' =>
       /\ ToldEverything(k) => ToldEverything(k)'
       /\ MaskAgrees(k) => MaskAgrees(k)']_hubVars

Radio(c) == \A s \in Slots : s < nSlots[c] => releaseColumn[c][s]

AtMostOne(c) == \A s, t \in Selected(c) : s = t

(* In a column where every button releases the column, a selection of at   *)
(* most one slot stays one, whatever is pressed, flashed or previewed (the *)
(* release loop of buttonPressed).  Holds as long as no caller sets        *)
(* DEFAULT directly.                                                       *)
RadioColumn ==
  [][started => \A c \in Columns : Radio(c) /\ AtMostOne(c) => AtMostOne(c)']_hubVars

(* A forced selection is not lost by buttons when no button of the column  *)
(* releases it, or when the column has a single selected slot.             *)
ForcedSelectionKept ==
  [][started =>
       \A c \in Columns :
         /\ forced[c] /\ Selected(c) # {}
         /\ \/ AtMostOne(c)
            \/ \A s \in Slots : ~releaseColumn[c][s]
         => Selected(c)' # {}]_hubVars

(* What the comment in buttonPressed promises ("ensure forced selection"): *)
(* a column with forced selection never loses its last selected slot to a  *)
(* button.                                                                 *)
ForcedSelection ==
  [][started => \A c \in Columns :
       forced[c] /\ Selected(c) # {} => Selected(c)' # {}]_hubVars

(* The readme's promise that a controller gives feedback of the current    *)
(* status: a subscriber that was told about a slot shows whether that slot *)
(* is active.                                                              *)
LampsAgree ==
  \A k \in subscribed, c \in Columns, s \in Slots :
    seenSlot[k][c][s] # Unknown => (seenSlot[k][c][s] = {} <=> activated[c][s] = {})

=============================================================================
