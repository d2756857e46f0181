-------------------------- MODULE ControlHubProofs --------------------------
(***************************************************************************)
(* Proofs about the control hub: it keeps its types, and what controllers  *)
(* show is never a ghost of an old state, for every number of columns,     *)
(* slots, parameter sets and controllers.                                  *)
(***************************************************************************)
EXTENDS ControlHub, FiniteSetTheorems, TLAPS

-----------------------------------------------------------------------------
(* Lemmas about the helpers.                                               *)

(* Telling controllers something of the right type keeps the type.         *)
LEMMA TellType ==
  ASSUME NEW S, NEW old \in [Controllers -> S], NEW new \in [Controllers -> S]
  PROVE  Tell(old, new) \in [Controllers -> S]
BY DEF Tell

(* A press asks for flags, in every column it touches.                     *)
LEMMA PressedType ==
  ASSUME activated \in [Columns -> [Slots -> SUBSET Flags]],
         NEW c \in Columns, NEW s \in Slots
  PROVE  /\ PressedFlags(c, s) \in SUBSET Flags
         /\ PressedColumn(c, s) \in [Slots -> SUBSET Flags]
<1>1. PressedFlags(c, s) \in SUBSET Flags
  BY DEF PressedFlags, Flags, DEFAULT, FLASH
<1>2. PressedColumn(c, s) \in [Slots -> SUBSET Flags]
  BY <1>1 DEF PressedColumn
<1>3. QED
  BY <1>1, <1>2

(* Setting slots to flags keeps the types of what it changes.              *)
LEMMA SetSlotsType ==
  ASSUME TypeOK, NEW new \in [Columns -> [Slots -> SUBSET Flags]], SetSlots(new)
  PROVE  /\ activated' \in [Columns -> [Slots -> SUBSET Flags]]
         /\ seenSlot' \in [Controllers -> [Columns -> [Slots -> {Unknown} \cup SUBSET Flags]]]
<1> DEFINE T == [Columns -> [Slots -> {Unknown} \cup SUBSET Flags]]
           told == [k \in Controllers |-> [c \in Columns |-> [s \in Slots |->
                     IF new[c][s] # activated[c][s] THEN new[c][s] ELSE seenSlot[k][c][s]]]]
<1>1. seenSlot \in [Controllers -> T]
  BY DEF TypeOK
<1>2. ASSUME NEW k \in Controllers, NEW c \in Columns, NEW s \in Slots
      PROVE  (IF new[c][s] # activated[c][s] THEN new[c][s] ELSE seenSlot[k][c][s])
               \in {Unknown} \cup SUBSET Flags
  <2>1. seenSlot[k][c][s] \in {Unknown} \cup SUBSET Flags
    BY <1>1
  <2>2. new[c][s] \in SUBSET Flags
    OBVIOUS
  <2>3. QED
    BY <2>1, <2>2
<1>3. told \in [Controllers -> T]
  BY <1>2
<1>4. Tell(seenSlot, told) \in [Controllers -> T]
  BY <1>1, <1>3, TellType
<1>5. QED
  BY <1>4 DEF SetSlots

-----------------------------------------------------------------------------
(* Every operation keeps the types.                                        *)

LEMMA ButtonPressedType ==
  ASSUME TypeOK, NEW c \in Columns, NEW s \in Slots, ButtonPressed(c, s)
  PROVE  TypeOK'
<1> DEFINE Col == [Slots -> {Unknown} \cup SUBSET Flags]
           told == [k \in Controllers |-> [seenSlot[k] EXCEPT ![c] = PressedSeen(k, c, s)]]
<1>1. activated \in [Columns -> [Slots -> SUBSET Flags]]
      /\ seenSlot \in [Controllers -> [Columns -> Col]]
  BY DEF TypeOK
<1>2. PressedFlags(c, s) \in SUBSET Flags /\ PressedColumn(c, s) \in [Slots -> SUBSET Flags]
  BY <1>1, PressedType
<1>3. activated' \in [Columns -> [Slots -> SUBSET Flags]]
  BY <1>1, <1>2 DEF ButtonPressed
<1>4. \A k \in Controllers : PressedSeen(k, c, s) \in Col
  BY <1>1, <1>2 DEF PressedSeen
<1>5. told \in [Controllers -> [Columns -> Col]]
  BY <1>1, <1>4
<1>6. seenSlot' \in [Controllers -> [Columns -> Col]]
  BY <1>1, <1>5, TellType DEF ButtonPressed
<1>7. QED
  BY <1>3, <1>6 DEF TypeOK, ButtonPressed, layout

LEMMA ButtonReleasedType ==
  ASSUME TypeOK, NEW c \in Columns, NEW s \in Slots, ButtonReleased(c, s)
  PROVE  TypeOK'
<1> DEFINE Col == [Slots -> {Unknown} \cup SUBSET Flags]
           told == [k \in Controllers |->
                      [seenSlot[k] EXCEPT ![c][s] = {}]]
<1>1. activated \in [Columns -> [Slots -> SUBSET Flags]]
      /\ seenSlot \in [Controllers -> [Columns -> Col]]
  BY DEF TypeOK
<1>2. activated' \in [Columns -> [Slots -> SUBSET Flags]]
  BY <1>1 DEF ButtonReleased
<1>3. \A k \in Controllers : [seenSlot[k][c] EXCEPT ![s] = {}] \in Col
  BY <1>1
<1>4. told \in [Controllers -> [Columns -> Col]]
  BY <1>1, <1>3
<1>5. seenSlot' \in [Controllers -> [Columns -> Col]]
  BY <1>1, <1>4, TellType DEF ButtonReleased
<1>6. QED
  BY <1>2, <1>5 DEF TypeOK, ButtonReleased, layout

LEMMA SetSlotActiveType ==
  ASSUME TypeOK, NEW c \in Columns, NEW s \in Slots, NEW active \in BOOLEAN,
         NEW f \in SetFlags, SetSlotActive(c, s, active, {f})
  PROVE  TypeOK'
<1>1. activated \in [Columns -> [Slots -> SUBSET Flags]]
  BY DEF TypeOK
<1>2. WithFlags(activated[c][s], active, {f}) \in SUBSET Flags
  BY <1>1, DataAssumption DEF WithFlags
<1>3. [activated EXCEPT ![c][s] = WithFlags(@, active, {f})]
        \in [Columns -> [Slots -> SUBSET Flags]]
  BY <1>1, <1>2
<1>4. QED
  BY <1>3, SetSlotsType DEF TypeOK, SetSlotActive, layout

LEMMA DimType ==
  ASSUME TypeOK, NEW c \in Columns, NEW v \in Levels, Dim(c, v)
  PROVE  TypeOK'
<1> DEFINE T == [Columns -> Levels \cup {Unknown}]
           told == [k \in Controllers |-> [seenDim[k] EXCEPT ![c] = v]]
<1>1. told \in [Controllers -> T] /\ seenDim \in [Controllers -> T]
  BY DEF TypeOK
<1>2. seenDim' \in [Controllers -> T]
  BY <1>1, TellType DEF Dim
<1>3. QED
  BY <1>2 DEF TypeOK, Dim, layout

LEMMA SetMasterDimType ==
  ASSUME TypeOK, NEW v \in Levels, SetMasterDim(v)
  PROVE  TypeOK'
<1> DEFINE T == Levels \cup {Unknown}
           told == [k \in Controllers |-> v]
<1>1. told \in [Controllers -> T] /\ seenMaster \in [Controllers -> T]
  BY DEF TypeOK
<1>2. seenMaster' \in [Controllers -> T]
  BY <1>1, TellType DEF SetMasterDim
<1>3. QED
  BY <1>2 DEF TypeOK, SetMasterDim, layout

LEMMA SetParamType ==
  ASSUME TypeOK, NEW p \in ParamSlots, NEW f \in Fields, NEW v \in Values, SetParam(p, f, v)
  PROVE  TypeOK'
<1> DEFINE P == [Fields -> Values \cup {Unknown}]
           told == [k \in Controllers |->
                      [seenParam[k] EXCEPT ![p][f] = v]]
<1>1. seenParam \in [Controllers -> [ParamSlots -> P]]
      /\ params \in [ParamSlots -> [Fields -> Values]]
  BY DEF TypeOK
<1>2. \A k \in Controllers : [seenParam[k][p] EXCEPT ![f] = v] \in P
  BY <1>1
<1>3. told \in [Controllers -> [ParamSlots -> P]]
  BY <1>1, <1>2
<1>4. seenParam' \in [Controllers -> [ParamSlots -> P]]
  BY <1>1, <1>3, TellType DEF SetParam
<1>5. params' \in [ParamSlots -> [Fields -> Values]]
  BY <1>1 DEF SetParam
<1>6. QED
  BY <1>4, <1>5 DEF TypeOK, SetParam, layout

LEMMA MasksType ==
  ASSUME TypeOK, NEW m \in Masks, UpdatePreviewActivatedMasks(m)
  PROVE  TypeOK'
<1> DEFINE T == {Unknown} \cup SUBSET Flags
           told == [k \in Controllers |-> m]
<1>1. m \in SUBSET Flags
  BY DataAssumption
<1>2. told \in [Controllers -> T] /\ seenMask \in [Controllers -> T]
  BY <1>1 DEF TypeOK
<1>3. seenMask' \in [Controllers -> T]
  BY <1>2, TellType DEF UpdatePreviewActivatedMasks
<1>4. inputs' \in Seq(Input)
  <2>1. inputs \in Seq(Input)
    BY DEF TypeOK
  <2>2. PICK n \in Nat : inputs \in [1 .. n -> Input]
    BY <2>1
  <2>3. DOMAIN inputs = 1 .. n
    BY <2>2
  <2>4. \A i \in 1 .. n : (IF inputs[i].preview THEN [preview |-> TRUE, mask |-> m]
                           ELSE inputs[i]) \in Input
    BY <1>1, <2>2 DEF Input
  <2>5. inputs' \in [1 .. n -> Input]
    BY <2>3, <2>4 DEF UpdatePreviewActivatedMasks
  <2>6. QED
    BY <2>5
<1>5. QED
  BY <1>3, <1>4 DEF TypeOK, UpdatePreviewActivatedMasks, layout

(* The current status has the types of what a controller shows.            *)
LEMMA SendCurrentStatusType ==
  ASSUME TypeOK, NEW k \in Controllers, SendCurrentStatus(k)
  PROVE  /\ seenSlot' \in [Controllers -> [Columns -> [Slots -> {Unknown} \cup SUBSET Flags]]]
         /\ seenDim' \in [Controllers -> [Columns -> Levels \cup {Unknown}]]
         /\ seenMaster' \in [Controllers -> Levels \cup {Unknown}]
         /\ seenParam' \in [Controllers -> [ParamSlots -> [Fields -> Values \cup {Unknown}]]]
         /\ seenMask' \in [Controllers -> {Unknown} \cup SUBSET Flags]
<1>1. seenSlot' \in [Controllers -> [Columns -> [Slots -> {Unknown} \cup SUBSET Flags]]]
  <2> DEFINE status == [c \in Columns |-> [s \in Slots |->
                          IF HasSlot(c, s) THEN activated[c][s] ELSE seenSlot[k][c][s]]]
  <2>1. \A c \in Columns, s \in Slots :
          (IF HasSlot(c, s) THEN activated[c][s] ELSE seenSlot[k][c][s])
            \in {Unknown} \cup SUBSET Flags
    BY DEF TypeOK
  <2>2. status \in [Columns -> [Slots -> {Unknown} \cup SUBSET Flags]]
    BY <2>1
  <2>3. seenSlot' = [seenSlot EXCEPT ![k] = status]
    BY DEF SendCurrentStatus
  <2>4. QED
    BY <2>2, <2>3 DEF TypeOK
<1>2. seenDim' \in [Controllers -> [Columns -> Levels \cup {Unknown}]]
  BY DEF TypeOK, SendCurrentStatus
<1>3. seenMaster' \in [Controllers -> Levels \cup {Unknown}]
  BY DEF TypeOK, SendCurrentStatus
<1>4. seenParam' \in [Controllers -> [ParamSlots -> [Fields -> Values \cup {Unknown}]]]
  <2> DEFINE status == [p \in ParamSlots |->
                          IF HasParams(p) THEN params[p] ELSE seenParam[k][p]]
  <2>1. \A p \in ParamSlots : /\ params[p] \in [Fields -> Values \cup {Unknown}]
                              /\ seenParam[k][p] \in [Fields -> Values \cup {Unknown}]
    BY DEF TypeOK
  <2>2. status \in [ParamSlots -> [Fields -> Values \cup {Unknown}]]
    BY <2>1
  <2>3. seenParam' = [seenParam EXCEPT ![k] = status]
    BY DEF SendCurrentStatus
  <2>4. QED
    BY <2>2, <2>3 DEF TypeOK
<1>5. seenMask' \in [Controllers -> {Unknown} \cup SUBSET Flags]
  <2>1. CASE UNCHANGED seenMask
    BY <2>1 DEF TypeOK
  <2>2. ASSUME NEW i \in Previews, seenMask' = [seenMask EXCEPT ![k] = inputs[i].mask]
        PROVE  seenMask' \in [Controllers -> {Unknown} \cup SUBSET Flags]
    <3>1. inputs[i].mask \in SUBSET Flags
      <4>1. PICK n \in Nat : inputs \in [1 .. n -> Input]
        BY DEF TypeOK
      <4>2. inputs[i] \in Input
        BY <4>1 DEF Previews
      <4>3. QED
        BY <4>2 DEF Input
    <3>2. QED
      BY <2>2, <3>1 DEF TypeOK
  <2>3. QED
    BY <2>1, <2>2 DEF SendCurrentStatus
<1>6. QED
  BY <1>1, <1>2, <1>3, <1>4, <1>5

LEMMA SubscriptionsType ==
  ASSUME TypeOK, Subscriptions
  PROVE  TypeOK'
<1>1. ASSUME NEW k \in Controllers, NEW sendStatus \in BOOLEAN, Subscribe(k, sendStatus)
      PROVE  TypeOK'
  <2>1. CASE sendStatus
    <3>1. SendCurrentStatus(k)
      BY <1>1, <2>1 DEF Subscribe
    <3>2. QED
      BY <1>1, <3>1, SendCurrentStatusType DEF TypeOK, Subscribe, layout, state
  <2>2. CASE ~sendStatus
    BY <1>1, <2>2 DEF TypeOK, Subscribe, layout, state, seen
  <2>3. QED
    BY <2>1, <2>2
<1>2. ASSUME NEW k \in Controllers, Resend(k)
      PROVE  TypeOK'
  <2>1. SendCurrentStatus(k)
    BY <1>2 DEF Resend
  <2>2. QED
    BY <1>2, <2>1, SendCurrentStatusType DEF TypeOK, Resend, layout, state
<1>3. ASSUME NEW k \in Controllers, Unsubscribe(k)
      PROVE  TypeOK'
  BY <1>3 DEF TypeOK, Unsubscribe, layout, state
<1>4. QED
  BY <1>1, <1>2, <1>3 DEF Subscriptions

LEMMA SetupType ==
  ASSUME TypeOK, Setup
  PROVE  TypeOK'
<1>1. ASSUME NEW c \in Columns, NEW s \in Slots, NEW all \in BOOLEAN, ExpandTo(c, s, all)
      PROVE  TypeOK'
  <2>1. nColumns' \in 0 .. MaxColumns
    BY <1>1, BoundsAssumption DEF TypeOK, ExpandTo, Larger, Columns
  <2>2. nSlots' \in [Columns -> 0 .. MaxSlots]
    <3>1. \A d \in Columns : Larger(nSlots[d], s + 1) \in 0 .. MaxSlots
      BY BoundsAssumption DEF TypeOK, Larger, Slots
    <3>2. QED
      BY <1>1, <3>1 DEF TypeOK, ExpandTo
  <2>3. QED
    BY <1>1, <2>1, <2>2 DEF TypeOK, ExpandTo, state, seen
<1>2. ASSUME NEW where, NEW f \in BOOLEAN, NEW r \in BOOLEAN, SetFlash(where, f, r)
      PROVE  TypeOK'
  <2>1. flash' \in [Columns -> [Slots -> BOOLEAN]]
    BY <1>2 DEF TypeOK, SetFlash
  <2>2. releaseColumn' \in [Columns -> [Slots -> BOOLEAN]]
    BY <1>2 DEF TypeOK, SetFlash
  <2>3. QED
    BY <1>2, <2>1, <2>2 DEF TypeOK, SetFlash, state, seen
<1>3. ASSUME NEW c \in Columns, NEW force \in BOOLEAN, SetForcedSelection(c, force)
      PROVE  TypeOK'
  BY <1>3 DEF TypeOK, SetForcedSelection, state, seen
<1>4. ASSUME NEW values \in [Fields -> Values], AddParams(values)
      PROVE  TypeOK'
  <2>1. nParams' \in 1 .. MaxParams
    BY <1>4, BoundsAssumption DEF TypeOK, AddParams
  <2>2. params' \in [ParamSlots -> [Fields -> Values]]
    BY <1>4 DEF TypeOK, AddParams
  <2>3. QED
    BY <1>4, <2>1, <2>2 DEF TypeOK, AddParams, seen
<1>5. ASSUME NEW preview \in BOOLEAN, NEW mask \in Masks \cup {InitMask},
             RegisterInput(preview, mask)
      PROVE  TypeOK'
  <2>1. [preview |-> preview, mask |-> mask] \in Input
    BY DataAssumption DEF Input, InitMask
  <2>2. inputs' \in Seq(Input)
    BY <1>5, <2>1 DEF TypeOK, RegisterInput
  <2>3. QED
    BY <1>5, <2>2 DEF TypeOK, RegisterInput, layout, seen
<1>6. ASSUME Start
      PROVE  TypeOK'
  BY <1>6 DEF TypeOK, Start, layout, state, seen
<1>7. QED
  BY <1>1, <1>2, <1>3, <1>4, <1>5, <1>6 DEF Setup

LEMMA InitType == Init => TypeOK
<1> SUFFICES ASSUME Init PROVE TypeOK
  OBVIOUS
<1>1. nColumns \in 0 .. MaxColumns /\ nSlots \in [Columns -> 0 .. MaxSlots]
  BY BoundsAssumption DEF Init
<1>2. /\ dim \in [Columns -> Levels] /\ masterDim \in Levels
      /\ params \in [ParamSlots -> [Fields -> Values]] /\ nParams \in 1 .. MaxParams
  BY BoundsAssumption, DataAssumption DEF Init
<1>3. inputs \in Seq(Input)
  BY DEF Init
<1>4. QED
  BY <1>1, <1>2, <1>3 DEF Init, TypeOK

LEMMA NextType == TypeOK /\ [Next]_hubVars => TypeOK'
<1> SUFFICES ASSUME TypeOK, [Next]_hubVars
             PROVE  TypeOK'
  OBVIOUS
<1>1. CASE Setup
  BY <1>1, SetupType
<1>2. CASE Buttons
  BY <1>2, ButtonPressedType, ButtonReleasedType DEF Buttons
<1>3. CASE SlotControl
  BY <1>3, SetSlotActiveType DEF SlotControl
<1>4. CASE Faders
  BY <1>4, DimType, SetMasterDimType, SetParamType, MasksType DEF Faders
<1>5. CASE Subscriptions
  BY <1>5, SubscriptionsType
<1>6. CASE UNCHANGED hubVars
  BY <1>6 DEF TypeOK, hubVars, layout, state, seen
<1>7. QED
  BY <1>1, <1>2, <1>3, <1>4, <1>5, <1>6 DEF Next

(* The hub and everything a controller shows keep their types, whatever    *)
(* operations the controllers call in whatever order.                      *)
THEOREM HubTypeCorrect == Spec => []TypeOK
<1>1. QED
  BY InitType, NextType, PTL DEF Spec

-----------------------------------------------------------------------------
(* Ghost lights.  A stranger, who is not subscribed, misses every change,  *)
(* so that it shows nothing is part of the induction.                      *)

LEMMA StrangersStep ==
  ASSUME TypeOK, NothingUntold, [Next]_hubVars
  PROVE  NothingUntold'
<1> USE DEF NothingUntold, Tell
<1>1. CASE Setup
  <2>1. ASSUME NEW values \in [Fields -> Values], AddParams(values)
        PROVE  NothingUntold'
    <3>1. \A p \in ParamSlots : ~HasParams(p)' => ~HasParams(p)
      BY <2>1 DEF TypeOK, AddParams, HasParams, ParamSlots
    <3>2. QED
      BY <2>1, <3>1 DEF AddParams, seen
  <2>2. ASSUME UNCHANGED <<subscribed, seen, nParams>>
        PROVE  NothingUntold'
    BY <2>2 DEF seen, HasParams
  <2>3. QED
    BY <1>1, <2>1, <2>2
    DEF Setup, ExpandTo, SetFlash, SetForcedSelection, RegisterInput, Start, layout
<1>2. CASE Buttons
  BY <1>2 DEF TypeOK, Buttons, ButtonPressed, ButtonReleased, HasParams, layout
<1>3. CASE SlotControl
  BY <1>3 DEF TypeOK, SlotControl, SetSlotActive, SetSlots, HasParams, layout
<1>4. CASE Faders
  <2>1. ASSUME NEW c \in Columns, NEW v \in Levels, Dim(c, v)
        PROVE  NothingUntold'
    BY <2>1 DEF TypeOK, Dim, HasParams, layout
  <2>2. ASSUME NEW v \in Levels, SetMasterDim(v)
        PROVE  NothingUntold'
    BY <2>2 DEF TypeOK, SetMasterDim, HasParams, layout
  <2>3. ASSUME NEW p \in ParamSlots, NEW f \in Fields, NEW v \in Values, SetParam(p, f, v)
        PROVE  NothingUntold'
    <3>1. UNCHANGED <<subscribed, seenSlot, seenDim, seenMaster, nParams>>
      BY <2>3 DEF SetParam, layout
    <3>2. \A k \in Controllers : k \notin subscribed => seenParam'[k] = seenParam[k]
      BY <2>3 DEF TypeOK, SetParam
    <3>3. \A k \in Controllers, q \in ParamSlots, g \in Fields :
            ~HasParams(q) => seenParam'[k][q][g] = seenParam[k][q][g]
      BY <2>3 DEF TypeOK, SetParam
    <3>4. QED
      BY <3>1, <3>2, <3>3 DEF HasParams
  <2>4. ASSUME NEW m \in Masks, UpdatePreviewActivatedMasks(m)
        PROVE  NothingUntold'
    BY <2>4 DEF UpdatePreviewActivatedMasks, HasParams, layout
  <2>5. QED
    BY <1>4, <2>1, <2>2, <2>3, <2>4 DEF Faders
<1>5. CASE Subscriptions
  <2>1. ASSUME NEW k \in Controllers, SendCurrentStatus(k), k \in subscribed',
               subscribed \subseteq subscribed', UNCHANGED nParams
        PROVE  NothingUntold'
    <3>1. ASSUME NEW j \in Controllers, j # k
          PROVE  /\ seenSlot'[j] = seenSlot[j] /\ seenDim'[j] = seenDim[j]
                 /\ seenMaster'[j] = seenMaster[j] /\ seenParam'[j] = seenParam[j]
      BY <2>1, <3>1 DEF TypeOK, SendCurrentStatus
    <3>2. \A p \in ParamSlots, f \in Fields :
            ~HasParams(p) => seenParam'[k][p][f] = seenParam[k][p][f]
      BY <2>1 DEF TypeOK, SendCurrentStatus
    <3>3. QED
      BY <2>1, <3>1, <3>2 DEF HasParams
  <2>2. ASSUME NEW k \in Controllers, NEW sendStatus \in BOOLEAN, Subscribe(k, sendStatus)
        PROVE  NothingUntold'
    BY <2>1, <2>2 DEF Subscribe, layout, seen, HasParams
  <2>3. ASSUME NEW k \in Controllers, Resend(k)
        PROVE  NothingUntold'
    BY <2>1, <2>3 DEF Resend, layout
  <2>4. ASSUME NEW k \in Controllers, Unsubscribe(k)
        PROVE  NothingUntold'
    BY <2>4 DEF TypeOK, Unsubscribe, HasParams, layout
  <2>5. QED
    BY <1>5, <2>2, <2>3, <2>4 DEF Subscriptions
<1>6. CASE UNCHANGED hubVars
  BY <1>6 DEF hubVars, layout, seen, HasParams
<1>7. QED
  BY <1>1, <1>2, <1>3, <1>4, <1>5, <1>6 DEF Next

LEMMA GhostLightStep ==
  ASSUME TypeOK, NothingUntold, NoGhostLight, [Next]_hubVars
  PROVE  NoGhostLight'
<1> USE DEF NoGhostLight
<1>1. ASSUME UNCHANGED <<activated, seenSlot>>
      PROVE  NoGhostLight'
  BY <1>1
<1>2. ASSUME NEW c \in Columns, NEW s \in Slots, ButtonPressed(c, s)
      PROVE  NoGhostLight'
  <2> SUFFICES ASSUME NEW k \in Controllers, NEW d \in Columns, NEW t \in Slots
               PROVE  seenSlot'[k][d][t] \in {Unknown, {}, activated'[d][t]}
    OBVIOUS
  <2>1. CASE k \notin subscribed
    <3>1. seenSlot'[k] = seenSlot[k]
      BY <1>2, <2>1 DEF ButtonPressed, Tell
    <3>2. QED
      BY <2>1, <3>1 DEF NothingUntold
  <2>2. CASE k \in subscribed /\ d # c
    <3>1. seenSlot'[k][d] = seenSlot[k][d] /\ activated'[d] = activated[d]
      BY <1>2, <2>2 DEF TypeOK, ButtonPressed, Tell
    <3>2. QED
      BY <3>1
  <2>3. CASE k \in subscribed /\ d = c
    <3>1. seenSlot'[k][c] = PressedSeen(k, c, s) /\ activated'[c] = PressedColumn(c, s)
      BY <1>2, <2>3 DEF TypeOK, ButtonPressed, Tell
    <3>2. CASE t = s
      BY <2>3, <3>1, <3>2 DEF PressedSeen, PressedColumn
    <3>3. CASE t # s /\ releaseColumn[c][s] /\ t \in Selected(c)
      BY <2>3, <3>1, <3>3 DEF PressedSeen
    <3>4. CASE t # s /\ ~(releaseColumn[c][s] /\ t \in Selected(c))
      <4>1. activated'[c][t] = activated[c][t]
        <5>1. CASE ~releaseColumn[c][s]
          BY <3>1, <3>4, <5>1 DEF PressedColumn
        <5>2. CASE releaseColumn[c][s]
          <6>1. DEFAULT \notin activated[c][t]
            BY <3>4, <5>2 DEF Selected
          <6>2. activated[c][t] \ {DEFAULT} = activated[c][t]
            BY <6>1
          <6>3. QED
            BY <3>1, <3>4, <5>2, <6>2 DEF PressedColumn
        <5>3. QED
          BY <5>1, <5>2
      <4>2. seenSlot'[k][c][t] = seenSlot[k][c][t]
        BY <3>1, <3>4 DEF PressedSeen
      <4>3. QED
        BY <2>3, <4>1, <4>2
    <3>5. QED
      BY <3>2, <3>3, <3>4
  <2>4. QED
    BY <2>1, <2>2, <2>3
<1>3. ASSUME NEW c \in Columns, NEW s \in Slots, ButtonReleased(c, s)
      PROVE  NoGhostLight'
  <2> SUFFICES ASSUME NEW k \in Controllers, NEW d \in Columns, NEW t \in Slots
               PROVE  seenSlot'[k][d][t] \in {Unknown, {}, activated'[d][t]}
    OBVIOUS
  <2>1. CASE k \notin subscribed
    <3>1. seenSlot'[k] = seenSlot[k]
      BY <1>3, <2>1 DEF ButtonReleased, Tell
    <3>2. QED
      BY <2>1, <3>1 DEF NothingUntold
  <2>2. CASE k \in subscribed /\ <<d, t>> = <<c, s>>
    <3>1. seenSlot'[k][c][s] = {}
      BY <1>3, <2>2 DEF TypeOK, ButtonReleased, Tell
    <3>2. QED
      BY <2>2, <3>1
  <2>3. CASE k \in subscribed /\ <<d, t>> # <<c, s>>
    <3>1. seenSlot'[k][d][t] = seenSlot[k][d][t] /\ activated'[d][t] = activated[d][t]
      BY <1>3, <2>3 DEF TypeOK, ButtonReleased, Tell
    <3>2. QED
      BY <3>1
  <2>4. QED
    BY <2>1, <2>2, <2>3
<1>4. ASSUME NEW c \in Columns, NEW s \in Slots, NEW active \in BOOLEAN, NEW f \in SetFlags,
             SetSlotActive(c, s, active, {f})
      PROVE  NoGhostLight'
  <2> DEFINE new == [activated EXCEPT ![c][s] = WithFlags(@, active, {f})]
  <2>1. SetSlots(new)
    BY <1>4 DEF SetSlotActive
  <2> SUFFICES ASSUME NEW k \in Controllers, NEW d \in Columns, NEW t \in Slots
               PROVE  seenSlot'[k][d][t] \in {Unknown, {}, activated'[d][t]}
    OBVIOUS
  <2> HIDE DEF new
  <2>2. CASE k \notin subscribed
    <3>1. seenSlot'[k] = seenSlot[k]
      BY <2>1, <2>2 DEF SetSlots, Tell
    <3>2. QED
      BY <2>2, <3>1 DEF NothingUntold
  <2>3. CASE k \in subscribed
    <3>1. seenSlot'[k][d][t] = IF new[d][t] # activated[d][t] THEN new[d][t]
                               ELSE seenSlot[k][d][t]
      BY <2>1, <2>3 DEF SetSlots, Tell
    <3>2. activated' = new
      BY <2>1 DEF SetSlots
    <3>3. QED
      BY <3>1, <3>2
  <2>4. QED
    BY <2>2, <2>3
<1>5. ASSUME NEW k \in Controllers, SendCurrentStatus(k), UNCHANGED activated
      PROVE  NoGhostLight'
  <2>1. seenSlot' = [seenSlot EXCEPT ![k] = [c \in Columns |-> [s \in Slots |->
                       IF HasSlot(c, s) THEN activated[c][s] ELSE seenSlot[k][c][s]]]]
    BY <1>5 DEF SendCurrentStatus
  <2> SUFFICES ASSUME NEW j \in Controllers, NEW c \in Columns, NEW s \in Slots
               PROVE  seenSlot'[j][c][s] \in {Unknown, {}, activated[c][s]}
    BY <1>5
  <2>2. seenSlot'[j][c][s] \in {activated[c][s], seenSlot[j][c][s]}
    BY <2>1 DEF TypeOK
  <2>3. QED
    BY <2>2
<1>6. ASSUME NEW k \in Controllers, Unsubscribe(k)
      PROVE  NoGhostLight'
  BY <1>6 DEF TypeOK, Unsubscribe, state
<1>7. CASE Setup
  BY <1>1, <1>7
  DEF Setup, ExpandTo, SetFlash, SetForcedSelection, AddParams, RegisterInput, Start, state, seen
<1>8. CASE Buttons \/ SlotControl
  <2> HIDE DEF NoGhostLight
  <2>1. CASE Buttons
    BY <1>2, <1>3, <2>1 DEF Buttons
  <2>2. CASE SlotControl
    BY <1>4, <2>2 DEF SlotControl
  <2>3. QED
    BY <1>8, <2>1, <2>2
<1>9. CASE Faders
  BY <1>1, <1>9 DEF Faders, Dim, SetMasterDim, SetParam, UpdatePreviewActivatedMasks
<1>10. CASE Subscriptions
  BY <1>1, <1>5, <1>6, <1>10 DEF Subscriptions, Subscribe, Resend, state, seen
<1>11. CASE UNCHANGED hubVars
  BY <1>1, <1>11 DEF hubVars, state, seen
<1>12. QED
  BY <1>7, <1>8, <1>9, <1>10, <1>11 DEF Next

(* Nobody is told anything at first.                                       *)
LEMMA InitUntold == Init => NothingUntold /\ NoGhostLight /\ FadersMirrored
BY DEF Init, NothingUntold, NoGhostLight, FadersMirrored

(* The lamps of a controller never show a reason for a light that the hub  *)
(* does not hold, and nobody shows what he was not told, for every number  *)
(* of slots and controllers and all the orders of presses, releases, steps *)
(* and subscriptions.                                                      *)
THEOREM LampsHaveNoGhosts == Spec => [](NothingUntold /\ NoGhostLight)
<1> DEFINE IInv == TypeOK /\ NothingUntold /\ NoGhostLight
<1>1. Init => IInv
  BY InitType, InitUntold
<1>2. IInv /\ [Next]_hubVars => IInv'
  BY NextType, StrangersStep, GhostLightStep
<1>3. QED
  BY <1>1, <1>2, PTL DEF Spec

-----------------------------------------------------------------------------
(* The faders.                                                             *)

LEMMA FadersStep ==
  ASSUME TypeOK, NothingUntold, FadersMirrored, [Next]_hubVars
  PROVE  FadersMirrored'
<1> USE DEF FadersMirrored
<1>1. ASSUME UNCHANGED <<dim, masterDim, params, seenDim, seenMaster, seenParam>>
      PROVE  FadersMirrored'
  BY <1>1
<1>2. ASSUME NEW c \in Columns, NEW v \in Levels, Dim(c, v)
      PROVE  FadersMirrored'
  <2>1. UNCHANGED <<masterDim, params, seenMaster, seenParam>>
    BY <1>2 DEF Dim
  <2>2. ASSUME NEW k \in Controllers, NEW d \in Columns
        PROVE  seenDim'[k][d] \in {Unknown, dim'[d]}
    <3>1. CASE k \notin subscribed
      <4>1. seenDim'[k] = seenDim[k]
        BY <1>2, <3>1 DEF Dim, Tell
      <4>2. QED
        BY <3>1, <4>1 DEF NothingUntold
    <3>2. CASE k \in subscribed
      BY <1>2, <3>2 DEF TypeOK, Dim, Tell
    <3>3. QED
      BY <3>1, <3>2
  <2>3. QED
    BY <2>1, <2>2
<1>3. ASSUME NEW v \in Levels, SetMasterDim(v)
      PROVE  FadersMirrored'
  <2>1. UNCHANGED <<dim, params, seenDim, seenParam>>
    BY <1>3 DEF SetMasterDim
  <2>2. \A k \in Controllers : seenMaster'[k] \in {Unknown, masterDim'}
    BY <1>3 DEF TypeOK, SetMasterDim, Tell, NothingUntold
  <2>3. QED
    BY <2>1, <2>2
<1>4. ASSUME NEW p \in ParamSlots, NEW f \in Fields, NEW v \in Values, SetParam(p, f, v)
      PROVE  FadersMirrored'
  <2>1. UNCHANGED <<dim, masterDim, seenDim, seenMaster>>
    BY <1>4 DEF SetParam
  <2>2. ASSUME NEW k \in Controllers, NEW q \in ParamSlots, NEW g \in Fields
        PROVE  seenParam'[k][q][g] \in {Unknown, params'[q][g]}
    <3>1. CASE k \notin subscribed
      <4>1. seenParam'[k] = seenParam[k]
        BY <1>4, <3>1 DEF SetParam, Tell
      <4>2. QED
        BY <3>1, <4>1 DEF NothingUntold
    <3>2. CASE k \in subscribed /\ <<q, g>> = <<p, f>>
      BY <1>4, <3>2 DEF TypeOK, SetParam, Tell
    <3>3. CASE k \in subscribed /\ <<q, g>> # <<p, f>>
      <4>1. seenParam'[k][q][g] = seenParam[k][q][g] /\ params'[q][g] = params[q][g]
        BY <1>4, <3>3 DEF TypeOK, SetParam, Tell
      <4>2. QED
        BY <4>1
    <3>4. QED
      BY <3>1, <3>2, <3>3
  <2>3. QED
    BY <2>1, <2>2
<1>5. ASSUME NEW values \in [Fields -> Values], AddParams(values)
      PROVE  FadersMirrored'
  <2>1. UNCHANGED <<dim, masterDim, seenDim, seenMaster, seenParam>>
    BY <1>5 DEF AddParams, seen
  <2>2. \A q \in ParamSlots : q # nParams => params'[q] = params[q]
    BY <1>5 DEF TypeOK, AddParams
  <2>3. \A k \in Controllers, f \in Fields :
          nParams \in ParamSlots => seenParam[k][nParams][f] = Unknown
    BY DEF NothingUntold, HasParams, TypeOK
  <2>4. QED
    BY <2>1, <2>2, <2>3
<1>6. ASSUME NEW k \in Controllers, SendCurrentStatus(k), UNCHANGED <<dim, masterDim, params>>
      PROVE  FadersMirrored'
  <2> SUFFICES ASSUME NEW j \in Controllers
               PROVE  /\ \A c \in Columns : seenDim'[j][c] \in {Unknown, dim[c]}
                      /\ seenMaster'[j] \in {Unknown, masterDim}
                      /\ \A p \in ParamSlots, f \in Fields :
                           seenParam'[j][p][f] \in {Unknown, params[p][f]}
    BY <1>6
  <2>1. CASE j # k
    BY <1>6, <2>1 DEF TypeOK, SendCurrentStatus
  <2>2. CASE j = k
    <3>1. \A c \in Columns : seenDim'[k][c] \in {dim[c], seenDim[k][c]}
      BY <1>6 DEF TypeOK, SendCurrentStatus
    <3>2. seenMaster'[k] = masterDim
      BY <1>6 DEF TypeOK, SendCurrentStatus
    <3>3. \A p \in ParamSlots : seenParam'[k][p] \in {params[p], seenParam[k][p]}
      BY <1>6 DEF TypeOK, SendCurrentStatus
    <3>4. QED
      BY <2>2, <3>1, <3>2, <3>3
  <2>3. QED
    BY <2>1, <2>2
<1>7. ASSUME NEW k \in Controllers, Unsubscribe(k)
      PROVE  FadersMirrored'
  BY <1>7 DEF TypeOK, Unsubscribe, state
<1> HIDE DEF FadersMirrored
<1>8. CASE Setup
  BY <1>1, <1>5, <1>8
  DEF Setup, ExpandTo, SetFlash, SetForcedSelection, RegisterInput, Start, state, seen
<1>9. CASE Buttons \/ SlotControl
  BY <1>1, <1>9 DEF Buttons, ButtonPressed, ButtonReleased, SlotControl, SetSlotActive
<1>10. CASE Faders
  <2>1. ASSUME NEW m \in Masks, UpdatePreviewActivatedMasks(m)
        PROVE  FadersMirrored'
    BY <1>1, <2>1 DEF UpdatePreviewActivatedMasks
  <2>2. QED
    BY <1>2, <1>3, <1>4, <1>10, <2>1 DEF Faders
<1>11. CASE Subscriptions
  BY <1>1, <1>6, <1>7, <1>11 DEF Subscriptions, Subscribe, Resend, state, seen
<1>12. CASE UNCHANGED hubVars
  BY <1>1, <1>12 DEF hubVars, state, seen
<1>13. QED
  BY <1>8, <1>9, <1>10, <1>11, <1>12 DEF Next

(* No fader of a controller shows an old value, whatever the order of      *)
(* moves, subscriptions and new parameter sets.                            *)
THEOREM FadersAreMirrored == Spec => []FadersMirrored
<1> DEFINE IInv == TypeOK /\ NothingUntold /\ FadersMirrored
<1>1. Init => IInv
  BY InitType, InitUntold
<1>2. IInv /\ [Next]_hubVars => IInv'
  BY NextType, StrangersStep, FadersStep
<1>3. IInv => FadersMirrored
  OBVIOUS
<1>4. QED
  BY <1>1, <1>2, <1>3, PTL DEF Spec

-----------------------------------------------------------------------------
(* Radio columns and forced selections, as long as no caller passes        *)
(* DEFAULT to setSlotActive.                                               *)

(* No caller passes DEFAULT to setSlotActive: true of the sequencer, the   *)
(* pages and the APC mini, not of an EspNowButtonController, which takes   *)
(* the default argument and so goes around the rules of the column.        *)
PlainCallers == DEFAULT \notin SetFlags

PlainHub == PlainCallers /\ TypeOK

LEMMA PlainInvariant == PlainCallers /\ Spec => []PlainHub
<1>1. PlainCallers /\ Init => PlainHub
  BY InitType DEF PlainHub
<1>2. PlainHub /\ [Next]_hubVars => PlainHub'
  BY NextType DEF PlainHub, PlainCallers
<1>3. QED
  BY <1>1, <1>2, PTL DEF Spec

(* What an operation may do to the selection of a column: leave it as it   *)
(* is, or press one of its slots.                                          *)
LEMMA SelectionStep ==
  ASSUME PlainHub, [Next]_hubVars, NEW c \in Columns
  PROVE  \/ Selected(c)' = Selected(c)
         \/ \E s \in Slots : ButtonPressed(c, s)
<1> TypeOK /\ DEFAULT \notin SetFlags
  BY DEF PlainHub, PlainCallers
<1>1. ASSUME UNCHANGED activated
      PROVE  Selected(c)' = Selected(c)
  BY <1>1 DEF Selected
<1>2. ASSUME NEW d \in Columns, NEW s \in Slots, ButtonPressed(d, s), d # c
      PROVE  Selected(c)' = Selected(c)
  BY <1>2 DEF TypeOK, ButtonPressed, Selected
<1>3. ASSUME NEW d \in Columns, NEW s \in Slots, ButtonReleased(d, s)
      PROVE  Selected(c)' = Selected(c)
  <2>1. \A t \in Slots : DEFAULT \in activated'[c][t] <=> DEFAULT \in activated[c][t]
    BY <1>3 DEF TypeOK, ButtonReleased, DEFAULT, FLASH
  <2>2. QED
    BY <2>1 DEF Selected
<1>4. ASSUME NEW d \in Columns, NEW s \in Slots, NEW active \in BOOLEAN, NEW f \in SetFlags,
             SetSlotActive(d, s, active, {f})
      PROVE  Selected(c)' = Selected(c)
  <2>1. activated' = [activated EXCEPT ![d][s] = WithFlags(activated[d][s], active, {f})]
    BY <1>4 DEF SetSlotActive, SetSlots
  <2>2. DEFAULT \in WithFlags(activated[d][s], active, {f}) <=> DEFAULT \in activated[d][s]
    BY DEF WithFlags
  <2>3. \A t \in Slots : DEFAULT \in activated'[c][t] <=> DEFAULT \in activated[c][t]
    BY <2>1, <2>2 DEF TypeOK
  <2>4. QED
    BY <2>3 DEF Selected
<1>5. CASE Setup \/ Faders \/ Subscriptions
  BY <1>1, <1>5
  DEF Setup, ExpandTo, SetFlash, SetForcedSelection, AddParams, RegisterInput, Start,
      Faders, Dim, SetMasterDim, SetParam, UpdatePreviewActivatedMasks,
      Subscriptions, Subscribe, Resend, Unsubscribe, state
<1>6. CASE Buttons
  BY <1>2, <1>3, <1>6 DEF Buttons
<1>7. CASE SlotControl
  BY <1>4, <1>7 DEF SlotControl
<1>8. CASE UNCHANGED hubVars
  BY <1>1, <1>8 DEF hubVars, state
<1>9. QED
  BY <1>5, <1>6, <1>7, <1>8 DEF Next

(* A press that releases the column leaves at most its own slot selected.  *)
LEMMA PressReleases ==
  ASSUME TypeOK, NEW c \in Columns, NEW s \in Slots, ButtonPressed(c, s), releaseColumn[c][s]
  PROVE  Selected(c)' \subseteq {s}
<1>1. activated'[c] = PressedColumn(c, s)
  BY DEF TypeOK, ButtonPressed
<1>2. QED
  BY <1>1 DEF Selected, PressedColumn

(* A press that does not release the column changes its own slot only, and *)
(* one that is not refused leaves a forced selection of one slot.          *)
LEMMA PressKeepsOthers ==
  ASSUME TypeOK, NEW c \in Columns, NEW s \in Slots, ButtonPressed(c, s), ~releaseColumn[c][s]
  PROVE  Selected(c) \ {s} \subseteq Selected(c)'
<1>1. activated'[c] = PressedColumn(c, s)
  BY DEF TypeOK, ButtonPressed
<1>2. QED
  BY <1>1 DEF Selected, PressedColumn

LEMMA PressSelects ==
  ASSUME TypeOK, NEW c \in Columns, NEW s \in Slots, ButtonPressed(c, s),
         forced[c], NEW t \in Slots, Selected(c) = {t}
  PROVE  Selected(c)' # {}
<1>1. Cardinality(Selected(c)) = 1
  BY FS_Singleton
<1>2. DEFAULT \in PressedFlags(c, s)
  BY <1>1 DEF ButtonPressed, PressRefused
<1>3. activated'[c][s] = PressedFlags(c, s)
  BY DEF TypeOK, ButtonPressed, PressedColumn
<1>4. QED
  BY <1>2, <1>3 DEF Selected

(* Where every button releases the column, at most one slot stays          *)
(* selected, for any number of slots and whatever happens in other columns *)
(* (the release loop of buttonPressed).                                    *)
THEOREM RadioStaysRadio == PlainCallers /\ Spec => RadioColumn
<1>1. ASSUME PlainHub, [Next]_hubVars
      PROVE  [started => \A c \in Columns : Radio(c) /\ AtMostOne(c) => AtMostOne(c)']_hubVars
  <2> SUFFICES ASSUME NEW c \in Columns, Radio(c), AtMostOne(c)
               PROVE  AtMostOne(c)'
    OBVIOUS
  <2>1. CASE Selected(c)' = Selected(c)
    BY <2>1 DEF AtMostOne
  <2>2. ASSUME NEW s \in Slots, ButtonPressed(c, s)
        PROVE  AtMostOne(c)'
    <3>1. releaseColumn[c][s]
      BY <2>2 DEF Radio, ButtonPressed, HasSlot
    <3>2. Selected(c)' \subseteq {s}
      BY <1>1, <2>2, <3>1, PressReleases DEF PlainHub
    <3>3. QED
      BY <3>2 DEF AtMostOne
  <2>3. QED
    BY <1>1, <2>1, <2>2, SelectionStep
<1>2. QED
  BY <1>1, PlainInvariant, PTL DEF Spec, RadioColumn

(* A forced selection of one slot, or in a column that is never released,  *)
(* survives every operation (the early return of buttonPressed).           *)
THEOREM ForcedStaysSelected == PlainCallers /\ Spec => ForcedSelectionKept
<1>1. ASSUME PlainHub, [Next]_hubVars
      PROVE  [started =>
                \A c \in Columns :
                  /\ forced[c] /\ Selected(c) # {}
                  /\ \/ AtMostOne(c)
                     \/ \A s \in Slots : ~releaseColumn[c][s]
                  => Selected(c)' # {}]_hubVars
  <2> SUFFICES ASSUME NEW c \in Columns, forced[c], Selected(c) # {},
                      AtMostOne(c) \/ \A s \in Slots : ~releaseColumn[c][s]
               PROVE  Selected(c)' # {}
    OBVIOUS
  <2>1. ASSUME NEW s \in Slots, ButtonPressed(c, s)
        PROVE  Selected(c)' # {}
    <3>1. PICK t \in Slots : t \in Selected(c)
      BY DEF Selected
    <3>2. CASE Selected(c) = {t}
      BY <1>1, <2>1, <3>2, PressSelects DEF PlainHub
    <3>3. CASE Selected(c) # {t}
      <4>1. PICK u \in Selected(c) : u # t
        BY <3>1, <3>3
      <4>2. ~releaseColumn[c][s]
        BY <3>1, <4>1 DEF AtMostOne
      <4>3. Selected(c) \ {s} \subseteq Selected(c)'
        BY <1>1, <2>1, <4>2, PressKeepsOthers DEF PlainHub
      <4>4. QED
        BY <3>1, <4>1, <4>3
    <3>4. QED
      BY <3>2, <3>3
  <2>2. QED
    BY <1>1, <2>1, SelectionStep
<1>2. QED
  BY <1>1, PlainInvariant, PTL DEF Spec, ForcedSelectionKept

-----------------------------------------------------------------------------
(* What a controller knows, it goes on knowing.                            *)

(* The dimmers and parameters, after each step that touches them.          *)
LEMMA ToldOn ==
  ASSUME TypeOK, started, [Next]_hubVars,
         NEW k \in subscribed, k \in subscribed', ToldEverything(k)
  PROVE  ToldEverything(k)'
<1>1. k \in Controllers
  BY DEF TypeOK
<1>2. ASSUME UNCHANGED <<nColumns, nParams, dim, masterDim, params>>,
             UNCHANGED <<seenDim, seenMaster, seenParam>>
      PROVE  ToldEverything(k)'
  BY <1>2 DEF ToldEverything, HasColumn, HasParams
<1>3. ASSUME NEW c \in Columns, NEW v \in Levels, Dim(c, v)
      PROVE  ToldEverything(k)'
  <2>1. UNCHANGED <<nColumns, nParams, masterDim, params, seenMaster, seenParam>>
    BY <1>3 DEF Dim, layout
  <2>2. \A d \in Columns : seenDim[k][d] = dim[d] => seenDim'[k][d] = dim'[d]
    BY <1>1, <1>3 DEF TypeOK, Dim, Tell
  <2>3. QED
    BY <2>1, <2>2 DEF ToldEverything, HasColumn, HasParams
<1>4. ASSUME NEW v \in Levels, SetMasterDim(v)
      PROVE  ToldEverything(k)'
  <2>1. UNCHANGED <<nColumns, nParams, dim, params, seenDim, seenParam>>
    BY <1>4 DEF SetMasterDim, layout
  <2>2. seenMaster'[k] = masterDim'
    BY <1>1, <1>4 DEF SetMasterDim, Tell
  <2>3. QED
    BY <2>1, <2>2 DEF ToldEverything, HasColumn, HasParams
<1>5. ASSUME NEW p \in ParamSlots, NEW f \in Fields, NEW v \in Values, SetParam(p, f, v)
      PROVE  ToldEverything(k)'
  <2>1. UNCHANGED <<nColumns, nParams, dim, masterDim, seenDim, seenMaster>>
    BY <1>5 DEF SetParam, layout
  <2>2. /\ params' = [params EXCEPT ![p] = [params[p] EXCEPT ![f] = v]]
        /\ seenParam'[k] = [seenParam[k] EXCEPT ![p] = [seenParam[k][p] EXCEPT ![f] = v]]
    BY <1>1, <1>5 DEF TypeOK, SetParam, Tell
  <2>3. /\ params \in [ParamSlots -> [Fields -> Values]]
        /\ seenParam[k] \in [ParamSlots -> [Fields -> Values \cup {Unknown}]]
    BY <1>1 DEF TypeOK
  <2>4. \A q \in ParamSlots : seenParam[k][q] = params[q] => seenParam'[k][q] = params'[q]
    BY <2>2, <2>3
  <2>5. QED
    BY <2>1, <2>4 DEF ToldEverything, HasColumn, HasParams
<1>6. ASSUME NEW j \in Controllers, SendCurrentStatus(j), UNCHANGED <<layout, state>>
      PROVE  ToldEverything(k)'
  <2>1. UNCHANGED <<nColumns, nParams, dim, masterDim, params>>
    BY <1>6 DEF layout, state
  <2>2. CASE j = k
    <3>1. /\ \A c \in Columns : HasColumn(c) => seenDim'[k][c] = dim[c]
          /\ seenMaster'[k] = masterDim
          /\ \A p \in ParamSlots : HasParams(p) => seenParam'[k][p] = params[p]
      BY <1>6, <2>2 DEF TypeOK, SendCurrentStatus
    <3>2. QED
      BY <2>1, <3>1 DEF ToldEverything, HasColumn, HasParams
  <2>3. CASE j # k
    <3>1. seenDim'[k] = seenDim[k] /\ seenMaster'[k] = seenMaster[k]
          /\ seenParam'[k] = seenParam[k]
      BY <1>1, <1>6, <2>3 DEF TypeOK, SendCurrentStatus
    <3>2. QED
      BY <2>1, <3>1 DEF ToldEverything, HasColumn, HasParams
  <2>4. QED
    BY <2>2, <2>3
<1>7. ASSUME NEW j \in Controllers, Unsubscribe(j)
      PROVE  ToldEverything(k)'
  <2>1. j # k /\ UNCHANGED <<nColumns, nParams, dim, masterDim, params>>
    BY <1>7 DEF Unsubscribe, layout, state
  <2>2. seenDim'[k] = seenDim[k] /\ seenMaster'[k] = seenMaster[k]
        /\ seenParam'[k] = seenParam[k]
    BY <1>1, <1>7, <2>1 DEF TypeOK, Unsubscribe
  <2>3. QED
    BY <2>1, <2>2 DEF ToldEverything, HasColumn, HasParams
<1>8. ~Setup
  BY DEF Setup, ExpandTo, SetFlash, SetForcedSelection, AddParams, RegisterInput, Start
<1>9. CASE Buttons \/ SlotControl \/ UNCHANGED hubVars
  BY <1>2, <1>9 DEF Buttons, ButtonPressed, ButtonReleased, SlotControl, SetSlotActive,
                    hubVars, layout, state, seen
<1>10. CASE Faders
  <2>1. ASSUME NEW m \in Masks, UpdatePreviewActivatedMasks(m)
        PROVE  ToldEverything(k)'
    BY <1>2, <2>1 DEF UpdatePreviewActivatedMasks, layout
  <2>2. QED
    BY <1>3, <1>4, <1>5, <1>10, <2>1 DEF Faders
<1>11. CASE Subscriptions
  <2>1. ASSUME NEW j \in Controllers, NEW sendStatus \in BOOLEAN, Subscribe(j, sendStatus)
        PROVE  ToldEverything(k)'
    <3>1. CASE sendStatus
      BY <1>6, <2>1, <3>1 DEF Subscribe
    <3>2. CASE ~sendStatus
      BY <1>2, <2>1, <3>2 DEF Subscribe, layout, state, seen
    <3>3. QED
      BY <3>1, <3>2
  <2>2. QED
    BY <1>6, <1>7, <1>11, <2>1 DEF Subscriptions, Resend
<1>12. QED
  BY <1>8, <1>9, <1>10, <1>11 DEF Next

(* The mask of the preview inputs.                                         *)
LEMMA MaskOn ==
  ASSUME TypeOK, started, [Next]_hubVars,
         NEW k \in subscribed, k \in subscribed', MaskAgrees(k)
  PROVE  MaskAgrees(k)'
<1>1. k \in Controllers /\ seenMask \in [Controllers -> {Unknown} \cup SUBSET Flags]
  BY DEF TypeOK
<1>2. ASSUME UNCHANGED inputs, seenMask'[k] = seenMask[k]
      PROVE  MaskAgrees(k)'
  BY <1>2 DEF MaskAgrees
<1>3. ASSUME NEW m \in Masks, UpdatePreviewActivatedMasks(m)
      PROVE  MaskAgrees(k)'
  <2>1. inputs' = [i \in DOMAIN inputs |->
                     IF inputs[i].preview THEN [preview |-> TRUE, mask |-> m] ELSE inputs[i]]
    BY <1>3 DEF UpdatePreviewActivatedMasks
  <2>2. DOMAIN inputs' = DOMAIN inputs
    BY <2>1
  <2>3. \A i \in DOMAIN inputs' : inputs'[i].preview => inputs'[i].mask = m
    BY <2>1
  <2>4. seenMask'[k] = m
    BY <1>1, <1>3 DEF UpdatePreviewActivatedMasks, Tell
  <2>5. QED
    BY <2>3, <2>4 DEF MaskAgrees
<1>4. ASSUME NEW j \in Controllers, SendCurrentStatus(j)
      PROVE  seenMask'[k] = seenMask[k]
  <2>1. ASSUME NEW i \in Previews, seenMask' = [seenMask EXCEPT ![j] = inputs[i].mask]
        PROVE  seenMask'[k] = seenMask[k]
    <3>1. inputs[i].mask = seenMask[k]
      BY DEF Previews, MaskAgrees
    <3>2. QED
      BY <1>1, <2>1, <3>1
  <2>2. QED
    BY <1>4, <2>1 DEF SendCurrentStatus
<1>5. ~Setup
  BY DEF Setup, ExpandTo, SetFlash, SetForcedSelection, AddParams, RegisterInput, Start
<1>6. CASE Buttons \/ SlotControl \/ UNCHANGED hubVars
  BY <1>2, <1>6 DEF Buttons, ButtonPressed, ButtonReleased, SlotControl, SetSlotActive,
                    hubVars, state, seen
<1>7. CASE Faders
  BY <1>2, <1>3, <1>7 DEF Faders, Dim, SetMasterDim, SetParam
<1>8. CASE Subscriptions
  <2>1. UNCHANGED inputs
    BY <1>8 DEF Subscriptions, Subscribe, Resend, Unsubscribe, state
  <2>2. ASSUME NEW j \in Controllers, Unsubscribe(j)
        PROVE  seenMask'[k] = seenMask[k]
    <3>1. j # k
      BY <2>2 DEF Unsubscribe
    <3>2. QED
      BY <1>1, <2>2, <3>1 DEF Unsubscribe
  <2>3. seenMask'[k] = seenMask[k]
    BY <1>4, <1>8, <2>2 DEF Subscriptions, Subscribe, Resend, seen
  <2>4. QED
    BY <1>2, <2>1, <2>3
<1>9. QED
  BY <1>5, <1>6, <1>7, <1>8 DEF Next

(* After start(), no change of a dimmer, a parameter or a preview mask is  *)
(* kept from a controller that knew all of them, whatever else subscribes, *)
(* asks for its status again or leaves meanwhile.                          *)
THEOREM NothingIsMissed == Spec => StaysTold
<1>1. ASSUME TypeOK, [Next]_hubVars
      PROVE  [\A k \in subscribed : started /\ k \in subscribed' =>
                /\ ToldEverything(k) => ToldEverything(k)'
                /\ MaskAgrees(k) => MaskAgrees(k)']_hubVars
  BY <1>1, ToldOn, MaskOn
<1>2. QED
  BY <1>1, HubTypeCorrect, PTL DEF Spec, StaysTold

=============================================================================
