-------------------------- MODULE SequencerProofs ---------------------------
(***************************************************************************)
(* Proofs about the step sequencer: its pages show the sequences as they   *)
(* are, and no edit brings the hub out of step with them, for any number   *)
(* of sequences, steps, slots and pages.                                   *)
(***************************************************************************)
EXTENDS Sequencer, ControlHubProofs

-----------------------------------------------------------------------------
(* What updateHub does to the slots.                                       *)

Grid == [Columns -> [Slots -> SUBSET Flags]]

LEMMA WithSequence ==
  ASSUME NEW old, NEW on
  PROVE  SEQUENCE \in WithFlags(old, on, {SEQUENCE}) <=> (on <=> TRUE)
BY DEF WithFlags

LEMMA UpdatedType ==
  ASSUME TypeOK, NEW qs, NEW step
  PROVE  Updated(qs, step) \in Grid
<1>1. \A c \in Columns, s \in Slots :
        activated[c][s] \in SUBSET Flags /\ activated[c][s] \cup {SEQUENCE} \in SUBSET Flags
  BY DEF TypeOK, Flags, SEQUENCE
<1>2. ASSUME NEW c \in Columns, NEW s \in Slots, NEW on
      PROVE  WithFlags(activated[c][s], on, {SEQUENCE}) \in SUBSET Flags
  BY <1>1 DEF WithFlags
<1>3. QED
  BY <1>1, <1>2 DEF Updated, Grid

(* A slot with one sequence carries the flag exactly when that one is lit. *)
LEMMA UpdatedOwned ==
  ASSUME TypeOK, NEW qs, NEW step, NEW c \in Columns, NEW s \in Slots,
         NEW q \in qs, At(q, c, s), Shown(q), \A r \in qs : At(r, c, s) => r = q
  PROVE  SEQUENCE \in Updated(qs, step)[c][s] <=> Lit(q, step)
<1> DEFINE here == {r \in qs : At(r, c, s) /\ Shown(r)}
<1>1. here = {q}
  OBVIOUS
<1>2. Updated(qs, step)[c][s] =
        WithFlags(activated[c][s], \E r \in here : Lit(r, step), {SEQUENCE})
  BY <1>1 DEF Updated
<1>3. (\E r \in here : Lit(r, step)) <=> Lit(q, step)
  BY <1>1
<1> HIDE DEF here
<1>4. QED
  BY <1>2, <1>3, WithSequence

(* A slot without a sequence is left alone.                                *)
LEMMA UpdatedOther ==
  ASSUME NEW qs, NEW step, NEW c \in Columns, NEW s \in Slots,
         \A r \in qs : ~At(r, c, s)
  PROVE  Updated(qs, step)[c][s] = activated[c][s]
BY DEF Updated

(* The hub keeps its types.                                                *)
LEMMA HubKeepsTypes ==
  ASSUME TypeOK, NEW new \in Grid, SetSlots(new), hubUnchanged
  PROVE  TypeOK' /\ activated' = new /\ UNCHANGED <<started, nColumns, nSlots>>
<1>1. activated' \in Grid
      /\ seenSlot' \in [Controllers -> [Columns -> [Slots -> {Unknown} \cup SUBSET Flags]]]
  BY SetSlotsType DEF Grid
<1>2. QED
  BY <1>1 DEF TypeOK, hubUnchanged, layout, Grid, SetSlots

-----------------------------------------------------------------------------
(* The invariant.                                                          *)

(* No two sequences fight for a slot.                                      *)
OneOwner ==
  \A i, j \in DOMAIN sequences :
    At(sequences[j], sequences[i].column, sequences[i].slot) => i = j

(* There is no sequencer before start().                                   *)
NoneBeforeStart == ~started => DOMAIN sequences = {}

(* What an open page shows.                                                *)
RowsFresh ==
  \A p \in connected : \A i \in DOMAIN sequences :
    /\ Shown(sequences[i]) => i \in DOMAIN rows[p]
    /\ i \in DOMAIN rows[p] => rows[p][i] = RowOf(sequences[i])

SeqIInv == TypeOK /\ SequencerTypeOK /\ OneOwner /\ NoneBeforeStart /\ RowsFresh

LEMMA SeqStart == SeqInit => SeqIInv
<1> SUFFICES ASSUME SeqInit PROVE SeqIInv
  OBVIOUS
<1>1. TypeOK
  BY InitType DEF SeqInit
<1>2. SequencerTypeOK
  BY SequencerAssumption DEF SeqInit, SequencerTypeOK, Steps
<1>3. QED
  BY <1>1, <1>2 DEF SeqInit, SeqIInv, OneOwner, NoneBeforeStart, RowsFresh

(* Rows are of what they should be.                                        *)
LEMMA RowType ==
  ASSUME NEW q \in Sequence
  PROVE  RowOf(q) \in Row
BY DEF Sequence, Row, RowOf

(* A change of a sequence that stays where it is.                          *)
LEMMA ChangeStep ==
  ASSUME SeqIInv, NEW i \in DOMAIN sequences, NEW q \in Sequence,
         q.column = sequences[i].column, q.slot = sequences[i].slot, Change(i, q), started
  PROVE  SeqIInv'
<1>1. TypeOK /\ SequencerTypeOK /\ OneOwner /\ RowsFresh
  BY DEF SeqIInv
<1>2. TypeOK' /\ UNCHANGED <<started, nColumns, nSlots>>
  BY <1>1, UpdatedType, HubKeepsTypes DEF Change
<1>3. /\ DOMAIN sequences' = DOMAIN sequences /\ sequences'[i] = q
      /\ \A j \in DOMAIN sequences \ {i} : sequences'[j] = sequences[j]
      /\ UNCHANGED <<indexCounter, stepNr, connected>>
  BY DEF Change
<1>4. /\ DOMAIN rows' = Pages
      /\ \A p \in Pages : DOMAIN rows'[p] = DOMAIN rows[p]
      /\ \A p \in Pages : \A j \in DOMAIN rows[p] :
           rows'[p][j] = IF p \in connected /\ j = i THEN RowOf(q) ELSE rows[p][j]
  BY DEF Change, SendStatus
<1>5. SequencerTypeOK'
  <2>1. \A j \in DOMAIN sequences' : sequences'[j] \in Sequence
    BY <1>1, <1>3 DEF SequencerTypeOK
  <2>2. \A p \in Pages : \A j \in DOMAIN rows'[p] : rows'[p][j] \in Row
    BY <1>1, <1>4, RowType DEF SequencerTypeOK
  <2>3. QED
    BY <1>1, <1>3, <1>4, <2>1, <2>2 DEF SequencerTypeOK
<1>6. OneOwner'
  BY <1>1, <1>3 DEF OneOwner, At
<1>7. RowsFresh'
  <2>1. \A p \in connected : p \in Pages
    BY <1>1 DEF SequencerTypeOK
  <2>2. Shown(q)' => Shown(sequences[i])
    BY <1>2 DEF Shown, HasSlot, HasColumn
  <2>3. \A j \in DOMAIN sequences : Shown(sequences[j])' <=> Shown(sequences'[j])
    BY <1>2, <1>3 DEF Shown, HasSlot, HasColumn
  <2>4. \A j \in DOMAIN sequences : Shown(sequences[j])' => Shown(sequences[j])
    BY <1>2, <1>3 DEF Shown, HasSlot, HasColumn
  <2>5. QED
    BY <1>1, <1>3, <1>4, <2>1, <2>4 DEF RowsFresh
<1>8. NoneBeforeStart'
  BY <1>2 DEF NoneBeforeStart
<1>9. QED
  BY <1>2, <1>5, <1>6, <1>7, <1>8 DEF SeqIInv

LEMMA SetStepsIsChange ==
  ASSUME SequencerTypeOK, NEW i, NEW first, NEW last, NEW on \in BOOLEAN,
         SetSteps(i, first, last, on)
  PROVE  \E q \in Sequence : /\ i \in DOMAIN sequences /\ Change(i, q)
                             /\ q.column = sequences[i].column /\ q.slot = sequences[i].slot
<1> DEFINE range == (first .. last) \cap Steps
           q == [sequences[i] EXCEPT !.active = WithFlags(@, on, range)]
<1>1. i \in DOMAIN sequences /\ sequences[i] \in Sequence /\ Change(i, q)
  BY DEF SetSteps, SequencerTypeOK
<1>2. WithFlags(sequences[i].active, on, range) \in SUBSET Steps
  BY <1>1 DEF WithFlags, Sequence
<1>3. q \in Sequence /\ q.column = sequences[i].column /\ q.slot = sequences[i].slot
  BY <1>1, <1>2 DEF Sequence
<1>4. QED
  BY <1>1, <1>3

LEMMA EnableIsChange ==
  ASSUME SequencerTypeOK, NEW i, NEW on \in BOOLEAN, Enable(i, on)
  PROVE  \E q \in Sequence : /\ i \in DOMAIN sequences /\ Change(i, q)
                             /\ q.column = sequences[i].column /\ q.slot = sequences[i].slot
<1> DEFINE q == [sequences[i] EXCEPT !.enabled = on]
<1>1. i \in DOMAIN sequences /\ sequences[i] \in Sequence /\ Change(i, q)
  BY DEF Enable, SequencerTypeOK
<1>2. q \in Sequence /\ q.column = sequences[i].column /\ q.slot = sequences[i].slot
  BY <1>1 DEF Sequence
<1>3. QED
  BY <1>1, <1>2

LEMMA BeatStep ==
  ASSUME SeqIInv, NEW beatNr \in BeatNumbers, OnBeat(beatNr), started
  PROVE  SeqIInv'
<1>1. TypeOK' /\ UNCHANGED <<started, nColumns, nSlots>>
  BY UpdatedType, HubKeepsTypes DEF SeqIInv, OnBeat
<1>2. stepNr' \in {-1} \cup Steps
  <2>1. beatNr = -1 \/ beatNr \in Nat
    BY SequencerAssumption
  <2>2. CASE beatNr = -1
    BY <2>2 DEF OnBeat, StepOf
  <2>3. CASE beatNr \in Nat
    BY <2>3, SequencerAssumption DEF OnBeat, StepOf, Steps
  <2>4. QED
    BY <2>1, <2>2, <2>3
<1>3. SequencerTypeOK'
  BY <1>2 DEF SeqIInv, SequencerTypeOK, OnBeat
<1>4. OneOwner' /\ RowsFresh' /\ NoneBeforeStart'
  BY <1>1 DEF SeqIInv, OneOwner, RowsFresh, NoneBeforeStart, OnBeat, Shown, HasSlot, HasColumn
<1>5. QED
  BY <1>1, <1>3, <1>4 DEF SeqIInv

LEMMA PreviewStep ==
  ASSUME SeqIInv, NEW i, NEW on \in BOOLEAN, Preview(i, on), started
  PROVE  SeqIInv'
<1> DEFINE q == sequences[i]
           new == [activated EXCEPT ![q.column][q.slot] = WithFlags(@, on, {PREVIEW})]
<1>1. q \in Sequence /\ SetSlots(new) /\ hubUnchanged /\ UNCHANGED seqVars
  BY DEF SeqIInv, SequencerTypeOK, Preview, SetSlotActive, hubUnchanged
<1>2. new \in Grid
  <2>1. q.column \in Columns /\ q.slot \in Slots
    BY <1>1 DEF Sequence
  <2>2. WithFlags(activated[q.column][q.slot], on, {PREVIEW}) \in SUBSET Flags
    BY <2>1 DEF SeqIInv, TypeOK, WithFlags, Flags, PREVIEW
  <2>3. QED
    BY <2>1, <2>2 DEF SeqIInv, TypeOK, Grid
<1> HIDE DEF new
<1>3. TypeOK' /\ UNCHANGED <<started, nColumns, nSlots>>
  BY <1>1, <1>2, HubKeepsTypes DEF SeqIInv
<1>4. QED
  BY <1>1, <1>3 DEF SeqIInv, SequencerTypeOK, OneOwner, RowsFresh, NoneBeforeStart, seqVars,
                    Shown, HasSlot, HasColumn

LEMMA AddStep ==
  ASSUME SeqIInv, NEW c \in Columns, NEW s \in Slots, Add(c, s), started
  PROVE  SeqIInv'
<1> DEFINE n == indexCounter
           q == [column |-> c, slot |-> s, enabled |-> TRUE, active |-> {}]
<1>1. TypeOK /\ SequencerTypeOK /\ OneOwner /\ RowsFresh
  BY DEF SeqIInv
<1>2. q \in Sequence /\ RowOf(q) = [enabled |-> q.enabled, active |-> {}]
  BY DEF Sequence, RowOf
<1>3. /\ UNCHANGED <<hubVars, stepNr, connected>> /\ indexCounter' = n + 1
      /\ DOMAIN sequences' = DOMAIN sequences \cup {n} /\ sequences'[n] = q
      /\ \A j \in DOMAIN sequences \ {n} : sequences'[j] = sequences[j]
      /\ SendDetails(n, q)
  BY DEF Add
<1>4. n \in Nat /\ n + 1 \in 0 .. MaxIndex
      /\ \A j \in 0 .. n - 1 : j \in 0 .. n /\ j # n
  BY <1>1, SequencerAssumption DEF SequencerTypeOK, Add
<1>5. n \notin DOMAIN sequences /\ \A p \in Pages : n \notin DOMAIN rows[p]
  BY <1>1, <1>4 DEF SequencerTypeOK
<1> HIDE DEF q
<1>6. /\ DOMAIN rows' = Pages
      /\ \A p \in Pages :
           /\ DOMAIN rows'[p] =
                DOMAIN rows[p] \cup (IF p \in connected /\ Shown(q) THEN {n} ELSE {})
           /\ \A j \in DOMAIN rows[p] : rows'[p][j] = rows[p][j]
           /\ p \in connected /\ Shown(q) => rows'[p][n] = RowOf(q)
  BY <1>2, <1>3, <1>5 DEF SendDetails
<1>7. TypeOK' /\ UNCHANGED <<started, nColumns, nSlots>>
  BY <1>1, <1>3 DEF TypeOK, hubVars, layout, state, seen
<1>8. SequencerTypeOK'
  <2>1. \A j \in DOMAIN sequences' : sequences'[j] \in Sequence
    BY <1>1, <1>2, <1>3 DEF SequencerTypeOK
  <2>2. \A p \in Pages : \A j \in DOMAIN rows'[p] : rows'[p][j] \in Row
    <3>1. RowOf(q) \in Row
      BY <1>2, RowType
    <3>2. QED
      BY <1>1, <1>6, <3>1 DEF SequencerTypeOK
  <2>3. indexCounter' \in 0 .. MaxIndex /\ n \in 0 .. indexCounter' - 1
        /\ \A j \in 0 .. n - 1 : j \in 0 .. indexCounter' - 1
    BY <1>3, <1>4
  <2>4. DOMAIN sequences' \subseteq 0 .. indexCounter' - 1
    BY <1>1, <1>3, <2>3 DEF SequencerTypeOK
  <2>5. \A p \in Pages : DOMAIN rows'[p] \subseteq 0 .. indexCounter' - 1
    BY <1>1, <1>6, <2>3 DEF SequencerTypeOK
  <2>6. QED
    BY <1>1, <1>3, <1>6, <2>1, <2>2, <2>3, <2>4, <2>5 DEF SequencerTypeOK
<1>9. OneOwner'
  <2>1. \A j \in DOMAIN sequences : ~At(sequences[j], c, s)
    BY DEF Add
  <2>2. q.column = c /\ q.slot = s
    BY DEF q
  <2>3. QED
    BY <1>1, <1>3, <1>5, <2>1, <2>2 DEF OneOwner, At
<1>10. RowsFresh'
  <2>1. \A p \in connected : p \in Pages
    BY <1>1 DEF SequencerTypeOK
  <2>2. \A r : Shown(r)' <=> Shown(r)
    BY <1>7 DEF Shown, HasSlot, HasColumn
  <2>3. \A j \in DOMAIN sequences' : Shown(sequences[j])' <=> Shown(sequences'[j])
    BY <2>2 DEF Shown, HasSlot, HasColumn
  <2>4. ASSUME NEW p \in connected, NEW j \in DOMAIN sequences
        PROVE  /\ Shown(sequences'[j]) => j \in DOMAIN rows'[p]
               /\ j \in DOMAIN rows'[p] => rows'[p][j] = RowOf(sequences'[j])
    BY <1>1, <1>3, <1>5, <1>6, <2>1, <2>4 DEF RowsFresh
  <2>5. ASSUME NEW p \in connected
        PROVE  /\ Shown(sequences'[n]) => n \in DOMAIN rows'[p]
               /\ n \in DOMAIN rows'[p] => rows'[p][n] = RowOf(sequences'[n])
    BY <1>3, <1>5, <1>6, <2>1, <2>5
  <2>6. QED
    BY <1>3, <2>3, <2>4, <2>5 DEF RowsFresh
<1>11. NoneBeforeStart'
  BY <1>7 DEF NoneBeforeStart
<1>12. QED
  BY <1>7, <1>8, <1>9, <1>10, <1>11 DEF SeqIInv

LEMMA RemoveStep ==
  ASSUME SeqIInv, NEW i, Remove(i), started
  PROVE  SeqIInv'
<1> DEFINE q == sequences[i]
           refreshed == Updated({q}, stepNr)
           new == IF Shown(q) THEN [refreshed EXCEPT ![q.column][q.slot] = @ \ {PREVIEW}]
                  ELSE refreshed
<1>1. TypeOK /\ SequencerTypeOK /\ OneOwner /\ RowsFresh
  BY DEF SeqIInv
<1>2. i \in DOMAIN sequences /\ q \in Sequence /\ SetSlots(new) /\ hubUnchanged
  BY <1>1 DEF Remove, SequencerTypeOK
<1>3. new \in Grid
  <2>1. refreshed \in Grid
    BY <1>1, UpdatedType
  <2>2. q.column \in Columns /\ q.slot \in Slots
    BY <1>2 DEF Sequence
  <2>3. refreshed[q.column][q.slot] \ {PREVIEW} \in SUBSET Flags
    BY <2>1, <2>2 DEF Grid
  <2> HIDE DEF refreshed
  <2>4. QED
    BY <2>1, <2>2, <2>3 DEF Grid
<1> HIDE DEF new
<1>4. TypeOK' /\ UNCHANGED <<started, nColumns, nSlots>>
  BY <1>1, <1>2, <1>3, HubKeepsTypes
<1>5. /\ DOMAIN sequences' = DOMAIN sequences \ {i}
      /\ \A j \in DOMAIN sequences' : sequences'[j] = sequences[j]
      /\ UNCHANGED <<indexCounter, stepNr, connected>>
  BY DEF Remove
<1>6. /\ DOMAIN rows' = Pages
      /\ \A p \in Pages :
           /\ DOMAIN rows'[p] = DOMAIN rows[p] \ (IF p \in connected THEN {i} ELSE {})
           /\ \A j \in DOMAIN rows'[p] : rows'[p][j] = rows[p][j]
  BY <1>1 DEF Remove, SequencerTypeOK
<1>7. SequencerTypeOK'
  BY <1>1, <1>5, <1>6 DEF SequencerTypeOK
<1>8. OneOwner'
  BY <1>1, <1>5 DEF OneOwner
<1>9. RowsFresh'
  <2>1. \A p \in connected : p \in Pages
    BY <1>1 DEF SequencerTypeOK
  <2>2. \A j \in DOMAIN sequences' : Shown(sequences[j])' <=> Shown(sequences'[j])
    BY <1>4 DEF Shown, HasSlot, HasColumn
  <2>3. QED
    BY <1>1, <1>5, <1>6, <2>1, <2>2 DEF RowsFresh
<1>10. NoneBeforeStart'
  BY <1>4 DEF NoneBeforeStart
<1>11. QED
  BY <1>4, <1>7, <1>8, <1>9, <1>10 DEF SeqIInv

LEMMA PagesStep ==
  ASSUME SeqIInv, NEW p \in Pages, Connect(p) \/ Disconnect(p), started
  PROVE  SeqIInv'
<1>1. TypeOK /\ SequencerTypeOK /\ OneOwner /\ RowsFresh
  BY DEF SeqIInv
<1>2. UNCHANGED <<hubVars, sequences, indexCounter, stepNr>>
  BY DEF Connect, Disconnect
<1>3. TypeOK' /\ UNCHANGED <<started, nColumns, nSlots>>
  BY <1>1, <1>2 DEF TypeOK, hubVars, layout, state, seen
<1>4. \A j \in DOMAIN sequences : Shown(sequences[j])' <=> Shown(sequences[j])
  BY <1>2, <1>3 DEF Shown, HasSlot, HasColumn
<1>5. SequencerTypeOK' /\ RowsFresh'
  <2>1. CASE Disconnect(p)
    BY <1>1, <1>2, <1>4, <2>1 DEF SequencerTypeOK, RowsFresh, Disconnect
  <2>2. CASE Connect(p)
    <3> DEFINE sent == {i \in DOMAIN sequences : Shown(sequences[i])}
    <3>1. connected' = connected \cup {p} /\ connected' \subseteq Pages
      BY <1>1, <2>2 DEF SequencerTypeOK, Connect
    <3>2. /\ DOMAIN rows' = Pages
          /\ \A r \in Pages :
               /\ DOMAIN rows'[r] = DOMAIN rows[r] \cup (IF r \in connected' THEN sent ELSE {})
               /\ \A j \in DOMAIN rows'[r] :
                    rows'[r][j] = IF r \in connected' /\ j \in DOMAIN sequences
                                  THEN RowOf(sequences[j]) ELSE rows[r][j]
      BY <2>2 DEF Connect
    <3>3. \A r \in Pages : \A j \in DOMAIN rows'[r] : rows'[r][j] \in Row
      <4>1. \A j \in DOMAIN sequences : RowOf(sequences[j]) \in Row
        BY <1>1, RowType DEF SequencerTypeOK
      <4>2. QED
        BY <1>1, <3>2, <4>1 DEF SequencerTypeOK
    <3>4. \A r \in Pages : DOMAIN rows'[r] \subseteq 0 .. indexCounter' - 1
      BY <1>1, <1>2, <3>2 DEF SequencerTypeOK
    <3>5. SequencerTypeOK'
      BY <1>1, <1>2, <3>1, <3>2, <3>3, <3>4 DEF SequencerTypeOK
    <3>6. RowsFresh'
      BY <1>2, <1>4, <3>1, <3>2 DEF RowsFresh
    <3>7. QED
      BY <3>5, <3>6
  <2>3. QED
    BY <2>1, <2>2
<1>6. OneOwner' /\ NoneBeforeStart'
  BY <1>1, <1>2, <1>3 DEF OneOwner, NoneBeforeStart
<1>7. QED
  BY <1>3, <1>5, <1>6 DEF SeqIInv

(* Set-up comes before the sequencer; buttons leave the layout alone.      *)
LEMMA HubAloneStep ==
  ASSUME SeqIInv, Layout \/ Buttons \/ SlotControl, UNCHANGED seqVars
  PROVE  SeqIInv'
<1>1. Next
  BY DEF Layout, Next, Setup
<1>2. TypeOK'
  BY <1>1, NextType DEF SeqIInv
<1>3. ~started \/ UNCHANGED <<started, nColumns, nSlots>>
  BY DEF Layout, ExpandTo, Start, Buttons, ButtonPressed, ButtonReleased,
         SlotControl, SetSlotActive, layout
<1>4. ~started => DOMAIN sequences' = {}
  BY DEF SeqIInv, NoneBeforeStart, seqVars
<1>5. SequencerTypeOK' /\ OneOwner'
  BY DEF SeqIInv, SequencerTypeOK, OneOwner, seqVars
<1>6. RowsFresh' /\ NoneBeforeStart'
  BY <1>3, <1>4 DEF SeqIInv, RowsFresh, NoneBeforeStart, seqVars, Shown, HasSlot, HasColumn
<1>7. QED
  BY <1>2, <1>5, <1>6 DEF SeqIInv

LEMMA SeqStep == SeqIInv /\ [SeqNext]_vars => SeqIInv'
<1> SUFFICES ASSUME SeqIInv, [SeqNext]_vars PROVE SeqIInv'
  OBVIOUS
<1>1. CASE UNCHANGED vars
  BY <1>1 DEF vars, hubVars, layout, state, seen, seqVars, SeqIInv, TypeOK, SequencerTypeOK,
              OneOwner, NoneBeforeStart, RowsFresh, Shown, HasSlot, HasColumn
<1>2. CASE started /\ \E beatNr \in BeatNumbers : OnBeat(beatNr)
  BY <1>2, BeatStep
<1>3. CASE started /\ Editing
  <2>1. ASSUME NEW i \in Indices, NEW first \in Steps, NEW last \in 0 .. STEPS,
               NEW on \in BOOLEAN, SetSteps(i, first, last, on)
        PROVE  SeqIInv'
    BY <1>3, <2>1, SetStepsIsChange, ChangeStep DEF SeqIInv
  <2>2. ASSUME NEW i \in Indices, NEW on \in BOOLEAN, Enable(i, on)
        PROVE  SeqIInv'
    BY <1>3, <2>2, EnableIsChange, ChangeStep DEF SeqIInv
  <2>3. QED
    BY <1>3, <2>1, <2>2, PreviewStep, AddStep, RemoveStep, PagesStep DEF Editing
<1>4. CASE (Layout \/ Buttons \/ SlotControl) /\ UNCHANGED seqVars
  BY <1>4, HubAloneStep
<1>5. QED
  BY <1>1, <1>2, <1>3, <1>4 DEF SeqNext

LEMMA SeqInvariant == SeqSpec => []SeqIInv
BY SeqStart, SeqStep, PTL DEF SeqSpec

(* Every open page shows every sequence whose slot exists as it is now,    *)
(* through adds, edits, removals, reconnects and other pages.              *)
THEOREM PagesShowSequences == SeqSpec => []SequencerInv
<1>1. SeqIInv => SequencerInv
  BY DEF SeqIInv, RowsFresh, SequencerInv
<1>2. QED
  BY SeqInvariant, <1>1, PTL

-----------------------------------------------------------------------------
(* The hub and the sequences.                                              *)

(* The sequencer is the only one that sets and clears SEQUENCE.            *)
SequenceIsOurs == SEQUENCE \notin SetFlags

LEMMA BeatSyncs ==
  ASSUME SeqIInv, NEW beatNr \in BeatNumbers, OnBeat(beatNr)
  PROVE  Synced'
<1> DEFINE qs == {sequences[i] : i \in DOMAIN sequences}
<1>1. activated' = Updated(qs, stepNr') /\ UNCHANGED <<sequences, nColumns, nSlots>>
  BY UpdatedType, HubKeepsTypes DEF SeqIInv, OnBeat
<1>2. ASSUME NEW i \in DOMAIN sequences, Shown(sequences[i])
      PROVE  SEQUENCE \in activated'[sequences[i].column][sequences[i].slot]
               <=> Lit(sequences[i], stepNr')
  <2> DEFINE q == sequences[i]
  <2>1. q \in qs /\ q \in Sequence
    BY DEF SeqIInv, SequencerTypeOK
  <2>2. q.column \in Columns /\ q.slot \in Slots /\ At(q, q.column, q.slot)
    BY <2>1 DEF Sequence, At
  <2>3. \A r \in qs : At(r, q.column, q.slot) => r = q
    BY DEF SeqIInv, OneOwner
  <2> HIDE DEF q, qs
  <2>4. SEQUENCE \in Updated(qs, stepNr')[q.column][q.slot] <=> Lit(q, stepNr')
    BY <1>2, <2>1, <2>2, <2>3, UpdatedOwned DEF SeqIInv, q
  <2>5. QED
    BY <1>1, <2>4 DEF q
<1>3. QED
  BY <1>1, <1>2 DEF Synced, Shown, HasSlot, HasColumn, Lit

(* An operation of the sequencer on slot i, which leaves the others alone. *)
LEMMA OneSlotSyncs ==
  ASSUME SeqIInv, Synced, UNCHANGED <<nColumns, nSlots, stepNr>>,
         NEW i \in DOMAIN sequences,
         \A j \in DOMAIN sequences' \ {i} : j \in DOMAIN sequences /\ sequences'[j] = sequences[j],
         \A c \in Columns, s \in Slots : ~At(sequences[i], c, s) =>
           (SEQUENCE \in activated'[c][s] <=> SEQUENCE \in activated[c][s]),
         i \in DOMAIN sequences' /\ Shown(sequences'[i]) =>
           (SEQUENCE \in activated'[sequences'[i].column][sequences'[i].slot]
              <=> Lit(sequences'[i], stepNr))
  PROVE  Synced'
<1>1. ASSUME NEW j \in DOMAIN sequences', Shown(sequences'[j])
      PROVE  SEQUENCE \in activated'[sequences'[j].column][sequences'[j].slot]
               <=> Lit(sequences'[j], stepNr)
  <2>1. CASE j = i
    BY <1>1, <2>1
  <2>2. CASE j # i
    <3>1. j \in DOMAIN sequences /\ sequences'[j] = sequences[j] /\ sequences[j] \in Sequence
      BY <2>2 DEF SeqIInv, SequencerTypeOK
    <3>2. sequences[j].column \in Columns /\ sequences[j].slot \in Slots
          /\ ~At(sequences[i], sequences[j].column, sequences[j].slot)
      BY <2>2, <3>1 DEF SeqIInv, OneOwner, Sequence
    <3>3. SEQUENCE \in activated[sequences[j].column][sequences[j].slot]
            <=> Lit(sequences[j], stepNr)
      BY <1>1, <3>1 DEF Synced
    <3>4. QED
      BY <3>1, <3>2, <3>3
  <2>3. QED
    BY <2>1, <2>2
<1>2. \A q : (Shown(q)' <=> Shown(q)) /\ (Lit(q, stepNr)' <=> Lit(q, stepNr))
  BY DEF Shown, HasSlot, HasColumn, Lit
<1>3. \A j \in DOMAIN sequences' : /\ Shown(sequences[j])' <=> Shown(sequences'[j])
                                   /\ Lit(sequences[j], stepNr)' <=> Lit(sequences'[j], stepNr)
  BY <1>2 DEF Shown, HasSlot, HasColumn, Lit
<1>4. QED
  BY <1>1, <1>3 DEF Synced

LEMMA ChangeSyncs ==
  ASSUME SeqIInv, Synced, NEW i \in DOMAIN sequences, NEW q \in Sequence,
         q.column = sequences[i].column, q.slot = sequences[i].slot, Change(i, q)
  PROVE  Synced'
<1>1. activated' = Updated({q}, stepNr) /\ UNCHANGED <<nColumns, nSlots, stepNr>>
  BY UpdatedType, HubKeepsTypes DEF SeqIInv, Change
<1>2. /\ DOMAIN sequences' = DOMAIN sequences /\ sequences'[i] = q
      /\ \A j \in DOMAIN sequences \ {i} : sequences'[j] = sequences[j]
  BY DEF Change
<1>3. \A c \in Columns, s \in Slots : ~At(sequences[i], c, s) => activated'[c][s] = activated[c][s]
  BY <1>1, UpdatedOther DEF At
<1>4. Shown(q) => (SEQUENCE \in activated'[q.column][q.slot] <=> Lit(q, stepNr))
  <2>1. q.column \in Columns /\ q.slot \in Slots /\ At(q, q.column, q.slot) /\ q \in {q}
    BY DEF Sequence, At
  <2>2. \A r \in {q} : At(r, q.column, q.slot) => r = q
    OBVIOUS
  <2>3. QED
    BY <1>1, <2>1, <2>2, UpdatedOwned DEF SeqIInv
<1>5. QED
  BY <1>1, <1>2, <1>3, <1>4, OneSlotSyncs

LEMMA PreviewSyncs ==
  ASSUME SeqIInv, Synced, NEW i, NEW on \in BOOLEAN, Preview(i, on)
  PROVE  Synced'
<1> DEFINE q == sequences[i]
<1>1. /\ i \in DOMAIN sequences /\ q \in Sequence /\ UNCHANGED <<nColumns, nSlots, seqVars>>
      /\ activated' = [activated EXCEPT ![q.column][q.slot] =
                         WithFlags(activated[q.column][q.slot], on, {PREVIEW})]
  BY DEF SeqIInv, SequencerTypeOK, Preview, SetSlotActive, SetSlots, layout
<1>2. \A F : SEQUENCE \in WithFlags(F, on, {PREVIEW}) <=> SEQUENCE \in F
  BY DEF WithFlags, SEQUENCE, PREVIEW
<1>3. q.column \in Columns /\ q.slot \in Slots
  BY <1>1 DEF Sequence
<1>4. \A c \in Columns, s \in Slots :
        SEQUENCE \in activated'[c][s] <=> SEQUENCE \in activated[c][s]
  <2> HIDE DEF q
  <2>1. \A c \in Columns, s \in Slots :
          activated'[c][s] = IF c = q.column /\ s = q.slot
                             THEN WithFlags(activated[c][s], on, {PREVIEW})
                             ELSE activated[c][s]
    BY <1>1, <1>3 DEF SeqIInv, TypeOK
  <2>2. QED
    BY <1>2, <2>1
<1>5. UNCHANGED <<sequences, stepNr>>
  BY <1>1 DEF seqVars
<1>6. QED
  BY <1>1, <1>3, <1>4, <1>5, OneSlotSyncs DEF Synced

LEMMA RemoveSyncs ==
  ASSUME SeqIInv, Synced, NEW i, Remove(i)
  PROVE  Synced'
<1> DEFINE q == sequences[i]
           refreshed == Updated({q}, stepNr)
<1>1. i \in DOMAIN sequences /\ q \in Sequence
  BY DEF SeqIInv, SequencerTypeOK, Remove
<1>2. q.column \in Columns /\ q.slot \in Slots
  BY <1>1 DEF Sequence
<1>3. /\ UNCHANGED <<nColumns, nSlots, stepNr>>
      /\ activated' = IF Shown(q) THEN [refreshed EXCEPT ![q.column][q.slot] = @ \ {PREVIEW}]
                      ELSE refreshed
      /\ DOMAIN sequences' = DOMAIN sequences \ {i}
      /\ \A j \in DOMAIN sequences' : sequences'[j] = sequences[j]
  BY DEF Remove, SetSlots, hubUnchanged, layout
<1>4. \A c \in Columns, s \in Slots : ~At(q, c, s) => activated'[c][s] = refreshed[c][s]
  <2>1. refreshed \in Grid
    BY UpdatedType DEF SeqIInv
  <2> HIDE DEF refreshed
  <2>2. QED
    BY <1>2, <1>3, <2>1 DEF At, Grid
<1>5. \A c \in Columns, s \in Slots : ~At(q, c, s) => activated'[c][s] = activated[c][s]
  BY <1>4, UpdatedOther
<1>6. QED
  BY <1>1, <1>3, <1>5, OneSlotSyncs

LEMMA AddSyncs ==
  ASSUME SeqIInv, Synced, EverySequenceFlagHasASequence, stepNr' \in Steps,
         NEW c \in Columns, NEW s \in Slots, Add(c, s)
  PROVE  Synced'
<1> DEFINE n == indexCounter
<1>1. /\ UNCHANGED <<activated, nColumns, nSlots, stepNr>>
      /\ DOMAIN sequences' = DOMAIN sequences \cup {n}
      /\ sequences'[n] = [column |-> c, slot |-> s, enabled |-> TRUE, active |-> {}]
      /\ \A j \in DOMAIN sequences \ {n} : sequences'[j] = sequences[j]
  BY DEF Add, hubVars, layout, state
<1>2. SEQUENCE \notin activated[c][s]
  BY DEF Add, EverySequenceFlagHasASequence, Owners
<1>3. stepNr # -1
  BY <1>1 DEF Steps
<1>4. sequences'[n].column = c /\ sequences'[n].slot = s /\ ~Lit(sequences'[n], stepNr)
  BY <1>1, <1>3 DEF Lit
<1>5. n \notin DOMAIN sequences
  BY DEF SeqIInv, SequencerTypeOK
<1>6. \A j \in DOMAIN sequences' : /\ Shown(sequences[j])' <=> Shown(sequences'[j])
                                   /\ Lit(sequences[j], stepNr)' <=> Lit(sequences'[j], stepNr)
  BY <1>1 DEF Shown, HasSlot, HasColumn, Lit
<1>7. QED
  BY <1>1, <1>2, <1>4, <1>5, <1>6 DEF Synced

(* Buttons and other controllers keep their hands off SEQUENCE.            *)
LEMMA HubAloneSyncs ==
  ASSUME SequenceIsOurs, SeqIInv, Synced, Layout \/ Buttons \/ SlotControl, UNCHANGED seqVars
  PROVE  Synced'
<1>1. ~started \/ UNCHANGED <<nColumns, nSlots>>
  BY DEF Layout, ExpandTo, Start, Buttons, ButtonPressed, ButtonReleased,
         SlotControl, SetSlotActive, layout
<1>2. \A c \in Columns, s \in Slots :
        SEQUENCE \in activated'[c][s] <=> SEQUENCE \in activated[c][s]
  <2>1. CASE Layout
    BY <2>1 DEF Layout, ExpandTo, Start, state
  <2>2. ASSUME NEW c \in Columns, NEW s \in Slots, ButtonPressed(c, s)
        PROVE  \A d \in Columns, t \in Slots :
                 SEQUENCE \in activated'[d][t] <=> SEQUENCE \in activated[d][t]
    <3>1. activated' = [activated EXCEPT ![c] = PressedColumn(c, s)]
      BY <2>2 DEF ButtonPressed
    <3>2. \A t \in Slots : SEQUENCE \in PressedColumn(c, s)[t] <=> SEQUENCE \in activated[c][t]
      BY DEF PressedColumn, PressedFlags, SEQUENCE, DEFAULT, FLASH
    <3>3. QED
      BY <3>1, <3>2 DEF SeqIInv, TypeOK
  <2>3. ASSUME NEW c \in Columns, NEW s \in Slots, ButtonReleased(c, s)
        PROVE  \A d \in Columns, t \in Slots :
                 SEQUENCE \in activated'[d][t] <=> SEQUENCE \in activated[d][t]
    BY <2>3 DEF ButtonReleased, SeqIInv, TypeOK, SEQUENCE, FLASH
  <2>4. ASSUME NEW c \in Columns, NEW s \in Slots, NEW on \in BOOLEAN, NEW f \in SetFlags,
               SetSlotActive(c, s, on, {f})
        PROVE  \A d \in Columns, t \in Slots :
                 SEQUENCE \in activated'[d][t] <=> SEQUENCE \in activated[d][t]
    <3>1. activated' = [activated EXCEPT ![c][s] = WithFlags(activated[c][s], on, {f})]
      BY <2>4 DEF SetSlotActive, SetSlots
    <3>2. SEQUENCE \in WithFlags(activated[c][s], on, {f}) <=> SEQUENCE \in activated[c][s]
      BY <2>4 DEF WithFlags, SequenceIsOurs
    <3>3. QED
      BY <3>1, <3>2 DEF SeqIInv, TypeOK
  <2>5. QED
    BY <2>1, <2>2, <2>3, <2>4 DEF Buttons, SlotControl
<1>3. CASE DOMAIN sequences = {}
  BY <1>3 DEF Synced, seqVars
<1>4. CASE DOMAIN sequences # {}
  <2>1. PICK i \in DOMAIN sequences : TRUE
    BY <1>4
  <2>2. started /\ UNCHANGED <<nColumns, nSlots, sequences, stepNr>>
    BY <1>1, <1>4 DEF SeqIInv, NoneBeforeStart, seqVars
  <2>3. sequences[i].column \in Columns /\ sequences[i].slot \in Slots
    BY DEF SeqIInv, SequencerTypeOK, Sequence
  <2>4. QED
    BY <1>2, <2>1, <2>2, <2>3, OneSlotSyncs DEF Synced
<1>5. QED
  BY <1>3, <1>4

(* No edit, beat, preview or button brings the hub out of step with the    *)
(* sequences, if no flag was left behind and the step is one of the grid   *)
(* (updateHub after every change is enough).                               *)
THEOREM EditsKeepStep == SequenceIsOurs /\ SeqSpec => StaysSynced
<1> DEFINE Inv == SequenceIsOurs /\ SeqIInv
<1>1. SequenceIsOurs /\ SeqInit => Inv
  BY SeqStart
<1>2. Inv /\ [SeqNext]_vars => Inv'
  BY SeqStep DEF SequenceIsOurs
<1>3. ASSUME SequenceIsOurs, SeqIInv, [SeqNext]_vars
      PROVE  [Synced /\ EverySequenceFlagHasASequence /\ stepNr' \in Steps => Synced']_vars
  <2> SUFFICES ASSUME SeqNext, Synced, EverySequenceFlagHasASequence, stepNr' \in Steps
               PROVE  Synced'
    BY <1>3
  <2>1. CASE \E beatNr \in BeatNumbers : OnBeat(beatNr)
    BY <1>3, <2>1, BeatSyncs
  <2>2. CASE Editing
    <3>1. ASSUME NEW i \in Indices, NEW first \in Steps, NEW last \in 0 .. STEPS,
                 NEW on \in BOOLEAN, SetSteps(i, first, last, on)
          PROVE  Synced'
      BY <1>3, <3>1, SetStepsIsChange, ChangeSyncs DEF SeqIInv
    <3>2. ASSUME NEW i \in Indices, NEW on \in BOOLEAN, Enable(i, on)
          PROVE  Synced'
      BY <1>3, <3>2, EnableIsChange, ChangeSyncs DEF SeqIInv
    <3>3. ASSUME NEW p \in Pages, Connect(p) \/ Disconnect(p)
          PROVE  Synced'
      BY <3>3 DEF Connect, Disconnect, hubVars, layout, state, Synced, Shown, HasSlot,
                  HasColumn, Lit
    <3>4. QED
      BY <1>3, <2>2, <3>1, <3>2, <3>3, PreviewSyncs, AddSyncs, RemoveSyncs DEF Editing
  <2>3. CASE (Layout \/ Buttons \/ SlotControl) /\ UNCHANGED seqVars
    BY <1>3, <2>3, HubAloneSyncs
  <2>4. QED
    BY <2>1, <2>2, <2>3 DEF SeqNext
<1>4. QED
  BY <1>1, <1>2, <1>3, PTL DEF SeqSpec, StaysSynced

(* After a beat the hub is in step whatever was left behind before.        *)
THEOREM ABeatRepairs == SeqSpec => BeatRepairs
<1>1. ASSUME SeqIInv, [SeqNext]_vars
      PROVE  [~Synced' => \A beatNr \in BeatNumbers : ~OnBeat(beatNr)]_vars
  BY <1>1, BeatSyncs
<1>2. QED
  BY <1>1, SeqInvariant, PTL DEF SeqSpec, BeatRepairs

=============================================================================
