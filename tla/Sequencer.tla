----------------------------- MODULE Sequencer ------------------------------
(***************************************************************************)
(* The step sequencer on top of the control hub.  A sequence belongs to a  *)
(* slot and says on which of the STEPS steps the slot carries the SEQUENCE *)
(* flag.  Tempo::BroadcastBeat calls OnBeat; the web page adds, edits,     *)
(* previews, enables and removes sequences over a websocket and shows what *)
(* it was sent.  Each call runs to its end before the next one.            *)
(***************************************************************************)
EXTENDS ControlHub

CONSTANTS
  STEPS,        (* steps of a sequence: 64 in the code                     *)
  MaxIndex,     (* bound on indexCounter                                   *)
  BeatNumbers,  (* what OnBeat may be called with                          *)
  Pages         (* browsers that may open the sequencer                    *)

Steps   == 0 .. STEPS - 1
Indices == 0 .. MaxIndex - 1

ASSUME SequencerAssumption ==
  /\ STEPS \in Nat \ {0, 1}
  /\ MaxIndex \in Nat
  /\ BeatNumbers \subseteq {-1} \cup Nat

VARIABLES
  sequences,     (* the sequences vector, by Sequence::index               *)
  indexCounter,  (* next index                                             *)
  stepNr,
  connected,     (* pages with an open socket                              *)
  rows           (* per page: the rows it shows, by index                  *)

seqVars == <<sequences, indexCounter, stepNr, connected, rows>>
vars    == <<hubVars, seqVars>>

Sequence == [column : Columns, slot : Slots, enabled : BOOLEAN, active : SUBSET Steps]
Row      == [enabled : BOOLEAN, active : SUBSET Steps]

SequencerTypeOK ==
  /\ indexCounter \in 0 .. MaxIndex
  /\ DOMAIN sequences \subseteq 0 .. indexCounter - 1
  /\ \A i \in DOMAIN sequences : sequences[i] \in Sequence
  /\ stepNr \in {-1} \cup Steps
  /\ connected \subseteq Pages
  /\ DOMAIN rows = Pages
  /\ \A p \in Pages :
       /\ DOMAIN rows[p] \subseteq 0 .. indexCounter - 1
       /\ \A i \in DOMAIN rows[p] : rows[p][i] \in Row

SeqInit ==
  /\ Init
  /\ sequences = <<>>
  /\ indexCounter = 0
  /\ stepNr = 0
  /\ connected = {}
  /\ rows = [p \in Pages |-> <<>>]

-----------------------------------------------------------------------------

At(q, c, s) == q.column = c /\ q.slot = s

Shown(q) == HasSlot(q.column, q.slot)

(* enabled && active[stepNr].  active is the last member of Sequence, so   *)
(* active[-1] is the byte before it, which is enabled itself.              *)
Lit(q, step) == q.enabled /\ (step \in q.active \/ step = -1)

(* The remainder of C++: -1 stays -1.                                      *)
StepOf(beatNr) == IF beatNr < 0 THEN beatNr ELSE beatNr % STEPS

(* activated after updateHub of the sequences qs at a step.                *)
Updated(qs, step) ==
  [c \in Columns |-> [s \in Slots |->
     LET here == {q \in qs : At(q, c, s) /\ Shown(q)}
     IN  IF here = {} THEN activated[c][s]
         ELSE WithFlags(activated[c][s], \E q \in here : Lit(q, step), {SEQUENCE})]]

hubUnchanged ==
  UNCHANGED <<started, layout, dim, masterDim, params, inputs, subscribed,
              seenDim, seenMaster, seenParam, seenMask>>

RowOf(q) == [enabled |-> q.enabled, active |-> q.active]

(* Wrong on purpose: sends the contents from before the change.            *)
SendOldStatus(i, q) ==
  rows' = [p \in Pages |->
             [j \in DOMAIN rows[p] |->
                IF p \in connected /\ j = i THEN RowOf(sequences[i]) ELSE rows[p][j]]]

(* Pages that show row i get its new contents (sendSequenceStatus).        *)
SendStatus(i, q) ==
  rows' = [p \in Pages |->
             [j \in DOMAIN rows[p] |->
                IF p \in connected /\ j = i THEN RowOf(q) ELSE rows[p][j]]]

(* A details message makes a fresh row without steps; there is none for a  *)
(* sequence whose slot does not exist (sendSequenceDetails).               *)
SendDetails(i, q) ==
  rows' = [p \in Pages |->
             IF p \in connected /\ Shown(q)
             THEN [j \in DOMAIN rows[p] \cup {i} |->
                     IF j = i THEN [enabled |-> q.enabled, active |-> {}] ELSE rows[p][j]]
             ELSE rows[p]]

-----------------------------------------------------------------------------

(* Wrong on purpose: the hub is updated before the step is.                *)
OnBeatTooEarly(beatNr) ==
  /\ stepNr' = StepOf(beatNr)
  /\ SetSlots(Updated({sequences[i] : i \in DOMAIN sequences}, stepNr))
  /\ hubUnchanged
  /\ UNCHANGED <<sequences, indexCounter, connected, rows>>

OnBeat(beatNr) ==
  /\ stepNr' = StepOf(beatNr)
  /\ SetSlots(Updated({sequences[i] : i \in DOMAIN sequences}, stepNr'))
  /\ hubUnchanged
  /\ UNCHANGED <<sequences, indexCounter, connected, rows>>

(* Wrong on purpose: the change waits for the next beat to reach the hub.  *)
ChangeWithoutHub(i, q) ==
  /\ sequences' = [sequences EXCEPT ![i] = q]
  /\ SendStatus(i, q)
  /\ UNCHANGED <<hubVars, indexCounter, stepNr, connected>>

(* The new contents of sequence i, shown to the pages and put into effect. *)
Change(i, q) ==
  /\ sequences' = [sequences EXCEPT ![i] = q]
  /\ SetSlots(Updated({q}, stepNr))
  /\ SendStatus(i, q)
  /\ hubUnchanged
  /\ UNCHANGED <<indexCounter, stepNr, connected>>

SetSteps(i, first, last, on) ==
  /\ i \in DOMAIN sequences
  /\ LET range == (first .. last) \cap Steps
     IN  Change(i, [sequences[i] EXCEPT !.active = WithFlags(@, on, range)])

Enable(i, on) ==
  /\ i \in DOMAIN sequences
  /\ Change(i, [sequences[i] EXCEPT !.enabled = on])

Preview(i, on) ==
  /\ i \in DOMAIN sequences
  /\ SetSlotActive(sequences[i].column, sequences[i].slot, on, {PREVIEW})
  /\ UNCHANGED seqVars

Add(c, s) ==
  /\ indexCounter < MaxIndex
  /\ \A i \in DOMAIN sequences : ~At(sequences[i], c, s)
  /\ LET q == [column |-> c, slot |-> s, enabled |-> TRUE, active |-> {}]
     IN  /\ sequences' = [i \in DOMAIN sequences \cup {indexCounter} |->
                            IF i = indexCounter THEN q ELSE sequences[i]]
         /\ SendDetails(indexCounter, q)
  /\ indexCounter' = indexCounter + 1
  /\ UNCHANGED <<hubVars, stepNr, connected>>

(* PREVIEW is cleared, SEQUENCE is refreshed one last time and the         *)
(* sequence is forgotten.                                                  *)
Remove(i) ==
  /\ i \in DOMAIN sequences
  /\ LET q == sequences[i]
         refreshed == Updated({q}, stepNr)
     IN  SetSlots(IF Shown(q)
                  THEN [refreshed EXCEPT ![q.column][q.slot] = @ \ {PREVIEW}]
                  ELSE refreshed)
  /\ sequences' = [j \in DOMAIN sequences \ {i} |-> sequences[j]]
  /\ rows' = [p \in Pages |->
                IF p \in connected THEN [j \in DOMAIN rows[p] \ {i} |-> rows[p][j]]
                ELSE rows[p]]
  /\ hubUnchanged
  /\ UNCHANGED <<indexCounter, stepNr, connected>>

(* A page connects (or reconnects, with the rows it still shows): every    *)
(* open page is sent everything (connectionHandler, sendFullStatus).       *)
Connect(p) ==
  /\ connected' = connected \cup {p}
  /\ LET sent == {i \in DOMAIN sequences : Shown(sequences[i])}
     IN  rows' = [r \in Pages |->
                    IF r \in connected'
                    THEN [i \in DOMAIN rows[r] \cup sent |->
                            IF i \in DOMAIN sequences THEN RowOf(sequences[i]) ELSE rows[r][i]]
                    ELSE rows[r]]
  /\ UNCHANGED <<hubVars, sequences, indexCounter, stepNr>>

Disconnect(p) ==
  /\ p \in connected
  /\ connected' = connected \ {p}
  /\ UNCHANGED <<hubVars, sequences, indexCounter, stepNr, rows>>

Editing ==
  \/ \E i \in Indices, first \in Steps, last \in 0 .. STEPS, on \in BOOLEAN :
       SetSteps(i, first, last, on)
  \/ \E i \in Indices, on \in BOOLEAN : Enable(i, on)
  \/ \E i \in Indices, on \in BOOLEAN : Preview(i, on)
  \/ \E c \in Columns, s \in Slots : Add(c, s)
  \/ \E i \in Indices : Remove(i)
  \/ \E p \in Pages : Connect(p)
  \/ \E p \in Pages : Disconnect(p)

Layout ==
  \/ \E c \in Columns, s \in Slots : ExpandTo(c, s, FALSE)
  \/ Start

(* Sequencer is created by start().                                        *)
SeqNext ==
  \/ started /\ \E beatNr \in BeatNumbers : OnBeat(beatNr)
  \/ started /\ Editing
  \/ (Layout \/ Buttons \/ SlotControl) /\ UNCHANGED seqVars

SeqSpec == SeqInit /\ [][SeqNext]_vars

-----------------------------------------------------------------------------
(* Properties.                                                             *)

Owners(c, s) == {i \in DOMAIN sequences : At(sequences[i], c, s)}

Synced ==
  \A i \in DOMAIN sequences :
    LET q == sequences[i]
    IN  Shown(q) => (SEQUENCE \in activated[q.column][q.slot] <=> Lit(q, stepNr))

(* The flags tell why a slot is active (controlHubInput.hpp: "the          *)
(* controlhub passes active flags to tell the reason the pattern is        *)
(* active"): a slot that is active for SEQUENCE has a sequence.            *)
EverySequenceFlagHasASequence ==
  \A c \in Columns, s \in Slots : SEQUENCE \in activated[c][s] => Owners(c, s) # {}

(* No edit, beat, preview or button brings the hub out of step with the    *)
(* sequences, as long as no flag was left behind by a removed sequence and *)
(* the step is one of the grid: updateHub after every change is enough,    *)
(* and no two sequences fight for a slot.                                  *)
StaysSynced ==
  [][Synced /\ EverySequenceFlagHasASequence /\ stepNr' \in Steps => Synced']_vars

(* After a beat the hub is in step whatever was left behind before, except *)
(* on slots that no sequence owns any more.                                *)
BeatRepairs ==
  [][~Synced' => \A beatNr \in BeatNumbers : ~OnBeat(beatNr)]_vars

(* The types; a page with an open socket has a row for every sequence      *)
(* whose slot exists, and the row shows the sequence as it is now, through *)
(* adds, edits, removals, reconnects and other pages.                      *)
SequencerInv ==
  /\ TypeOK /\ SequencerTypeOK
  /\ \A p \in connected : \A i \in DOMAIN sequences :
       /\ Shown(sequences[i]) => i \in DOMAIN rows[p]
       /\ i \in DOMAIN rows[p] => rows[p][i] = RowOf(sequences[i])

=============================================================================
