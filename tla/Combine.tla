------------------------------ MODULE Combine -------------------------------
(***************************************************************************)
(* Several chains that end in the parts of a Combine, and the chain that   *)
(* takes the glued frame on to an output.  The buffer is seen as one       *)
(* region per part (the parts do not overlap): the number of the frame of  *)
(* that part it holds, 0 for the zeros of a fresh Buffer.                  *)
(***************************************************************************)
EXTENDS Integers

CONSTANTS
  Parts,        (* the CombinedInputParts                                  *)
  Sync,         (* those created with sync                                 *)
  Lengths,      (* sizes of frames that the inputs may deliver             *)
  MaxFrames     (* bound on the frames of one input                        *)

CombineAssumption ==
  /\ Sync \subseteq Parts
  /\ Lengths \subseteq Nat \ {0}
  /\ MaxFrames \in Nat

VARIABLES
  length,       (* CombinedInputPart::length                               *)
  dirty,        (* CombinedInputPart::dirty                                *)
  region,       (* what the buffer holds in the place of each part         *)
  sent,         (* number of frames each input has delivered               *)
  emitted,      (* the last frame given to the output                      *)
  used,         (* sent, as it was at the last emission                    *)
  resized       (* the buffer was resized since the last emission          *)

vars == <<length, dirty, region, sent, emitted, used, resized>>

TypeOK ==
  /\ length \in [Parts -> {0} \cup Lengths]
  /\ dirty \in [Parts -> BOOLEAN]
  /\ region \in [Parts -> 0 .. MaxFrames]
  /\ sent \in [Parts -> 0 .. MaxFrames]
  /\ emitted \in [Parts -> 0 .. MaxFrames]
  /\ used \in [Parts -> 0 .. MaxFrames]
  /\ resized \in BOOLEAN

(* A fresh Buffer is zeroed.                                               *)
Blank == [p \in Parts |-> 0]

Init ==
  /\ length = [p \in Parts |-> 0]
  /\ dirty = [p \in Parts |-> FALSE]
  /\ region = Blank
  /\ sent = [p \in Parts |-> 0]
  /\ emitted = [p \in Parts |-> 0]
  /\ used = [p \in Parts |-> 0]
  /\ resized = FALSE

(* Wrong on purpose: copies only a frame of the size it had.               *)
CopiesOnlySameSize(p, len) ==
  /\ ~dirty[p]
  /\ sent[p] < MaxFrames
  /\ sent' = [sent EXCEPT ![p] = @ + 1]
  /\ length' = [length EXCEPT ![p] = len]
  /\ region' = IF len # length[p] THEN region ELSE [region EXCEPT ![p] = sent'[p]]
  /\ resized' = (resized \/ len # length[p])
  /\ dirty' = [dirty EXCEPT ![p] = TRUE]
  /\ UNCHANGED <<emitted, used>>

(* CombinedInputPart::process.  A frame of another size replaces the       *)
(* buffer by a new one first, for all the parts.                           *)
PartProcess(p, len) ==
  /\ ~dirty[p]
  /\ sent[p] < MaxFrames
  /\ sent' = [sent EXCEPT ![p] = @ + 1]
  /\ length' = [length EXCEPT ![p] = len]
  /\ region' = [IF len # length[p] THEN Blank ELSE region EXCEPT ![p] = sent'[p]]
  /\ resized' = (resized \/ len # length[p])
  /\ dirty' = [dirty EXCEPT ![p] = TRUE]
  /\ UNCHANGED <<emitted, used>>

(* Wrong on purpose: one new frame is enough.                              *)
ReadyForAny == \E p \in Sync : dirty[p]

Ready == \A p \in Sync : dirty[p]

(* Combine::process; the chain drops an empty buffer.                      *)
Process ==
  /\ Ready
  /\ dirty' = [p \in Parts |-> FALSE]
  /\ IF \A p \in Parts : length[p] = 0
     THEN UNCHANGED <<emitted, used, resized>>
     ELSE emitted' = region /\ used' = sent /\ resized' = FALSE
  /\ UNCHANGED <<length, region, sent>>

Next ==
  \/ \E p \in Parts, len \in Lengths : PartProcess(p, len)
  \/ Process

Spec == Init /\ [][Next]_vars

-----------------------------------------------------------------------------
(* Properties.                                                             *)

(* A part that is marked as sync takes part with one new frame in every    *)
(* combined frame: none is skipped and none is shown twice, however the    *)
(* inputs are interleaved ("This avoids jitter").                          *)
OneFrameEach ==
  [][used' # used => \A p \in Sync : used'[p] = used[p] + 1]_vars

(* While the inputs keep their sizes, the combined frame holds the newest  *)
(* frame of every part with sync.                                          *)
SteadyFrames ==
  [][used' # used /\ ~resized => \A p \in Sync : emitted'[p] = sent[p]]_vars

(* No part of the buffer ever holds an older frame than the newest one it  *)
(* was sent: a resize blanks it, but brings nothing old back.              *)
NewestOrBlank ==
  \A p \in Parts : region[p] \in {0, sent[p]}

=============================================================================
