------------------------------- MODULE Slicer -------------------------------
(***************************************************************************)
(* A source chain that ends in a Slicer, one chain per slice that takes    *)
(* its part of the slicer's buffer to an output, and the run loop of       *)
(* Hyperion that gives every chain its turn.  All of it runs on one        *)
(* thread.  Frames are numbered in the order in which the slicer loads     *)
(* them, and a slice of frame n is n.                                      *)
(***************************************************************************)
EXTENDS Integers, Sequences

CONSTANTS
  Slices,       (* the slices of the slicer                                *)
  Sync,         (* those with Slice::sync                                  *)
  Source,       (* the name of the chain that feeds the slicer             *)
  Order,        (* the chains in the order main() created them             *)
  MaxFrames     (* bound on the number of frames                           *)

ASSUME SlicerAssumption ==
  /\ Sync \subseteq Slices
  /\ Source \notin Slices
  /\ Order \in Seq(Slices \cup {Source})
  /\ Len(Order) > 0
  /\ MaxFrames \in Nat

VARIABLES
  turn,         (* position of the run loop in Hyperion::chains            *)
  sourceReady,  (* source->ready()                                         *)
  buffer,       (* the frame in the slicer's buffer, 0 before the first    *)
  frameReady,   (* BufferInput::frameReady of each slice                   *)
  busy,         (* the output of the slice is not ready                    *)
  out           (* the last frame each output was given                    *)

vars == <<turn, sourceReady, buffer, frameReady, busy, out>>

TypeOK ==
  /\ turn \in 1 .. Len(Order)
  /\ sourceReady \in BOOLEAN
  /\ buffer \in 0 .. MaxFrames
  /\ frameReady \in [Slices -> BOOLEAN]
  /\ busy \in [Slices -> BOOLEAN]
  /\ out \in [Slices -> 0 .. MaxFrames]

Init ==
  /\ turn = 1
  /\ sourceReady = FALSE
  /\ buffer = 0
  /\ frameReady = [s \in Slices |-> FALSE]
  /\ busy = [s \in Slices |-> FALSE]
  /\ out = [s \in Slices |-> 0]

-----------------------------------------------------------------------------

(* Wrong on purpose: waits for one of the slices; for all of them, those   *)
(* without sync included.                                                  *)
WaitsForAny == \E s \in Sync : ~frameReady[s]
WaitsForAll == \A s \in Slices : ~frameReady[s]

(* Slicer::ready: no slice marked as sync still has a frame to send.       *)
SlicerReady == \A s \in Sync : ~frameReady[s]

CanLoad == sourceReady /\ SlicerReady /\ buffer < MaxFrames

(* Slicer::process: copy the frame, wake every slice.                      *)
LoadFrame ==
  /\ CanLoad
  /\ buffer' = buffer + 1
  /\ frameReady' = [s \in Slices |-> TRUE]
  /\ sourceReady' = FALSE
  /\ UNCHANGED <<busy, out>>

CanSend(s) == frameReady[s] /\ ~busy[s]

(* BufferInput::process into an output that is ready.                      *)
SendSlice(s) ==
  /\ CanSend(s)
  /\ frameReady' = [frameReady EXCEPT ![s] = FALSE]
  /\ out' = [out EXCEPT ![s] = buffer]
  /\ busy' = [busy EXCEPT ![s] = TRUE]
  /\ UNCHANGED <<sourceReady, buffer>>

(* Chain::process: nothing happens when an element is not ready.           *)
Idle(c) ==
  /\ IF c = Source THEN ~CanLoad ELSE ~CanSend(c)
  /\ UNCHANGED <<sourceReady, buffer, frameReady, busy, out>>

ProcessChain(c) ==
  \/ c = Source /\ LoadFrame
  \/ c # Source /\ SendSlice(c)
  \/ Idle(c)

RunLoop ==
  /\ ProcessChain(Order[turn])
  /\ turn' = IF turn = Len(Order) THEN 1 ELSE turn + 1

(* The input has a new frame: a packet arrived, or the input computes its  *)
(* frames on demand.                                                       *)
SourceArrives ==
  /\ ~sourceReady
  /\ sourceReady' = TRUE
  /\ UNCHANGED <<turn, buffer, frameReady, busy, out>>

(* The frame interval of an output elapsed, or its transmission is done.   *)
OutputReady(s) ==
  /\ busy[s]
  /\ busy' = [busy EXCEPT ![s] = FALSE]
  /\ UNCHANGED <<turn, sourceReady, buffer, frameReady, out>>

Next ==
  \/ RunLoop
  \/ SourceArrives
  \/ \E s \in Slices : OutputReady(s)

Spec == Init /\ [][Next]_vars

(* The run loop never stops; inputs keep coming; the outputs that are      *)
(* waited for come back.  Outputs without sync may hang for ever.          *)
FairSpec ==
  /\ Spec
  /\ WF_vars(RunLoop)
  /\ WF_vars(SourceArrives)
  /\ \A s \in Sync : WF_vars(OutputReady(s))

-----------------------------------------------------------------------------
(* Properties.                                                             *)

(* The slices behave as the fan-out promises: with sync, no frame is       *)
(* skipped or sent twice; without, the newest frame is sent.               *)
Delivery == INSTANCE FrameDelivery
              WITH Outputs <- Slices, Lossless <- Sync, loaded <- buffer, out <- out

DeliverySpec == Delivery!Spec

(* A slice has a frame to send exactly when its output is behind.          *)
ReadyMeansBehind ==
  \A s \in Slices :
    /\ out[s] <= buffer
    /\ frameReady[s] <=> out[s] < buffer

(* An output that is waited for gets every frame that was loaded.          *)
SyncGetsEveryFrame ==
  \A s \in Sync, n \in 1 .. MaxFrames : (buffer = n) ~> (out[s] = n)

=============================================================================
