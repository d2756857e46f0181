---------------------------- MODULE FrameDelivery ---------------------------
(***************************************************************************)
(* What fanning a stream of frames out to several outputs promises.  A     *)
(* lossless output receives every frame, in order and once; the others may *)
(* skip frames, and what they receive is the newest frame there is.        *)
(***************************************************************************)
EXTENDS Integers

CONSTANTS
  Outputs,
  Lossless      (* the outputs that must not miss a frame                  *)

VARIABLES
  loaded,       (* number of frames loaded so far                          *)
  out           (* per output: the number of the last frame it received    *)

vars == <<loaded, out>>

Init ==
  /\ loaded = 0
  /\ out = [o \in Outputs |-> 0]

(* A new frame replaces the old one only when nobody still needs that.     *)
Load ==
  /\ \A o \in Lossless : out[o] = loaded
  /\ loaded' = loaded + 1
  /\ UNCHANGED out

Deliver(o) ==
  /\ out[o] < loaded
  /\ out' = [out EXCEPT ![o] = loaded]
  /\ UNCHANGED loaded

Next == Load \/ \E o \in Outputs : Deliver(o)

Spec == Init /\ [][Next]_vars

=============================================================================
