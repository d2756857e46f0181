------------------------------ MODULE DmxSend ------------------------------
(***************************************************************************)
(* The DMXOutputs of one port of the unix build: write() fills the back    *)
(* buffer, show() swaps the buffers and starts a thread that transmits the *)
(* front buffer byte by byte while the run loop goes on.  A value is       *)
(* <<output, frame>>, and what matters of a frame is its length.           *)
(***************************************************************************)
EXTENDS Integers

CONSTANTS
  Universe,     (* channels of a full frame, 512 in the code               *)
  Outputs,      (* DMXOutputs of this port                                 *)
  MinChannels, TrailingChannels,        (* of setUniverseSize              *)
  MaxFrames     (* bound on the frames of an output                        *)

DmxSendAssumption ==
  /\ Universe \in Nat \ {0} /\ MaxFrames \in Nat
  /\ MinChannels \in Nat /\ TrailingChannels \in Nat

Channels == 1 .. Universe
Value    == [from : Outputs \cup {"nobody"}, frame : 0 .. MaxFrames]
Silent   == [c \in Channels |-> [from |-> "nobody", frame |-> 0]]

Less(a, b) == IF a < b THEN a ELSE b
More(a, b) == IF a < b THEN b ELSE a

VARIABLES
  opened, fullframe,    (* the port could be opened; sendFullFrame         *)
  frame,        (* per output: the number of its last frame                *)
  back, front, busy, txSize,
  next, last,   (* the thread: the channel it sends next, and its last one *)
  line,         (* what the fixtures hold, per channel                     *)
  failed,       (* the last transmission failed                            *)
  written, size (* history: the last value written to each channel, and    *)
                (* the channels of the last frame                          *)

threadVars == <<next, last, line, failed>>
vars == <<opened, fullframe, frame, back, front, busy, txSize, threadVars, written, size>>

TypeOK ==
  /\ {opened, fullframe, busy, failed} \subseteq BOOLEAN
  /\ frame \in [Outputs -> 0 .. MaxFrames]
  /\ {back, front, line, written} \subseteq [Channels -> Value]
  /\ txSize \in 0 .. Universe + 1 /\ size \in 0 .. Universe
  /\ last \in 0 .. Universe /\ next \in 1 .. last + 1

Init ==
  /\ opened \in BOOLEAN /\ fullframe \in BOOLEAN
  /\ frame = [o \in Outputs |-> 0]
  /\ back = Silent /\ front = Silent /\ busy = FALSE /\ txSize = 0
  /\ next = 1 /\ last = 0 /\ line = Silent /\ failed = FALSE
  /\ written = Silent /\ size = 0

-----------------------------------------------------------------------------

Ready == opened /\ ~busy

(* write() from channel 1 with n bytes, of which at most Universe fit.     *)
Copied(n) == Less(n, Universe)

Write(o, n) ==
  [c \in Channels |-> IF c <= Copied(n)
                      THEN [from |-> o, frame |-> frame[o] + 1] ELSE back[c]]

(* The channels that transmit() sends for a value of tx_size, which counts *)
(* the start code.                                                         *)
Length(tx) ==
  IF fullframe THEN Universe
  ELSE Less(More(MinChannels, tx + TrailingChannels), Universe)

(* After the swap the front buffer is copied, so that write() adds to it.  *)
NewBack(new) == new

(* show() returns when the previous frame is still transmitted.            *)
StillSending == busy

(* DMXOutput::process: write and show, which starts the thread.            *)
Process(o, n) ==
  /\ Ready /\ frame[o] < MaxFrames
  /\ frame' = [frame EXCEPT ![o] = @ + 1]
  /\ txSize' = More(txSize, 1 + Copied(n))
  /\ IF StillSending
     THEN back' = Write(o, n) /\ UNCHANGED <<busy, front, threadVars>>
     ELSE /\ busy' = TRUE
          /\ front' = Write(o, n)
          /\ back' = NewBack(front')
          /\ next' = 1 /\ last' = Length(txSize')
          /\ UNCHANGED <<line, failed>>
  /\ written' = [c \in Channels |-> IF c <= Copied(n) THEN Write(o, n)[c] ELSE written[c]]
  /\ size' = Copied(n)
  /\ UNCHANGED <<opened, fullframe>>

SendByte ==
  /\ next <= last
  /\ line' = [line EXCEPT ![next] = front[next]]
  /\ next' = next + 1
  /\ UNCHANGED <<opened, fullframe, frame, back, front, busy, txSize, last, failed, written, size>>

BusyAfter(ok) == FALSE

(* sendDmxFrame returned, true or false: transmit does not ask.            *)
Finish(ok) ==
  /\ last > 0 /\ (ok => next > last)
  /\ failed' = ~ok
  /\ txSize' = 0
  /\ busy' = BusyAfter(ok)
  /\ next' = 1 /\ last' = 0
  /\ UNCHANGED <<opened, fullframe, frame, back, front, line, written, size>>

Next ==
  \/ \E o \in Outputs, n \in 1 .. Universe + 1 : Process(o, n)
  \/ SendByte
  \/ \E ok \in BOOLEAN : Finish(ok)

Spec == Init /\ [][Next]_vars

FairSpec == Spec /\ WF_vars(SendByte \/ \E ok \in BOOLEAN : Finish(ok))

-----------------------------------------------------------------------------
(* Properties.                                                             *)

(* When a transmission has ended without an error the fixtures hold what   *)
(* was written last: all of it for a full frame, at least the channels of  *)
(* the last frame for a short one (write, show, transmit).                 *)
NewestOnLine ==
  ~busy /\ ~failed =>
    \A c \in Channels : fullframe \/ c <= size => line[c] = written[c]

(* The port gets free again, errors included.                              *)
PortGetsFree == busy ~> ~busy

=============================================================================
