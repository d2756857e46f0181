----------------------------- MODULE DmxReceive -----------------------------
(***************************************************************************)
(* DMX on an ESP32, from the wire to the run loop: the UART driver queues  *)
(* data, break and error events, a task fills dmx_data and copies it to    *)
(* dmx_rx_buffer, and DMXInput copies that buffer into a frame.  A byte on *)
(* the wire is <<frame, channel>>, channel 0 being the start code.         *)
(***************************************************************************)
EXTENDS Integers, Sequences

CONSTANTS
  Universe,     (* channels of a full universe, 512 in the code            *)
  MaxFrames,    (* bound on the frames sent                                *)
  QueueLength,  (* bound on the events the driver has queued               *)
  Dark,         (* channels whose value is 0 in every frame                *)
  Errors        (* bound on the reception errors                           *)

DmxAssumption ==
  /\ Universe \in Nat \ {0} /\ MaxFrames \in Nat /\ QueueLength \in Nat \ {0}
  /\ Dark \subseteq 1 .. Universe /\ Errors \in Nat

Cells  == 0 .. Universe
Frames == 0 .. MaxFrames
Byte   == Frames \X (0 .. Universe + 1)
Blank(c) == <<0, c>>

(* The states of the receiving task, and where DMXInput is not copying.    *)
IDLE == "DMX_IDLE"
BREAK == "DMX_BREAK"
DATA == "DMX_DATA"
NotCopying == Universe + 1

VARIABLES
  channels,     (* channels the sender uses, perhaps one too many          *)
  sent, pos,    (* the frame on the wire and the next channel of it        *)
  errors,
  queue,        (* of events: <<"break">>, <<"error">>, or <<"data", bytes>> *)
  state, addr,  (* dmx_state, current_rx_addr                              *)
  data, rx,     (* dmx_data, dmx_rx_buffer                                 *)
  frameCount,
  healthy,      (* a frame began in the last HEALTHY_TIME                  *)
  lastFrame,    (* DMXInput::lastFrameNumber                               *)
  copying,      (* the channel DMXInput copies next                        *)
  got,          (* the frame it has made                                   *)
  cut,          (* history: frames of which an error took something        *)
  late          (* history: frames of which a break threw something away   *)

wireVars  == <<channels, sent, pos, errors>>
taskVars  == <<state, addr, data, rx, frameCount>>
inputVars == <<lastFrame, copying, got>>
lossVars  == <<cut, late>>
vars      == <<wireVars, queue, taskVars, healthy, inputVars, lossVars>>

Events == {<<"break">>, <<"error">>} \cup {<<"data", b>> : b \in UNION {[1 .. n -> Byte] : n \in 1 .. 2}}

TypeOK ==
  /\ channels \in 1 .. Universe + 1 /\ sent \in Frames /\ pos \in 0 .. channels + 1
  /\ errors \in 0 .. Errors
  /\ Len(queue) <= QueueLength /\ \A i \in DOMAIN queue : queue[i] \in Events
  /\ state \in {IDLE, BREAK, DATA} /\ addr \in 0 .. Universe + 1
  /\ data \in [Cells -> Byte] /\ rx \in [Cells -> Byte] /\ got \in [Cells -> Byte]
  /\ frameCount \in Nat /\ healthy \in BOOLEAN /\ cut \subseteq Frames /\ late \subseteq Frames
  /\ lastFrame \in 0 .. frameCount /\ copying \in 1 .. NotCopying

Init ==
  /\ channels \in 1 .. Universe + 1
  /\ sent = 0 /\ pos = channels + 1 /\ errors = 0
  /\ queue = <<>>
  /\ state = IDLE /\ addr = 0 /\ frameCount = 0
  /\ data = [c \in Cells |-> Blank(c)] /\ rx = data /\ got = data
  /\ healthy = TRUE /\ cut = {} /\ late = {}
  /\ lastFrame = 0 /\ copying = NotCopying

-----------------------------------------------------------------------------
(* The sender and the UART driver, which hands over a frame in chunks.     *)

Post(event) == Len(queue) < QueueLength /\ queue' = Append(queue, event)

SendBreak ==
  /\ pos > channels /\ sent < MaxFrames
  /\ sent' = sent + 1 /\ pos' = 0
  /\ Post(<<"break">>)
  /\ UNCHANGED <<channels, errors, taskVars, healthy, inputVars, lossVars>>

SendChunk(n) ==
  /\ sent > 0 /\ pos + n <= channels + 1
  /\ pos' = pos + n
  /\ Post(<<"data", [i \in 1 .. n |-> <<sent, pos + i - 1>>]>>)
  /\ UNCHANGED <<channels, sent, errors, taskVars, healthy, inputVars, lossVars>>

(* A framing or parity error or an overflow takes a byte with it.          *)
Disturb ==
  /\ sent > 0 /\ pos <= channels /\ errors < Errors
  /\ pos' = pos + 1 /\ errors' = errors + 1
  /\ Post(<<"error">>)
  /\ cut' = cut \cup {sent}
  /\ UNCHANGED <<channels, sent, taskVars, healthy, inputVars, late>>

-----------------------------------------------------------------------------
(* uart_event_task.                                                        *)

IsZero(b) == b[2] = 0 \/ b[2] \in Dark

(* Wrong on purpose: a data byte of a broken frame starts one; the buffer  *)
(* is cleared by a break.                                                  *)
AnyByteStarts(bytes) == state # DATA
ClearOnBreak == [c \in Cells |-> Blank(c)]

(* A frame starts when the first byte after a break is zero.               *)
Starts(bytes) == state = BREAK /\ IsZero(bytes[1])

AddressOf(bytes) == IF Starts(bytes) THEN 0 ELSE addr

Fill(bytes) ==
  LET first == AddressOf(bytes)
  IN  [c \in Cells |-> IF c \in first .. first + Len(bytes) - 1
                       THEN bytes[c - first + 1] ELSE data[c]]

EndOfChunk(bytes) ==
  LET last == AddressOf(bytes) + Len(bytes)
  IN  IF last > Universe + 1 THEN Universe + 1 ELSE last

Complete == addr' = Universe + 1

OnData ==
  /\ queue # <<>> /\ queue[1][1] = "data"
  /\ queue' = Tail(queue)
  /\ LET bytes == queue[1][2]
     IN  IF state = DATA \/ Starts(bytes)
         THEN /\ state' = DATA
              /\ data' = Fill(bytes)
              /\ addr' = EndOfChunk(bytes)
              /\ rx' = IF Complete THEN data' ELSE rx
              /\ frameCount' = IF Starts(bytes) THEN frameCount + 1 ELSE frameCount
              /\ healthy' = (healthy \/ Starts(bytes))
         ELSE UNCHANGED <<taskVars, healthy>>
  /\ UNCHANGED <<wireVars, inputVars, lossVars>>

CopyOnBreak == data

(* The frames of the events that wait in the driver, of which the last is  *)
(* of the one on the wire.                                                 *)
Waiting ==
  LET later == Tail(queue)
  IN  IF later = <<>> THEN {}
      ELSE {sent} \cup {later[i][2][1][1] : i \in {j \in DOMAIN later : later[j][1] = "data"}}

(* Whatever waits in the driver is thrown away.                            *)
OnBreak ==
  /\ queue # <<>> /\ queue[1][1] = "break"
  /\ queue' = <<>>
  /\ late' = late \cup Waiting
  /\ rx' = CopyOnBreak
  /\ state' = BREAK
  /\ UNCHANGED <<wireVars, addr, data, frameCount, healthy, inputVars, cut>>

OnError ==
  /\ queue # <<>> /\ queue[1][1] = "error"
  /\ queue' = <<>>
  /\ cut' = cut \cup Waiting
  /\ state' = IDLE
  /\ UNCHANGED <<wireVars, addr, data, rx, frameCount, healthy, inputVars, late>>

-----------------------------------------------------------------------------
(* DMXInput, on the run loop.  Its copy and that of the task may overlap.  *)

Ready == healthy /\ frameCount # lastFrame

Process ==
  /\ copying = NotCopying /\ Ready
  /\ lastFrame' = frameCount
  /\ copying' = 1
  /\ UNCHANGED <<wireVars, queue, taskVars, healthy, got, lossVars>>

CopyChannel ==
  /\ copying # NotCopying
  /\ got' = [got EXCEPT ![copying] = rx[copying]]
  /\ copying' = copying + 1
  /\ UNCHANGED <<wireVars, queue, taskVars, healthy, lastFrame, lossVars>>

(* HEALTHY_TIME passes without the start of a frame.                       *)
Silence ==
  /\ healthy /\ pos > channels /\ queue = <<>>
  /\ healthy' = FALSE
  /\ UNCHANGED <<wireVars, queue, taskVars, inputVars, lossVars>>

-----------------------------------------------------------------------------

Wire == SendBreak \/ (\E n \in 1 .. 2 : SendChunk(n)) \/ Disturb
Task == OnData \/ OnBreak \/ OnError
InputSteps == Process \/ CopyChannel

Next == Wire \/ Task \/ InputSteps \/ Silence

Spec == Init /\ [][Next]_vars

(* The task and the run loop run, and the sender ends what it began.       *)
FairSpec ==
  /\ Spec
  /\ WF_vars(Task) /\ WF_vars(InputSteps)
  /\ WF_vars(\E n \in 1 .. 2 : SendChunk(n))

-----------------------------------------------------------------------------
(* Properties.                                                             *)

Used == {c \in Cells : c \in 1 .. channels}

(* A start code is not taken for a channel or the reverse: wherever chunks *)
(* end, whatever errors take and however copies overlap, the only frames   *)
(* that can be shifted are those of which a break threw something away     *)
(* (the start code went with the queue, and a channel of value 0 came      *)
(* next).                                                                  *)
InPlaceOrLate(b) == \A c \in Cells : b[c][2] = c \/ b[c][1] \in late
Aligned == InPlaceOrLate(rx) /\ InPlaceOrLate(got)

(* No channel ever goes back to an older frame.                            *)
NeverBack == [][\A c \in Used : got'[c][1] >= got[c][1]]_vars

(* The task did not see all of these frames.                               *)
Missed == cut \cup late

(* "dmx_rx_buffer always contains one whole valid dmx frame", for a full   *)
(* universe and for a partial one, unless the task missed some of it: a    *)
(* channel is newer than another one only in a frame that it missed.       *)
WholeOrMissed ==
  \A c, d \in Used : rx[c][1] > rx[d][1] => rx[c][1] \in Missed

(* The frame before the one on the wire gets through, a full universe      *)
(* included, if the task saw it all and that of the one on the wire: it is *)
(* counted when it starts, so its data are taken with the start of the     *)
(* next one.                                                               *)
OneFrameBehind ==
  \A k \in Frames \ {0} :
    sent = k + 1 ~> \/ \A c \in Used : got[c][1] >= k
                    \/ {k, k + 1} \cap Missed # {}
                    \/ ~healthy

=============================================================================
