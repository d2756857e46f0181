------------------------------- MODULE UdpLink -------------------------------
(***************************************************************************)
(* LED data over the network: on the host a chain through Throttle into a  *)
(* UDPOutput, on the hypernode a chain from a UDPInput into a              *)
(* NeopixelOutput.  Both run loops take one turn per tick, in any order,   *)
(* and the time the LEDs need for a frame is a number of ticks.            *)
(***************************************************************************)
EXTENDS Integers, Sequences, FiniteSets, SequencesExt

CONSTANTS
  Second,       (* ticks of a second                                       *)
  ThrottleFps, OutputFps,
  Durations,    (* (dataLength * byteTimeNs + resetTimeNs) in ticks        *)
  Delays,       (* what the network may take for a packet                  *)
  MaxFrames, MaxTime

UdpLinkAssumption ==
  /\ {Second, ThrottleFps, OutputFps} \subseteq Nat \ {0}
  /\ Durations \subseteq Nat \ {0} /\ Delays \subseteq Nat
  /\ MaxFrames \in Nat /\ MaxTime \in Nat

VARIABLES
  now,
  sentAt,       (* when each frame was sent: lastFrame is the last of them *)
  dataLength,   (* duration of the last frame                              *)
  link,         (* packets on their way                                    *)
  queue,        (* packets in the socket of the UDPInput                   *)
  pending,      (* packetBuffer, None when gotFrame is false               *)
  busy,         (* ticks the LEDs still need                               *)
  shown,        (* number of the last frame given to the LEDs              *)
  arrived,      (* history: number of the last packet taken from the socket*)
  thrown,       (* history: a packet was overwritten before it was shown   *)
  hostDone, nodeDone       (* who had its turn in this tick                *)

host == <<sentAt, dataLength>>
node == <<queue, pending, busy, shown, arrived, thrown>>
vars == <<now, host, link, node, hostDone, nodeDone>>

Packet == [frame : 1 .. MaxFrames, duration : Durations]
None   == [frame |-> 0, duration |-> 0]

TypeOK ==
  /\ now \in 0 .. MaxTime
  /\ ToSet(sentAt) \subseteq 0 .. MaxTime /\ Len(sentAt) <= MaxFrames
  /\ dataLength \in Durations \cup {0}
  /\ \A p \in link : p.packet \in Packet /\ p.left \in Nat
  /\ ToSet(queue) \subseteq Packet /\ pending \in Packet \cup {None}
  /\ busy \in Nat
  /\ {shown, arrived} \subseteq 0 .. MaxFrames
  /\ {thrown, hostDone, nodeDone} \subseteq BOOLEAN

Init ==
  /\ now = 0 /\ sentAt = <<>> /\ dataLength = 0
  /\ link = {} /\ queue = <<>> /\ pending = None
  /\ busy = 0 /\ shown = 0 /\ arrived = 0 /\ thrown = FALSE
  /\ hostDone = FALSE /\ nodeDone = FALSE

-----------------------------------------------------------------------------
(* The host.                                                               *)

LastFrame == IF sentAt = <<>> THEN 0 ELSE Last(sentAt)

(* The interval is an integer.                                             *)
FpsReady(fps) == now - LastFrame >= Second \div fps

(* Wrong on purpose: only the frame rate counts.                           *)
AnyLength == TRUE

KbpsReady == now - LastFrame >= dataLength

(* Chain::process: the source may have no frame.  A packet may get lost.   *)
Send(d) ==
  /\ FpsReady(ThrottleFps) /\ KbpsReady /\ FpsReady(OutputFps)
  /\ Len(sentAt) < MaxFrames
  /\ sentAt' = Append(sentAt, now)
  /\ dataLength' = d
  /\ \/ UNCHANGED link
     \/ \E t \in Delays :
          link' = link \cup {[packet |-> [frame |-> Len(sentAt'), duration |-> d], left |-> t]}

HostTurn ==
  /\ ~hostDone /\ hostDone' = TRUE
  /\ UNCHANGED <<host, link>> \/ \E d \in Durations : Send(d)
  /\ UNCHANGED <<now, node, nodeDone>>

-----------------------------------------------------------------------------
(* The network and the hypernode.                                          *)

Arrive(p) ==
  /\ p.left = 0
  /\ link' = link \ {p}
  /\ queue' = Append(queue, p.packet)
  /\ UNCHANGED <<now, host, pending, busy, shown, arrived, thrown, hostDone, nodeDone>>

(* UDPInput::ready drains the socket in every turn and keeps the last.     *)
Drained == IF queue = <<>> THEN pending ELSE Last(queue)

(* process is called, and resets gotFrame, only when the LEDs are ready.   *)
Kept(shows) == IF shows THEN None ELSE Drained

NodeTurn ==
  /\ ~nodeDone /\ nodeDone' = TRUE
  /\ LET shows == Drained # None /\ busy = 0
     IN  /\ pending' = Kept(shows)
         /\ shown' = IF shows THEN Drained.frame ELSE shown
         /\ busy' = IF shows THEN Drained.duration ELSE busy
  /\ queue' = <<>>
  /\ arrived' = IF queue = <<>> THEN arrived ELSE Last(queue).frame
  /\ thrown' = (thrown \/ Len(queue) > (IF pending = None THEN 1 ELSE 0))
  /\ UNCHANGED <<now, host, link, hostDone>>

CountDown(b) == IF b > 0 THEN b - 1 ELSE 0

(* After MaxTime the clock stands still, so that the host sends no more.   *)
Tick ==
  /\ hostDone /\ nodeDone
  /\ \A p \in link : p.left > 0
  /\ now' = IF now < MaxTime THEN now + 1 ELSE now
  /\ link' = {[p EXCEPT !.left = @ - 1] : p \in link}
  /\ busy' = CountDown(busy)
  /\ hostDone' = FALSE /\ nodeDone' = FALSE
  /\ UNCHANGED <<host, queue, pending, shown, arrived, thrown>>

Next == HostTurn \/ NodeTurn \/ Tick \/ \E p \in link : Arrive(p)

Spec == Init /\ [][Next]_vars

(* Time goes on and the run loops have their turns.                        *)
FairSpec == Spec /\ WF_vars(Next)

-----------------------------------------------------------------------------
(* Properties.                                                             *)

(* Every packet takes the same time, and the host lets a tick go by        *)
(* between two frames.                                                     *)
Steady ==
  /\ \A t, u \in Delays : t = u
  /\ (Second \div ThrottleFps >= 2) \/ \A d \in Durations : d >= 2

(* "By Matching the frame rate on host already, no frames will be thrown   *)
(* away on the hypernode".                                                 *)
NoneThrownAway == ~thrown

(* "latency will be shorter": a frame that came waits for the LEDs for a   *)
(* tick at most, however the frames before it differed in length.          *)
ShortWait == pending # None => busy <= 1

=============================================================================
