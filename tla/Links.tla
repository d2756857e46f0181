-------------------------------- MODULE Links -------------------------------
(***************************************************************************)
(* The ways by which frames and messages come and go, side by side: LEDs   *)
(* over the network (udp), an LED strip on an ESP32 (rmt), DMX received on *)
(* an ESP32 (dmxIn) and sent from a computer (dmxOut), the outputs of an   *)
(* ESP32 that a task or the DMA finishes (esp), and serial MIDI (din).     *)
(* One of them is used, the others stay as they were created.              *)
(***************************************************************************)
EXTENDS Integers, Sequences

CONSTANTS
  Second, ThrottleFps, OutputFps, Durations, Delays, UdpFrames, UdpTime,
  Strips, Lengths, MaxLate,
  Universe, DmxInFrames, QueueLength, Dark, Errors,
  Outputs, MinChannels, TrailingChannels, DmxOutFrames,
  EspChannels, EspFrames,
  Address, Device, Known, Data, TooHigh, Unset

VARIABLES
  link,         (* the one that is used                                    *)
  now, sentAt, dataLength, packets, socket, pending, ledsBusy, shown, arrived,
  thrown, hostDone, nodeDone,
  mem, active, frame, length, position, ptr, running, out, next, done,
  channels, sent, pos, errors, events, state, addr, data, rx, frameCount,
  healthy, lastFrame, copying, got, cut, late,
  opened, fullframe, number, back, front, busy, txSize, nextOut, last, line,
  failed, written, size,
  bus, espFull, at, given, nth, values, espSize, dirty, sending, rested, task,
  channel, lastChannel, valuesBuf, lights, gaveUp, wrote, used,
  plugged, saying, said, whole, place, message, connected, sense, registered,
  early, own, event

udpVars == <<now, sentAt, dataLength, packets, socket, pending, ledsBusy, shown,
             arrived, thrown, hostDone, nodeDone>>
rmtVars == <<mem, active, frame, length, position, ptr, running, out, next, done>>
dmxInVars == <<channels, sent, pos, errors, events, state, addr, data, rx, frameCount,
               healthy, lastFrame, copying, got, cut, late>>
dmxOutVars == <<opened, fullframe, number, back, front, busy, txSize, nextOut, last,
                line, failed, written, size>>
espVars == <<bus, espFull, at, given, nth, values, espSize, dirty, sending, rested, task,
             channel, lastChannel, valuesBuf, lights, gaveUp, wrote, used>>
dinVars == <<plugged, saying, said, whole, place, message, connected, sense,
             registered, early, own, event>>
vars == <<link, udpVars, rmtVars, dmxInVars, dmxOutVars, espVars, dinVars>>

Udp == INSTANCE UdpLink
         WITH MaxFrames <- UdpFrames, MaxTime <- UdpTime,
              link <- packets, queue <- socket, busy <- ledsBusy
Rmt == INSTANCE RmtSend WITH Channels <- Strips
DmxIn == INSTANCE DmxReceive WITH MaxFrames <- DmxInFrames, queue <- events
DmxOut == INSTANCE DmxSend
            WITH MaxFrames <- DmxOutFrames, frame <- number, next <- nextOut
Esp == INSTANCE EspSend
         WITH Universe <- EspChannels, MaxFrames <- EspFrames,
              fullframe <- espFull, length <- given, number <- nth,
              back <- values, txSize <- espSize, busy <- sending,
              place <- channel, last <- lastChannel, front <- valuesBuf,
              line <- lights, failed <- gaveUp, written <- wrote, size <- used
Din == INSTANCE DinMidi WITH arrived <- whole, position <- place

ASSUME LinksAssumption ==
  /\ Udp!UdpLinkAssumption /\ Rmt!RmtAssumption
  /\ DmxIn!DmxAssumption /\ DmxOut!DmxSendAssumption
  /\ Esp!EspSendAssumption /\ Din!DinAssumption

Init ==
  /\ link \in {"udp", "rmt", "dmxIn", "dmxOut", "esp", "din"}
  /\ Udp!Init /\ Rmt!Init /\ DmxIn!Init /\ DmxOut!Init /\ Esp!Init /\ Din!Init
  /\ link # "dmxIn" => channels = 1
  /\ link # "dmxOut" => ~opened /\ ~fullframe
  /\ link # "esp" => bus = "pwm" /\ ~espFull
  /\ link # "din" => ~plugged

InUdp ==
  link = "udp" /\ UNCHANGED <<link, rmtVars, dmxInVars, dmxOutVars, espVars, dinVars>>
InRmt ==
  link = "rmt" /\ UNCHANGED <<link, udpVars, dmxInVars, dmxOutVars, espVars, dinVars>>
InDmxIn ==
  link = "dmxIn" /\ UNCHANGED <<link, udpVars, rmtVars, dmxOutVars, espVars, dinVars>>
InDmxOut ==
  link = "dmxOut" /\ UNCHANGED <<link, udpVars, rmtVars, dmxInVars, espVars, dinVars>>
InEsp ==
  link = "esp" /\ UNCHANGED <<link, udpVars, rmtVars, dmxInVars, dmxOutVars, dinVars>>
InDin ==
  link = "din" /\ UNCHANGED <<link, udpVars, rmtVars, dmxInVars, dmxOutVars, espVars>>

Next ==
  \/ InUdp /\ Udp!Next
  \/ InRmt /\ Rmt!Next
  \/ InDmxIn /\ DmxIn!Next
  \/ InDmxOut /\ DmxOut!Next
  \/ InEsp /\ Esp!Next
  \/ InDin /\ Din!Next

(* What the specifications of the links take for granted: a task or a      *)
(* thread that has work does it, and the hardware does not stop.           *)
Background ==
  \/ InDmxIn /\ DmxIn!Task
  \/ InDmxOut /\ (DmxOut!SendByte \/ \E ok \in BOOLEAN : DmxOut!Finish(ok))
  \/ InEsp /\ Esp!Sending
  \/ InDin /\ Din!Silence

OtherSide ==
  \/ InDmxIn /\ DmxIn!InputSteps
  \/ InEsp /\ Esp!Loop

Spec ==
  /\ Init /\ [][Next]_vars
  /\ WF_vars(Background)
  /\ \A c \in Strips : WF_vars(InRmt /\ Rmt!Work(c))
  /\ WF_vars(OtherSide)
  /\ WF_vars(InDmxIn /\ \E n \in 1 .. 2 : DmxIn!SendChunk(n))

-----------------------------------------------------------------------------
(* Properties.                                                             *)

(* The types; a frame that is received over DMX is shifted only if a break *)
(* threw some of it away, and mixed with an older one only if the task did *)
(* not see it all; a line that has ended without an error holds what was   *)
(* written last, on an ESP32 too, where no frame of the PWM chip or of SPI *)
(* is made of two; a packet that came waits for a tick at most; the serial *)
(* port keeps what it made, one clock twice at most, and serves whoever    *)
(* registered while the sender is heard.                                   *)
LinksInv ==
  /\ link = "udp" => Udp!TypeOK /\ Udp!ShortWait
  /\ link = "rmt" => Rmt!TypeOK
  /\ link = "dmxIn" => DmxIn!TypeOK /\ DmxIn!Aligned /\ DmxIn!WholeOrMissed
  /\ link = "dmxOut" => DmxOut!TypeOK /\ DmxOut!NewestOnLine
  /\ link = "esp" => Esp!TypeOK /\ Esp!NewestWhenDone /\ Esp!NoneTorn
  /\ link = "din" => Din!TypeOK /\ Din!OneClock /\ Din!ServedWhileHeard

(* "By Matching the frame rate on host already, no frames will be thrown   *)
(* away on the hypernode" (throttle.hpp), when every packet takes the same *)
(* time.                                                                   *)
NoneThrownAway == Udp!NoneThrownAway

(* A strip gets the bytes of its frame, in order and none twice, and stops *)
(* after the last: no byte is overwritten before it is sent, none of an    *)
(* older frame is left, with late interrupts and whatever the neighbour    *)
(* sends, for lengths whose end marks fit in the block (fillNext).         *)
SendsItsFrame == Rmt!SendsItsFrame

(* No channel that DMXInput gives to its chain ever goes back to an older  *)
(* frame, with copies that overlap and bytes that errors took.             *)
NeverBack == DmxIn!NeverBack

(* The listeners of the serial port hear a message exactly when its last   *)
(* byte came after all the others, with realtime bytes anywhere in it and  *)
(* whatever was lost before it; they hear no message that was not sent.    *)
HeardAsSent == Din!HeardAsSent

(* What was begun ends: a strip gets ready for its next frame, a DMX frame *)
(* that the task saw gets through when the next one is on the wire, a DMX  *)
(* port or a PWM chip gets free after errors too and an SPI bus unless its *)
(* driver refused a transaction, and a sender that is pulled out is        *)
(* forgotten.                                                              *)
EveryLinkGoesOn ==
  /\ Rmt!GetsReady
  /\ DmxIn!OneFrameBehind
  /\ DmxOut!PortGetsFree /\ Esp!GetsReady
  /\ Din!PulledIsForgotten

=============================================================================
