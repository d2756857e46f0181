------------------------------ MODULE EspSend ------------------------------
(***************************************************************************)
(* Outputs of the ESP32 build that another task or the hardware finishes:  *)
(* DMX and the PWM chip wait for a semaphore, copy what the output wrote   *)
(* and send the copy; SPI sends from the buffer of the output, by DMA.     *)
(* The run loop goes on in the meantime, between any two of their steps.   *)
(* The value of a channel is the number of the frame that wrote it.        *)
(***************************************************************************)
EXTENDS Integers

CONSTANTS
  Universe,     (* channels of the buffers                                 *)
  MinChannels, TrailingChannels,        (* of setUniverseSize              *)
  MaxFrames     (* bound on the frames of the chain                        *)

EspSendAssumption ==
  /\ Universe \in Nat \ {0} /\ MaxFrames \in Nat
  /\ MinChannels \in Nat /\ TrailingChannels \in Nat

Channels == 1 .. Universe

VARIABLES
  bus,          (* "dmx", "pwm" or "spi"                                   *)
  fullframe,    (* sendFullFrame of the DMX port                           *)
  at, length,   (* the run loop in process(), and the frame it is given    *)
  number,       (* frames so far                                           *)
  back,         (* what the output writes: dmx_tx_buffer, values, buffer   *)
  txSize, dirty,        (* dirty: the semaphore                            *)
  busy,         (* tx_busy, busy; for SPI: not sendFinished                *)
  rested,       (* SPI: 1000 us have passed since sendFinishedAt           *)
  task, place, last,    (* the sending task or the DMA, and its channels   *)
  front,        (* dmx_tx_frontbuffer, valuesBuf                           *)
  line, failed, (* what the lights hold; the last transfer failed, for SPI *)
                (* before it began                                         *)
  written, size (* history: what was written to each channel last, and the *)
                (* channels of the last frame                              *)

taskVars == <<task, place, last, front, line, failed>>
vars == <<bus, fullframe, at, length, number, back, txSize, dirty, busy, rested,
          taskVars, written, size>>

Unlit == [c \in Channels |-> 0]

TypeOK ==
  /\ bus \in {"dmx", "pwm", "spi"}
  /\ {fullframe, dirty, busy, rested, failed} \subseteq BOOLEAN
  /\ at \in {"idle", "write", "show", "give"} /\ length \in Channels
  /\ number \in 0 .. MaxFrames /\ txSize \in 0 .. Universe + 1
  /\ {back, front, line, written} \subseteq [Channels -> 0 .. number]
  /\ task \in {"wait", "taken", "copy", "send"}
  /\ last \in 0 .. Universe /\ place \in 1 .. last + 1 /\ size \in 0 .. Universe

Init ==
  /\ bus \in {"dmx", "pwm", "spi"} /\ fullframe \in BOOLEAN
  /\ at = "idle" /\ length = 1 /\ number = 0
  /\ back = Unlit /\ front = Unlit /\ line = Unlit /\ written = Unlit
  /\ txSize = 0 /\ dirty = FALSE /\ busy = FALSE /\ rested = TRUE
  /\ task = "wait" /\ place = 1 /\ last = 0 /\ failed = FALSE /\ size = 0

Less(a, b) == IF a < b THEN a ELSE b
More(a, b) == IF a < b THEN b ELSE a

Ready == ~busy /\ rested

-----------------------------------------------------------------------------
(* The run loop: DMXOutput, PWMOutput and SpiOutput::process.              *)

Begin(n) ==
  /\ at = "idle" /\ Ready /\ number < MaxFrames
  /\ at' = "write" /\ length' = n /\ number' = number + 1
  /\ UNCHANGED <<bus, fullframe, back, txSize, dirty, busy, rested, taskVars, written, size>>

Filled(b) == [c \in Channels |-> IF c <= length THEN number ELSE b[c]]

Write ==
  /\ at = "write"
  /\ back' = Filled(back) /\ written' = Filled(written) /\ size' = length
  /\ txSize' = More(txSize, 1 + length)
  /\ at' = "show"
  /\ UNCHANGED <<bus, fullframe, length, number, dirty, busy, rested, taskVars>>

(* show() of the PWM chip: busy first, then the semaphore.                 *)
Steps == IF bus = "pwm" THEN <<"busy", "give">> ELSE <<"give", "none">>

Does(step) ==
  /\ dirty' = (dirty \/ step = "give")
  /\ busy' = (busy \/ step = "busy")

Show ==
  /\ at = "show" /\ bus # "spi"
  /\ Does(Steps[1])
  /\ at' = IF bus = "pwm" THEN "give" ELSE "idle"
  /\ UNCHANGED <<bus, fullframe, length, number, back, txSize, rested, taskVars, written, size>>

Give ==
  /\ at = "give"
  /\ Does(Steps[2])
  /\ at' = "idle"
  /\ UNCHANGED <<bus, fullframe, length, number, back, txSize, rested, taskVars, written, size>>

(* SPI_ESP::send asks for ready() again, clears sendFinished and hands the *)
(* buffer to the DMA.  A transaction that the driver refuses is logged; it *)
(* has no callback.                                                        *)
Queue ==
  /\ at = "show" /\ bus = "spi"
  /\ busy' = (busy \/ Ready)
  /\ \/ Ready /\ task' = "send" /\ place' = 1 /\ last' = length /\ UNCHANGED failed
     \/ Ready /\ failed' = TRUE /\ UNCHANGED <<task, place, last>>
     \/ ~Ready /\ UNCHANGED <<task, place, last, failed>>
  /\ at' = "idle"
  /\ UNCHANGED <<bus, fullframe, length, number, back, txSize, dirty, rested, front,
                 line, written, size>>

-----------------------------------------------------------------------------
(* sendDMXAsync, PCA9685Task, and the DMA.                                 *)

Take ==
  /\ task = "wait" /\ dirty
  /\ dirty' = FALSE /\ task' = "taken"
  /\ UNCHANGED <<bus, fullframe, at, length, number, back, txSize, busy, rested, place,
                 last, front, line, failed, written, size>>

(* The channels that are sent: a short DMX frame counts the start code.    *)
Length ==
  IF bus = "dmx" /\ ~fullframe
  THEN Less(More(MinChannels, txSize - 1 + TrailingChannels), Universe)
  ELSE Universe

Prepare ==
  /\ task = "taken"
  /\ busy' = TRUE /\ last' = Length /\ place' = 1 /\ task' = "copy"
  /\ UNCHANGED <<bus, fullframe, at, length, number, back, txSize, dirty, rested, front,
                 line, failed, written, size>>

Copy ==
  /\ task = "copy" /\ place <= last
  /\ front' = [front EXCEPT ![place] = back[place]]
  /\ place' = place + 1
  /\ UNCHANGED <<bus, fullframe, at, length, number, back, txSize, dirty, busy, rested,
                 task, last, line, failed, written, size>>

Copied ==
  /\ task = "copy" /\ place > last
  /\ txSize' = 0 /\ task' = "send" /\ place' = 1
  /\ UNCHANGED <<bus, fullframe, at, length, number, back, dirty, busy, rested, last,
                 front, line, failed, written, size>>

SendByte ==
  /\ task = "send" /\ place <= last
  /\ line' = [line EXCEPT ![place] = IF bus = "spi" THEN back[place] ELSE front[place]]
  /\ place' = place + 1
  /\ UNCHANGED <<bus, fullframe, at, length, number, back, txSize, dirty, busy, rested,
                 task, last, front, failed, written, size>>

(* The transfer is over, for the PWM chip also when the bus gave it up;    *)
(* nobody looks at the result.  SPI: the callback of the interrupt, whose  *)
(* two stores are one step: between them ready() has the older of two times.*)
Finish(ok) ==
  /\ task = "send" /\ (IF ok THEN place > last ELSE bus = "pwm")
  /\ busy' = FALSE /\ rested' = (bus # "spi")
  /\ task' = "wait" /\ place' = 1 /\ last' = 0 /\ failed' = ~ok
  /\ UNCHANGED <<bus, fullframe, at, length, number, back, txSize, dirty, front, line,
                 written, size>>

Rest ==
  /\ ~rested
  /\ rested' = TRUE
  /\ UNCHANGED <<bus, fullframe, at, length, number, back, txSize, dirty, busy, taskVars,
                 written, size>>

Loop == Write \/ Show \/ Give \/ Queue

Sending ==
  \/ Take \/ Prepare \/ Copy \/ Copied \/ SendByte \/ Rest
  \/ \E ok \in BOOLEAN : Finish(ok)

Next == (\E n \in Channels : Begin(n)) \/ Loop \/ Sending

Spec == Init /\ [][Next]_vars

(* The run loop does not stop inside process(), the task has a priority    *)
(* and a core of its own, and the hardware goes on.                        *)
FairSpec == Spec /\ WF_vars(Loop) /\ WF_vars(Sending)

-----------------------------------------------------------------------------
(* Properties.                                                             *)

(* When everything is done and did not fail, the lights hold what was      *)
(* written last: whole frames, though DMX outputs write while the task     *)
(* copies.  A short DMX frame is left out: tx_size is cleared after the    *)
(* copy, and what is written just before is forgotten.                     *)
NewestWhenDone ==
  at = "idle" /\ ~dirty /\ task = "wait" /\ ~failed =>
    \A c \in Channels :
      \/ line[c] = written[c]
      \/ bus = "dmx" /\ ~fullframe
      \/ bus = "spi" /\ c > size

(* No channel is written while a frame of the PWM chip or of SPI waits to  *)
(* be copied, is copied or is on its way: no frame is made of two.         *)
NoneTorn ==
  at = "write" /\ bus # "dmx" => ~dirty /\ task = "wait"

(* An output that is not ready gets ready, after a failed transfer to the  *)
(* PWM chip too.  Only a transaction that the SPI driver refused leaves    *)
(* sendFinished false for good.                                            *)
Refused == bus = "spi" /\ failed
GetsReady == []<>(Ready \/ Refused)

=============================================================================
