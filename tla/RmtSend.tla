------------------------------- MODULE RmtSend -------------------------------
(***************************************************************************)
(* LED strips on the ESP32: every channel of the RMT unit sends the pulses *)
(* of its block of memory over and over, up to an end mark; an interrupt   *)
(* after every three bytes has three more bytes of the frame filled in.    *)
(* The blocks of the channels lie one after the other.  A slot holds the   *)
(* eight pulses of a byte, and byte i of a frame is <<frame, i>>.          *)
(***************************************************************************)
EXTENDS Integers, Sequences, FiniteSetsExt

CONSTANTS
  Channels,     (* 0 .. n: neighbours in memory                            *)
  Lengths,      (* of the frames, in bytes                                 *)
  MaxLate       (* bytes sent while an interrupt waits                     *)

Slots   == 8    (* MAX_PULSES / 8                                          *)
PerFill == 3    (* PULSES_PER_FILL / 8                                     *)

RmtAssumption ==
  /\ Max(Channels) \in Nat /\ Channels = 0 .. Max(Channels)
  /\ Max(Lengths) \in Nat /\ Lengths \subseteq 1 .. Max(Lengths)
  /\ MaxLate \in 0 .. PerFill - 1

Frame  == {0, 1}
End    == <<>>
Bytes  == Frame \X (1 .. Max(Lengths))
(* What would be written behind the last block is kept as well.            *)
Memory == 0 .. Slots * (Max(Channels) + 1) + PerFill - 1

VARIABLES
  mem,          (* RMTMEM                                                  *)
  active,       (* TransmissionContext::active                             *)
  frame,        (* which frame the context's buffer holds                  *)
  length, position, ptr,   (* mRMT_mem_ptr, in slots from its block        *)
  running,      (* the channel is sending                                  *)
  out,          (* history: the bytes sent since the last start            *)
  next, done    (* the interrupt bits: three bytes went out, the end mark  *)
                (* was met                                                 *)

context  == <<active, frame, length, position, ptr>>
hardware == <<running, out, next, done>>
vars     == <<mem, context, hardware>>

TypeOK ==
  /\ mem \in [Memory -> Bytes \cup {End}]
  /\ {active, running, next, done} \subseteq [Channels -> BOOLEAN]
  /\ frame \in [Channels -> Frame]
  /\ length \in [Channels -> Lengths \cup {0}]
  /\ \A c \in Channels : position[c] \in 0 .. length[c]
  /\ ptr \in [Channels -> 0 .. Slots + PerFill]
  /\ \A c \in Channels : Len(out[c]) <= length[c]

Init ==
  /\ mem = [a \in Memory |-> End]
  /\ frame = [c \in Channels |-> 0] /\ length = [c \in Channels |-> 0]
  /\ position = [c \in Channels |-> 0] /\ ptr = [c \in Channels |-> 0]
  /\ out = [c \in Channels |-> <<>>]
  /\ active = [c \in Channels |-> FALSE] /\ running = [c \in Channels |-> FALSE]
  /\ next = [c \in Channels |-> FALSE] /\ done = [c \in Channels |-> FALSE]

Block(c) == Slots * c

-----------------------------------------------------------------------------
(* fillNext.  A fill is a record of what it changes.                       *)

(* Wrong on purpose: the four bytes that there is memory for.              *)
FourBytes(t) == Min({t.position + 4, t.length})

FillTill(t) == Min({t.position + PerFill, t.length})

(* The pointer goes back to the start after data, not after an end mark.   *)
FillNext(c, t) ==
  LET n    == FillTill(t) - t.position
      at   == IF n = 0 THEN t.ptr ELSE (t.ptr + n) % Slots
      nth(a) == ((a - Block(c) - t.ptr) % Slots) + 1
      data == [a \in Memory |->
                 IF a - Block(c) \in 0 .. Slots - 1 /\ nth(a) <= n
                 THEN <<t.frame, t.position + nth(a)>> ELSE t.mem[a]]
      all  == FillTill(t) = t.length
  IN  [t EXCEPT !.position = FillTill(t),
                !.ptr = IF all THEN at + 1 ELSE at,
                !.mem = IF all THEN [data EXCEPT ![Block(c) + at] = End] ELSE data]

Filled(c, t) ==
  /\ mem' = t.mem
  /\ position' = [position EXCEPT ![c] = t.position]
  /\ ptr' = [ptr EXCEPT ![c] = t.ptr]

-----------------------------------------------------------------------------
(* The output of a chain.                                                  *)

StartAt(c) == 0

(* NeopixelOutput::process and send: the buffer is filled again only when  *)
(* the channel is ready, and the first six bytes are there when it starts. *)
Process(c) ==
  /\ ~active[c]
  /\ \E l \in Lengths :
       LET t == [mem |-> mem, frame |-> 1 - frame[c], length |-> l,
                 position |-> 0, ptr |-> StartAt(c)]
       IN  /\ length' = [length EXCEPT ![c] = l]
           /\ Filled(c, FillNext(c, FillNext(c, t)))
  /\ frame' = [frame EXCEPT ![c] = 1 - @]
  /\ active' = [active EXCEPT ![c] = TRUE]
  /\ running' = [running EXCEPT ![c] = TRUE]
  /\ out' = [out EXCEPT ![c] = <<>>]
  /\ UNCHANGED <<next, done>>

Transmission(c) ==
  [mem |-> mem, frame |-> frame[c], length |-> length[c],
   position |-> position[c], ptr |-> ptr[c]]

(* Wrong on purpose: the end of the transmission is cleared with the rest. *)
InterruptClearsAll(c) ==
  /\ active[c] /\ next[c]
  /\ \E t \in {FillNext(c, Transmission(c))} : Filled(c, t)
  /\ next' = [next EXCEPT ![c] = FALSE]
  /\ done' = [done EXCEPT ![c] = FALSE]
  /\ UNCHANGED <<active, frame, length, running, out>>

(* interruptHandler, for one of its channels: more to send comes first.    *)
Interrupt(c) ==
  /\ active[c] /\ next[c]
  /\ \E t \in {FillNext(c, Transmission(c))} : Filled(c, t)
  /\ next' = [next EXCEPT ![c] = FALSE]
  /\ UNCHANGED <<active, frame, length, running, out, done>>

InterruptDone(c) ==
  /\ active[c] /\ ~next[c] /\ done[c]
  /\ done' = [done EXCEPT ![c] = FALSE]
  /\ active' = [active EXCEPT ![c] = FALSE]
  /\ UNCHANGED <<mem, frame, length, position, ptr, running, out, next>>

-----------------------------------------------------------------------------
(* The RMT unit, which starts every block at its first slot.               *)

Slot(c) == mem[Block(c) + (Len(out[c]) % Slots)]

SendByte(c) ==
  /\ running[c] /\ Slot(c) # End
  /\ next[c] => Len(out[c]) % PerFill < MaxLate
  /\ out' = [out EXCEPT ![c] = Append(@, Slot(c))]
  /\ next' = [next EXCEPT ![c] = @ \/ (Len(out[c]) + 1) % PerFill = 0]
  /\ UNCHANGED <<mem, context, running, done>>

MeetEnd(c) ==
  /\ running[c] /\ Slot(c) = End
  /\ running' = [running EXCEPT ![c] = FALSE]
  /\ done' = [done EXCEPT ![c] = TRUE]
  /\ UNCHANGED <<mem, context, out, next>>

Work(c) == Interrupt(c) \/ InterruptDone(c) \/ SendByte(c) \/ MeetEnd(c)
Next == \E c \in Channels : Process(c) \/ Work(c)

Spec == Init /\ [][Next]_vars

(* The unit and its interrupts do not stop.                                *)
FairSpec == Spec /\ \A c \in Channels : WF_vars(Work(c))

-----------------------------------------------------------------------------
(* Properties.                                                             *)

(* After the data every fill writes an end mark, the one behind the other. *)
Ends(l) == IF l % PerFill = 0 THEN 3 ELSE 2
EndsFit == \A l \in Lengths : (l % Slots) + Ends(l) <= Slots

(* "We are at least 8 pulses from the end of the buffer, otherwise we      *)
(* would have wrapped already": fillNext writes no end mark behind the     *)
(* block of its channel, where the next channel has its bytes.             *)
EndInBlock == \A c \in Channels : active[c] => ptr[c] <= Slots

(* A strip gets the bytes of its frame, in order and none twice, and a     *)
(* channel stops when it has sent them all: no byte is overwritten before  *)
(* it is sent, none of an older frame is left, with late interrupts and    *)
(* whatever the neighbour sends, as long as the end marks fit.             *)
SendsItsFrame ==
  \A c \in Channels :
    /\ \A i \in DOMAIN out[c] : out[c][i] = <<frame[c], i>>
    /\ active[c] /\ ~running[c] => Len(out[c]) = length[c]

(* A frame that was started makes room for the next one.                   *)
GetsReady == \A c \in Channels : active[c] ~> ~active[c]

=============================================================================
