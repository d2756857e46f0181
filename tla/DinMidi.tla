------------------------------- MODULE DinMidi -------------------------------
(***************************************************************************)
(* The serial MIDI port of the ESP32: its task puts messages together byte *)
(* by byte, takes any byte for a connection and half a second of silence   *)
(* for its end, if the sender has active sense.  Hyperion's callbacks are  *)
(* registered meanwhile by the main thread.                                *)
(***************************************************************************)
EXTENDS DeviceOwners

CONSTANTS
  Device,       (* the one MidiDeviceEsp                                   *)
  Known,        (* the factory knows its name                              *)
  Data,         (* data bytes                                              *)
  TooHigh,      (* one not below NUMBER_OF_NOTES, NUMBER_OF_CONTROLLERS    *)
  Unset         (* a byte of `message` that was never stored               *)

Kinds    == {"on", "off", "change"}
Other    == "sysex"
Realtime == {"tick", "sense"}
Bytes    == Kinds \cup {Other} \cup Data \cup Realtime

DinAssumption ==
  /\ Address = {Device} /\ Known \in BOOLEAN
  /\ Data \cap (Kinds \cup {Other} \cup Realtime) = {}     (* data are below 0x80 *)
  /\ Unset \notin Bytes

Messages == Kinds \X Data \X Data \cup {<<Other, d, d, d, d>> : d \in Data}

VARIABLES
  plugged,      (* the cable is in                                         *)
  saying,       (* the message the sender is in, <<>> between messages     *)
  said,         (* how many of its bytes went out                          *)
  arrived,      (* all of those arrived                                    *)
  position,     (* messageposition                                         *)
  message,      (* message[0 .. 2]                                         *)
  connected, sense,
  registered,   (* callbacks registered so far                             *)
  early,        (* history: the clocks' before the sender was heard        *)
  own,          (* what Hyperion keeps                                     *)
  event         (* what the listeners were told in this step               *)

port == <<position, message, connected, sense>>
vars == <<plugged, saying, said, arrived, port, registered, early, own, event>>

TypeOK ==
  /\ plugged \in BOOLEAN /\ arrived \in BOOLEAN
  /\ saying \in Messages \cup {<<>>} /\ said \in 0 .. 4
  /\ position \in 0 .. 4
  /\ message \in [1 .. 3 -> Bytes \cup {Unset}]
  /\ connected \in BOOLEAN /\ sense \in BOOLEAN
  /\ registered \subseteq Callbacks /\ early \in BOOLEAN /\ own \in Owners
  /\ event \in Messages \cup {<<b>> : b \in Realtime} \cup {<<>>}

Init ==
  /\ plugged \in BOOLEAN /\ saying = <<>> /\ said = 0 /\ arrived = FALSE
  /\ position = 0 /\ message = [i \in 1 .. 3 |-> Unset]
  /\ connected = FALSE /\ sense = FALSE
  /\ registered = {} /\ early = FALSE /\ own = [NoOwners EXCEPT !.alive = {Device}]
  /\ event = <<>>

-----------------------------------------------------------------------------
(* The task of the port.                                                   *)

KnownDevices == IF Known THEN {Device} ELSE {}

(* The first byte of a connection creates.                                 *)
Connect ==
  /\ connected' = TRUE
  /\ own' = IF connected THEN own ELSE Created(own, {Device}, KnownDevices, registered)

(* Wrong on purpose: a byte in between ends the message.                   *)
OnRealtimeResets(b) ==
  /\ sense' = (sense \/ b = "sense")
  /\ position' = 0
  /\ event' = <<b>>
  /\ UNCHANGED message

OnRealtime(b) ==
  /\ sense' = (sense \/ b = "sense")
  /\ event' = <<b>>
  /\ UNCHANGED <<position, message>>

(* Four bytes fit; the fourth is never looked at.                          *)
Store(b) ==
  LET at == IF b \notin Data THEN 0 ELSE position
  IN  /\ position' = IF at < 4 THEN at + 1 ELSE at
      /\ message' = IF at < 3 THEN [message EXCEPT ![at + 1] = b] ELSE message

Tell ==
  event' = IF message'[1] \in Kinds /\ position' = 3 /\ message'[2] # TooHigh
           THEN message' ELSE <<>>

Receive(b) ==
  /\ Connect
  /\ \/ b \in Realtime /\ OnRealtime(b)
     \/ b \notin Realtime /\ Store(b) /\ Tell /\ UNCHANGED sense

(* Nothing came for HEALTHY_TIME.                                          *)
OnSilence ==
  /\ sense' = FALSE /\ connected' = (connected /\ ~sense)
  /\ own' = IF sense THEN Destroyed(own, {Device}, registered) ELSE own
  /\ event' = <<>>
  /\ UNCHANGED <<position, message>>

-----------------------------------------------------------------------------
(* The sender, the cable and the main thread.                              *)

Line(b) ==
  /\ IF plugged THEN Receive(b) ELSE UNCHANGED <<port, own>> /\ event' = <<>>
  /\ UNCHANGED <<plugged, registered, early>>

SayByte ==
  /\ \E m \in IF saying = <<>> THEN Messages ELSE {saying} :
       /\ Line(m[said + 1])
       /\ saying' = IF said + 1 = Len(m) THEN <<>> ELSE m
       /\ said' = (said + 1) % Len(m)
  /\ arrived' = (plugged /\ (said = 0 \/ arrived))

(* Realtime bytes come at any place in a message, active sense only in a   *)
(* pause.                                                                  *)
SayRealtime ==
  \E b \in Realtime :
    /\ b = "sense" => saying = <<>>
    /\ Line(b)
    /\ UNCHANGED <<saying, said, arrived>>

(* The sender speaks every 300 ms, so that silence is a pulled cable.      *)
Silence ==
  /\ ~plugged
  /\ OnSilence
  /\ UNCHANGED <<plugged, saying, said, arrived, registered, early>>

Unplug ==
  /\ plugged
  /\ plugged' = FALSE /\ event' = <<>>
  /\ UNCHANGED <<saying, said, arrived, port, registered, early, own>>

(* Between two messages: what is left of one would be added to the bytes   *)
(* the port still has.                                                     *)
Plug ==
  /\ ~plugged /\ saying = <<>>
  /\ plugged' = TRUE /\ event' = <<>>
  /\ UNCHANGED <<saying, said, arrived, port, registered, early, own>>

(* A new callback is told of the device whether it is connected or not, so *)
(* that the first byte of a connection may create once more.               *)
Register(c) ==
  /\ registered' = registered \cup {c}
  /\ own' = Created(own, {Device}, KnownDevices, {c})
  /\ event' = <<>>
  /\ UNCHANGED <<plugged, saying, said, arrived, port>>

SetupMidi == registered = {} /\ Register("controllers") /\ UNCHANGED early

SetupTempo ==
  /\ registered = {"controllers"} /\ Register("clocks")
  /\ early' = ~connected

Next ==
  SayByte \/ SayRealtime \/ Silence \/ Unplug \/ Plug \/ SetupMidi \/ SetupTempo

Spec == Init /\ [][Next]_vars

(* uart_read_bytes returns after HEALTHY_TIME whatever happens.            *)
FairSpec == Spec /\ WF_vars(Silence)

-----------------------------------------------------------------------------
(* Properties.                                                             *)

(* What comes and goes with the cable is made once and destroyed once, and *)
(* nobody holds a pointer to what is gone.  If its callback was registered *)
(* before the sender was heard, one clock is made twice and its double is  *)
(* never destroyed; however often the cable is pulled there are no more.   *)
OneClock ==
  LET kept == IF Device \in own.clocks THEN 1 ELSE 0
  IN  /\ ~own.misused
      /\ own.hub \cup own.controllers \cup own.clocks \subseteq own.alive
      /\ own.sources[Device] - kept \in IF early THEN {0, 1} ELSE {0}

(* Who registered is served while the sender is heard, after any number of *)
(* pulled cables.                                                          *)
ServedWhileHeard ==
  connected =>
    /\ "clocks" \in registered => Device \in own.clocks /\ "clock" \in own.listeners[Device]
    /\ Known /\ "controllers" \in registered =>
         Device \in own.hub /\ "controller" \in own.listeners[Device]

(* The listeners hear a message exactly when its last byte came after all  *)
(* the others, with realtime bytes anywhere in it and whatever was lost    *)
(* before it; they hear no message that was not sent.                      *)
HeardAsSent ==
  [][ LET ended == saying # <<>> /\ saying' = <<>>
          heard == Len(event') = 3
      IN  /\ heard <=> ended /\ arrived' /\ saying[1] \in Kinds /\ saying[2] # TooHigh
          /\ heard => event' = saying ]_vars

(* A sender with active sense that is pulled out is forgotten.             *)
PulledIsForgotten ==
  (sense /\ ~plugged) ~> (plugged \/ own.clocks \cup own.controllers = {})

=============================================================================
