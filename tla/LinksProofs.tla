---------------------------- MODULE LinksProofs -----------------------------
(***************************************************************************)
(* Proofs about the links: messages over serial MIDI, DMX that is received *)
(* and sent, the outputs of the ESP32, LEDs over the network and LED       *)
(* strips, for any number of channels, any number of frames, any lengths   *)
(* and any data.                                                           *)
(***************************************************************************)
EXTENDS Links, SequenceTheorems, TLAPS

-----------------------------------------------------------------------------
(* Serial MIDI: the bytes.                                                 *)

LEMMA DinNames ==
  /\ Address = {Device} /\ Known \in BOOLEAN
  /\ Data \cap (Din!Kinds \cup {Din!Other} \cup Din!Realtime) = {}
  /\ Unset \notin Din!Bytes
BY LinksAssumption DEF Din!DinAssumption

LEMMA MessageFacts ==
  ASSUME NEW m \in Din!Messages
  PROVE  /\ m # <<>> /\ Len(m) \in {3, 5} /\ DOMAIN m = 1 .. Len(m)
         /\ m[1] \in Din!Kinds \cup {Din!Other}
         /\ m[1] \in Din!Kinds <=> Len(m) = 3
         /\ Len(m) = 3 => m = <<m[1], m[2], m[3]>>
         /\ \A i \in 2 .. Len(m) : m[i] \in Data
<1>0. Din!Other \notin Din!Kinds
  BY DEF Din!Other, Din!Kinds
<1>1. CASE m \in Din!Kinds \X Data \X Data
  <2>1. m = <<m[1], m[2], m[3]>> /\ m[1] \in Din!Kinds /\ m[2] \in Data /\ m[3] \in Data
    BY <1>1
  <2>2. Len(m) = 3 /\ DOMAIN m = 1 .. 3
    BY <1>1
  <2>3. \A i \in 2 .. 3 : i = 2 \/ i = 3
    OBVIOUS
  <2>4. QED
    BY <2>1, <2>2, <2>3
<1>2. CASE m \in {<<Din!Other, d, d, d, d>> : d \in Data}
  <2>1. PICK d \in Data : m = <<Din!Other, d, d, d, d>>
    BY <1>2
  <2>2. Len(m) = 5 /\ DOMAIN m = 1 .. 5 /\ m[1] = Din!Other
    BY <2>1
  <2>3. ASSUME NEW i \in 2 .. 5 PROVE m[i] = d
    <3>1. i = 2 \/ i = 3 \/ i = 4 \/ i = 5
      OBVIOUS
    <3>2. QED
      BY <2>1, <3>1
  <2>4. QED
    BY <1>0, <2>2, <2>3
<1>3. QED
  BY <1>1, <1>2 DEF Din!Messages

(* The port has put together what the sender has said, as long as the      *)
(* cable has been in since the message began.                              *)
PortFollows ==
  /\ saying \in Din!Messages \cup {<<>>} /\ said \in 0 .. 4 /\ place \in 0 .. 4
  /\ message \in [1 .. 3 -> Din!Bytes \cup {Unset}]
  /\ saying = <<>> <=> said = 0
  /\ saying # <<>> => said < Len(saying)
  /\ plugged /\ saying # <<>> =>
       whole /\ place = said /\ \A i \in 1 .. 3 : i <= said => message[i] = saying[i]

DinFlags ==
  /\ plugged \in BOOLEAN /\ whole \in BOOLEAN /\ connected \in BOOLEAN /\ sense \in BOOLEAN
  /\ event \in Din!Messages \cup {<<b>> : b \in Din!Realtime} \cup {<<>>}

(* A byte of a message that the port receives.                             *)
LEMMA ByteFacts ==
  ASSUME PortFollows, plugged,
         NEW m \in IF saying = <<>> THEN Din!Messages ELSE {saying},
         Din!Line(m[said + 1])
  PROVE  /\ m \in Din!Messages /\ said \in 0 .. 4 /\ said + 1 \in 1 .. Len(m)
         /\ said = 0 \/ whole
         /\ place' = IF said < 4 THEN said + 1 ELSE 4
         /\ message' \in [1 .. 3 -> Din!Bytes \cup {Unset}]
         /\ \A i \in 1 .. 3 : i <= said + 1 => message'[i] = m[i]
         /\ event' = IF said + 1 = Len(m) /\ m[1] \in Din!Kinds /\ m[2] # TooHigh
                     THEN m ELSE <<>>
         /\ connected' /\ sense' = sense
<1> DEFINE b == m[said + 1]
<1>1. m \in Din!Messages /\ (saying # <<>> => m = saying)
  BY DEF PortFollows
<1>2. said \in 0 .. 4 /\ said + 1 \in 1 .. Len(m) /\ said < Len(m)
  BY <1>1, MessageFacts DEF PortFollows
<1>3. Din!Receive(b)
  BY DEF Din!Line
<1>4. /\ said = 0 => b \notin Data /\ b \in Din!Bytes
      /\ said > 0 => b \in Data /\ b \in Din!Bytes
      /\ b \notin Din!Realtime
  <2>1. Din!Kinds \cap Din!Realtime = {} /\ Din!Other \notin Din!Realtime
    BY DEF Din!Kinds, Din!Realtime, Din!Other
  <2>2. CASE said = 0
    <3>1. b = m[1]
      BY <2>2
    <3>2. b \in Din!Kinds \cup {Din!Other}
      BY <1>1, <3>1, MessageFacts
    <3>3. QED
      BY <2>1, <2>2, <3>2, DinNames DEF Din!Bytes
  <2>3. CASE said > 0
    <3>1. said + 1 \in 2 .. Len(m)
      BY <1>2, <2>3
    <3>2. \A i \in 2 .. Len(m) : m[i] \in Data
      BY <1>1, MessageFacts
    <3>3. b \in Data
      BY <3>1, <3>2
    <3>4. QED
      BY <2>3, <3>3, DinNames DEF Din!Bytes
  <2>4. QED
    BY <1>2, <2>2, <2>3
<1>5. Din!Store(b) /\ Din!Tell /\ sense' = sense /\ connected'
  BY <1>3, <1>4 DEF Din!Receive, Din!Connect
<1>6. ASSUME said > 0
      PROVE  m = saying /\ whole /\ place = said
             /\ \A i \in 1 .. 3 : i <= said => message[i] = m[i]
  BY <1>1, <1>6 DEF PortFollows
<1>7. /\ place' = IF said < 4 THEN said + 1 ELSE 4
      /\ message' = IF said < 3 THEN [message EXCEPT ![said + 1] = b] ELSE message
  <2>1. CASE said = 0
    BY <1>4, <1>5, <2>1 DEF Din!Store
  <2>2. CASE said > 0
    <3>1. b \in Data /\ place = said /\ said \in 1 .. 4
      BY <1>2, <1>4, <1>6, <2>2
    <3>2. Din!Store(b)
      BY <1>5
    <3> HIDE DEF b
    <3>3. /\ place' = IF said < 4 THEN said + 1 ELSE said
          /\ message' = IF said < 3 THEN [message EXCEPT ![said + 1] = b] ELSE message
      BY <3>1, <3>2 DEF Din!Store
    <3>4. place' = IF said < 4 THEN said + 1 ELSE 4
      BY <3>1, <3>3
    <3>5. QED
      BY <3>3, <3>4
  <2>3. QED
    BY <1>2, <2>1, <2>2
<1> HIDE DEF b
<1>8. message' \in [1 .. 3 -> Din!Bytes \cup {Unset}]
  BY <1>2, <1>4, <1>7 DEF PortFollows
<1>9. ASSUME NEW i \in 1 .. 3, i <= said + 1 PROVE message'[i] = m[i]
  <2>1. CASE i <= said
    <3>1. said > 0 /\ message[i] = m[i] /\ i # said + 1
      BY <1>2, <1>6, <2>1
    <3>2. QED
      BY <1>2, <1>7, <3>1 DEF PortFollows
  <2>2. CASE i = said + 1
    <3>1. said < 3 /\ message' = [message EXCEPT ![said + 1] = b]
      BY <1>2, <1>7, <2>2
    <3>2. message'[i] = b
      BY <2>2, <3>1 DEF PortFollows
    <3>3. QED
      BY <2>2, <3>2 DEF b
  <2>3. QED
    BY <1>2, <1>9, <2>1, <2>2
<1>10. event' = IF said + 1 = Len(m) /\ m[1] \in Din!Kinds /\ m[2] # TooHigh
                THEN m ELSE <<>>
  <2>1. event' = IF message'[1] \in Din!Kinds /\ place' = 3 /\ message'[2] # TooHigh
                 THEN message' ELSE <<>>
    BY <1>5 DEF Din!Tell
  <2>2. message'[1] = m[1]
    BY <1>2, <1>9
  <2>3. place' = 3 <=> said = 2
    BY <1>2, <1>7
  <2>4. CASE m[1] \in Din!Kinds
    <3>1. Len(m) = 3 /\ m = <<m[1], m[2], m[3]>>
      BY <1>1, <2>4, MessageFacts
    <3>2. CASE said = 2
      <4>1. message'[1] = m[1] /\ message'[2] = m[2] /\ message'[3] = m[3]
        BY <1>9, <3>2
      <4>2. message' = m
        <5>1. \A i \in 1 .. 3 : i = 1 \/ i = 2 \/ i = 3
          OBVIOUS
        <5>2. \A i \in 1 .. 3 : message'[i] = m[i]
          BY <4>1, <5>1
        <5>3. m \in [1 .. 3 -> {m[1], m[2], m[3]}]
          BY <3>1
        <5>4. QED
          BY <1>8, <5>2, <5>3
      <4>3. QED
        BY <2>1, <2>3, <2>4, <3>1, <3>2, <4>2
    <3>3. CASE said # 2
      BY <1>2, <2>1, <2>3, <3>1, <3>3
    <3>4. QED
      BY <3>2, <3>3
  <2>5. CASE m[1] \notin Din!Kinds
    BY <2>1, <2>2, <2>5
  <2>6. QED
    BY <2>4, <2>5
<1>11. said = 0 \/ whole
  BY <1>2, <1>6
<1>12. QED
  BY <1>1, <1>2, <1>5, <1>7, <1>8, <1>9, <1>10, <1>11

HearsWhatIsSent ==
  LET ended == saying # <<>> /\ saying' = <<>>
      heard == Len(event') = 3
  IN  /\ heard <=> ended /\ whole' /\ saying[1] \in Din!Kinds /\ saying[2] # TooHigh
      /\ heard => event' = saying

(* No step but a byte of a message lets the port and the sender part, or   *)
(* is taken for a message.                                                 *)
LEMMA OtherDinSteps ==
  ASSUME PortFollows, UNCHANGED <<saying, said, whole, message>>,
         plugged' => plugged \/ saying = <<>>,
         plugged' /\ saying # <<>> => place' = place, place' \in 0 .. 4,
         Len(event') # 3
  PROVE  PortFollows' /\ HearsWhatIsSent
BY DEF PortFollows, HearsWhatIsSent

LEMMA SayByteFollows ==
  ASSUME PortFollows, Din!SayByte
  PROVE  PortFollows' /\ HearsWhatIsSent
<1>1. PICK m \in IF saying = <<>> THEN Din!Messages ELSE {saying} :
         /\ Din!Line(m[said + 1])
         /\ saying' = IF said + 1 = Len(m) THEN <<>> ELSE m
         /\ said' = (said + 1) % Len(m)
  BY DEF Din!SayByte
<1>2. whole' = (plugged /\ (said = 0 \/ whole)) /\ plugged' = plugged
  BY <1>1 DEF Din!SayByte, Din!Line
<1>3. /\ m \in Din!Messages /\ said \in 0 .. 4 /\ said < Len(m)
      /\ saying # <<>> => m = saying
      /\ saying = <<>> <=> said = 0
  BY <1>1, MessageFacts DEF PortFollows
<1>4. Len(m) \in {3, 5} /\ m # <<>>
  BY <1>3, MessageFacts
<1>5. said' = IF said + 1 = Len(m) THEN 0 ELSE said + 1
  BY <1>1, <1>3, <1>4
<1>6. /\ saying' \in Din!Messages \cup {<<>>} /\ said' \in 0 .. 4
      /\ saying' = <<>> <=> said' = 0
      /\ saying' # <<>> => saying' = m /\ said' = said + 1 /\ said' < Len(m)
      /\ saying' = <<>> <=> said + 1 = Len(m)
  <2>1. CASE said + 1 = Len(m)
    BY <1>1, <1>5, <2>1
  <2>2. CASE said + 1 # Len(m)
    <3>1. said + 1 \in 1 .. 4 /\ said + 1 < Len(m)
      <4>1. said \in 0 .. 4 /\ said < Len(m) /\ (Len(m) = 3 \/ Len(m) = 5)
        BY <1>3, <1>4
      <4>2. CASE Len(m) = 3
        BY <2>2, <4>1, <4>2
      <4>3. CASE Len(m) = 5
        BY <2>2, <4>1, <4>3
      <4>4. QED
        BY <4>1, <4>2, <4>3
    <3>2. saying' = m /\ said' = said + 1
      BY <1>1, <1>5, <2>2
    <3>3. QED
      BY <1>3, <1>4, <2>2, <3>1, <3>2
  <2>3. QED
    BY <2>1, <2>2
<1>7. CASE plugged
  <2>1. /\ said = 0 \/ whole
        /\ place' = IF said < 4 THEN said + 1 ELSE 4
        /\ message' \in [1 .. 3 -> Din!Bytes \cup {Unset}]
        /\ \A i \in 1 .. 3 : i <= said + 1 => message'[i] = m[i]
        /\ event' = IF said + 1 = Len(m) /\ m[1] \in Din!Kinds /\ m[2] # TooHigh
                    THEN m ELSE <<>>
    BY <1>1, <1>7, ByteFacts
  <2>2. whole'
    BY <1>2, <1>7, <2>1
  <2>3. place' \in 0 .. 4 /\ (saying' # <<>> => place' = said')
    BY <1>3, <1>4, <1>6, <2>1
  <2>4. PortFollows'
    BY <1>6, <2>1, <2>2, <2>3 DEF PortFollows
  <2>5. Len(event') = 3 <=> said + 1 = Len(m) /\ m[1] \in Din!Kinds /\ m[2] # TooHigh
    BY <1>3, <2>1, MessageFacts
  <2>6. said + 1 = Len(m) => saying # <<>> /\ m = saying
    BY <1>3, <1>4
  <2>7. HearsWhatIsSent
    BY <1>6, <2>1, <2>2, <2>5, <2>6 DEF HearsWhatIsSent
  <2>8. QED
    BY <2>4, <2>7
<1>8. CASE ~plugged
  <2>1. UNCHANGED <<place, message>> /\ event' = <<>>
    BY <1>1, <1>8 DEF Din!Line, Din!port
  <2>2. ~plugged' /\ ~whole'
    BY <1>2, <1>8
  <2>3. PortFollows'
    BY <1>6, <2>1, <2>2 DEF PortFollows
  <2>4. HearsWhatIsSent
    BY <2>1, <2>2 DEF HearsWhatIsSent
  <2>5. QED
    BY <2>3, <2>4
<1>9. QED
  BY <1>7, <1>8

LEMMA DinFollows ==
  ASSUME PortFollows, [Din!Next]_(Din!vars)
  PROVE  PortFollows' /\ [HearsWhatIsSent]_(Din!vars)
<1>1. CASE Din!SayByte
  BY <1>1, SayByteFollows
<1>2. CASE Din!SayRealtime
  <2>1. PICK b \in Din!Realtime : Din!Line(b)
    BY <1>2 DEF Din!SayRealtime
  <2>2. UNCHANGED <<saying, said, whole>>
    BY <1>2 DEF Din!SayRealtime
  <2>3. CASE plugged
    <3>1. Din!OnRealtime(b)
      BY <2>1, <2>3 DEF Din!Line, Din!Receive
    <3>2. UNCHANGED <<place, message>> /\ event' = <<b>>
      BY <3>1 DEF Din!OnRealtime
    <3>3. Len(event') # 3
      BY <3>2
    <3>4. QED
      BY <2>2, <2>3, <3>2, <3>3, OtherDinSteps DEF PortFollows
  <2>4. CASE ~plugged
    <3>1. UNCHANGED <<place, message, plugged>> /\ event' = <<>>
      BY <2>1, <2>4 DEF Din!Line, Din!port
    <3>2. QED
      BY <2>2, <2>4, <3>1, OtherDinSteps DEF PortFollows
  <2>5. QED
    BY <2>3, <2>4
<1>3. CASE Din!Silence \/ Din!Unplug \/ Din!Plug
  <2>1. UNCHANGED <<saying, said, whole, place, message>> /\ event' = <<>>
        /\ (plugged' => plugged \/ saying = <<>>)
    BY <1>3 DEF Din!Silence, Din!OnSilence, Din!Unplug, Din!Plug, Din!port
  <2>2. QED
    BY <2>1, OtherDinSteps DEF PortFollows
<1>4. CASE Din!SetupMidi \/ Din!SetupTempo
  <2>1. UNCHANGED <<saying, said, whole, place, message, plugged>> /\ event' = <<>>
    BY <1>4 DEF Din!SetupMidi, Din!SetupTempo, Din!Register, Din!port
  <2>2. QED
    BY <2>1, OtherDinSteps DEF PortFollows
<1>5. CASE UNCHANGED Din!vars
  BY <1>5 DEF Din!vars, Din!port, PortFollows
<1>6. QED
  BY <1>1, <1>2, <1>3, <1>4, <1>5 DEF Din!Next

(* The listeners of a serial port are told exactly the messages of which   *)
(* every byte arrived, whatever comes in between (midiDevice-esp.hpp).     *)
THEOREM MessagesAreHeardAsSent == Spec => HeardAsSent
<1>1. Init => PortFollows
  <2> SUFFICES ASSUME Init PROVE PortFollows
    OBVIOUS
  <2>1. QED
    BY DEF Init, Din!Init, PortFollows
<1>2. PortFollows /\ [Next]_vars => PortFollows' /\ [HearsWhatIsSent]_(Din!vars)
  <2>1. SUFFICES ASSUME PortFollows, [Next]_vars
                 PROVE  PortFollows' /\ [HearsWhatIsSent]_(Din!vars)
    OBVIOUS
  <2>2. [Din!Next]_(Din!vars)
    BY <2>1 DEF Next, vars, Din!vars, Din!port, dinVars,
                InUdp, InRmt, InDmxIn, InDmxOut, InEsp
  <2>3. QED
    BY <2>1, <2>2, DinFollows
<1>3. QED
  BY <1>1, <1>2, PTL DEF Spec, HeardAsSent, Din!HeardAsSent, HearsWhatIsSent

-----------------------------------------------------------------------------
(* DMX in: time goes forward from the wire to the frame of a chain, with   *)
(* any number of events between the driver and the task.                   *)

LEMMA DmxInNames ==
  /\ Universe \in Nat \ {0} /\ DmxInFrames \in Nat /\ QueueLength \in Nat \ {0}
  /\ Dark \subseteq 1 .. Universe /\ Errors \in Nat
  /\ DmxIn!Cells = 0 .. Universe
BY LinksAssumption DEF DmxIn!DmxAssumption, DmxIn!Cells

Stamps == [DmxIn!Cells -> Nat \X Nat]

IsData(e) == e[1] = "data"

(* An event that the driver can hand over by now.                          *)
Handed(e) ==
  IsData(e) =>
    /\ Len(e[2]) \in 1 .. 2
    /\ \A k \in 1 .. Len(e[2]) : e[2][k] \in Nat \X Nat /\ e[2][k][1] <= sent

(* No byte of e is older than any of those.                                *)
After(e, them) ==
  IsData(e) => \A k \in 1 .. Len(e[2]), c \in DmxIn!Cells : them[c][1] <= e[2][k][1]

InOrder(e, f) ==
  IsData(e) /\ IsData(f) =>
    \A k \in 1 .. Len(e[2]), l \in 1 .. Len(f[2]) : e[2][k][1] <= f[2][l][1]

OnlyForward ==
  /\ sent \in Nat /\ pos \in Nat /\ addr \in Nat
  /\ data \in Stamps /\ rx \in Stamps /\ got \in Stamps
  /\ \A c \in DmxIn!Cells :
       got[c][1] <= rx[c][1] /\ rx[c][1] <= data[c][1] /\ data[c][1] <= sent
  /\ events \in Seq({<<"break">>, <<"error">>} \cup ({"data"} \X Seq(Nat \X Nat)))
  /\ \A i \in 1 .. Len(events) : Handed(events[i]) /\ After(events[i], data)
  /\ \A i, j \in 1 .. Len(events) : i < j => InOrder(events[i], events[j])

(* The copies of this step take nothing back.                              *)
NothingBack ==
  \A c \in DmxIn!Cells : got[c][1] <= got'[c][1]

LEMMA ForwardInit == Init => OnlyForward
<1> SUFFICES ASSUME Init PROVE OnlyForward
  OBVIOUS
<1>1. DmxIn!Init
  BY DEF Init
<1>2. sent = 0 /\ pos \in Nat /\ events = <<>> /\ addr = 0
  BY <1>1, DmxInNames DEF DmxIn!Init
<1>3. /\ data = [c \in DmxIn!Cells |-> <<0, c>>]
      /\ rx = data /\ got = data
  BY <1>1 DEF DmxIn!Init, DmxIn!Blank
<1>4. data \in Stamps /\ \A c \in DmxIn!Cells : data[c][1] = 0
  BY <1>3, DmxInNames DEF Stamps
<1>5. QED
  BY <1>2, <1>3, <1>4 DEF OnlyForward

(* The driver hands over an event that comes after all the others.         *)
LEMMA PostForward ==
  ASSUME OnlyForward, NEW e, events' = Append(events, e),
         e \in {<<"break">>, <<"error">>} \cup ({"data"} \X Seq(Nat \X Nat)),
         sent' \in Nat, sent <= sent', pos' \in Nat,
         UNCHANGED <<data, rx, got, addr>>,
         IsData(e) => /\ Len(e[2]) \in 1 .. 2
                      /\ \A k \in 1 .. Len(e[2]) : e[2][k] \in Nat \X Nat /\ e[2][k][1] = sent'
  PROVE  OnlyForward' /\ NothingBack
<1>1. /\ events' \in Seq({<<"break">>, <<"error">>} \cup ({"data"} \X Seq(Nat \X Nat)))
      /\ Len(events') = Len(events) + 1 /\ Len(events) \in Nat
      /\ \A i \in 1 .. Len(events) : events'[i] = events[i]
      /\ events'[Len(events) + 1] = e
  BY DEF OnlyForward
<1>2. \A i \in 1 .. Len(events') : i \in 1 .. Len(events) \/ i = Len(events) + 1
  BY <1>1
<1>3. ASSUME NEW c \in DmxIn!Cells
      PROVE  got[c][1] <= rx[c][1] /\ rx[c][1] <= data[c][1] /\ data[c][1] <= sent'
             /\ data[c][1] \in Nat /\ got[c][1] \in Nat
  BY DEF OnlyForward, Stamps
<1>4. ASSUME NEW i \in 1 .. Len(events)
      PROVE  Handed(events[i])' /\ After(events[i], data) /\ InOrder(events[i], e)
  <2>1. Handed(events[i]) /\ After(events[i], data)
    BY DEF OnlyForward
  <2>2. CASE IsData(events[i])
    <3>1. ASSUME NEW k \in 1 .. Len(events[i][2])
          PROVE  events[i][2][k] \in Nat \X Nat /\ events[i][2][k][1] <= sent'
      <4>1. events[i][2][k] \in Nat \X Nat /\ events[i][2][k][1] <= sent
        BY <2>1, <2>2 DEF Handed
      <4>2. QED
        BY <4>1 DEF OnlyForward
    <3>2. QED
      BY <1>1, <2>1, <2>2, <3>1 DEF Handed, InOrder
  <2>3. CASE ~IsData(events[i])
    BY <1>1, <2>1, <2>3 DEF Handed, InOrder, IsData
  <2>4. QED
    BY <2>2, <2>3
<1>5. (IsData(e) => \A k \in 1 .. Len(e[2]), c \in DmxIn!Cells : data[c][1] <= e[2][k][1])
  BY <1>3
<1>6. \A i \in 1 .. Len(events') : Handed(events[i])' /\ After(events[i], data)'
  BY <1>1, <1>2, <1>4, <1>5 DEF Handed, After, IsData
<1>7. \A i, j \in 1 .. Len(events') : i < j => InOrder(events'[i], events'[j])
  BY SMTT(30), <1>1, <1>2, <1>4 DEF OnlyForward
<1>8. QED
  BY <1>1, <1>3, <1>6, <1>7 DEF OnlyForward, NothingBack

(* The task takes the first event, or all of them.                         *)
LEMMA TakeForward ==
  ASSUME OnlyForward, events # <<>>,
         \/ events' = <<>> /\ UNCHANGED data
         \/ events' = Tail(events) /\ UNCHANGED data
         \/ /\ events' = Tail(events) /\ data' \in Stamps /\ IsData(events[1])
            /\ \A c \in DmxIn!Cells :
                 \/ data'[c] = data[c]
                 \/ \E k \in 1 .. Len(events[1][2]) : data'[c] = events[1][2][k],
         rx' \in {rx, data, data'}, UNCHANGED <<got, sent, pos>>, addr' \in Nat
  PROVE  OnlyForward' /\ NothingBack
<1>1. ASSUME NEW c \in DmxIn!Cells
      PROVE  /\ got[c][1] \in Nat /\ rx[c][1] \in Nat /\ data[c][1] \in Nat
             /\ got[c][1] <= rx[c][1] /\ rx[c][1] <= data[c][1] /\ data[c][1] <= sent
  BY DEF OnlyForward, Stamps
<1>2. Len(events) \in Nat /\ Len(events) >= 1 /\ sent \in Nat
  BY DEF OnlyForward
<1>3. data' \in Stamps
  BY DEF OnlyForward
<1>4. ASSUME NEW c \in DmxIn!Cells
      PROVE  /\ data'[c][1] \in Nat /\ data[c][1] <= data'[c][1] /\ data'[c][1] <= sent
  <2>1. CASE data'[c] = data[c]
    BY <1>1, <2>1
  <2>2. CASE data'[c] # data[c]
    <3>1. IsData(events[1])
          /\ \E k \in 1 .. Len(events[1][2]) : data'[c] = events[1][2][k]
      BY <2>2
    <3>2. PICK k \in 1 .. Len(events[1][2]) : data'[c] = events[1][2][k]
      BY <3>1
    <3>3. Handed(events[1]) /\ After(events[1], data)
      BY <1>2 DEF OnlyForward
    <3>4. QED
      BY <3>1, <3>2, <3>3 DEF Handed, After
  <2>3. QED
    BY <2>1, <2>2
<1>5. /\ rx' \in Stamps /\ got' \in Stamps
      /\ \A c \in DmxIn!Cells : got'[c][1] <= rx'[c][1] /\ rx'[c][1] <= data'[c][1]
  <2>1. rx' \in Stamps /\ got' \in Stamps
    BY <1>3 DEF OnlyForward
  <2>2. ASSUME NEW c \in DmxIn!Cells
        PROVE  got'[c][1] <= rx'[c][1] /\ rx'[c][1] <= data'[c][1]
    <3>1. CASE rx' = rx
      BY <1>1, <1>4, <3>1
    <3>2. CASE rx' = data
      BY <1>1, <1>4, <3>2
    <3>3. CASE rx' = data'
      BY <1>1, <1>4, <3>3
    <3>4. QED
      BY <3>1, <3>2, <3>3
  <2>3. QED
    BY <2>1, <2>2
<1>6. CASE events' = <<>>
  BY <1>1, <1>3, <1>4, <1>5, <1>6 DEF OnlyForward, NothingBack
<1>7. CASE events' = Tail(events)
  <2>1. /\ events' \in Seq({<<"break">>, <<"error">>} \cup ({"data"} \X Seq(Nat \X Nat)))
        /\ Len(events') = Len(events) - 1
        /\ \A i \in 1 .. Len(events') :
             events'[i] = events[i + 1] /\ i + 1 \in 1 .. Len(events)
    BY <1>2, <1>7 DEF OnlyForward
  <2>2. ASSUME NEW i \in 1 .. Len(events')
        PROVE  Handed(events[i])' /\ After(events[i], data)'
    <3>1. i + 1 \in 1 .. Len(events) /\ events'[i] = events[i + 1]
      BY <2>1
    <3>2. Handed(events[i + 1]) /\ After(events[i + 1], data)
      BY <3>1 DEF OnlyForward
    <3>3. Handed(events[i])'
      BY <3>1, <3>2 DEF Handed, IsData
    <3>4. ASSUME IsData(events'[i]), NEW k \in 1 .. Len(events'[i][2]), NEW c \in DmxIn!Cells
          PROVE  data'[c][1] <= events'[i][2][k][1]
      <4>1. CASE data'[c] = data[c]
        BY <3>1, <3>2, <3>4, <4>1 DEF After
      <4>2. CASE data'[c] # data[c]
        <5>1. IsData(events[1])
              /\ \E l \in 1 .. Len(events[1][2]) : data'[c] = events[1][2][l]
          BY <4>2
        <5>2. PICK l \in 1 .. Len(events[1][2]) : data'[c] = events[1][2][l]
          BY <5>1
        <5>3. 1 \in 1 .. Len(events) /\ 1 < i + 1
          BY <1>2, <2>1
        <5>4. InOrder(events[1], events[i + 1])
          BY <3>1, <5>3 DEF OnlyForward
        <5>5. QED
          BY <3>1, <3>4, <5>1, <5>2, <5>4 DEF InOrder
      <4>3. QED
        BY <4>1, <4>2
    <3>5. QED
      BY <3>3, <3>4 DEF After
  <2>3. ASSUME NEW i \in 1 .. Len(events'), NEW j \in 1 .. Len(events'), i < j
        PROVE  InOrder(events'[i], events'[j])
    <3>1. i + 1 \in 1 .. Len(events) /\ j + 1 \in 1 .. Len(events) /\ i + 1 < j + 1
      BY <2>1, <2>3
    <3>2. InOrder(events[i + 1], events[j + 1])
      BY <3>1 DEF OnlyForward
    <3>3. QED
      BY <2>1, <3>2
  <2>4. QED
    BY <1>1, <1>3, <1>4, <1>5, <2>1, <2>2, <2>3 DEF OnlyForward, NothingBack
<1>8. QED
  BY <1>6, <1>7

LEMMA ForwardStep ==
  ASSUME OnlyForward, [DmxIn!Next]_(DmxIn!vars)
  PROVE  OnlyForward' /\ NothingBack
<1> USE DEF DmxIn!vars, DmxIn!wireVars, DmxIn!taskVars, DmxIn!inputVars, DmxIn!lossVars
<1>0. /\ sent \in Nat /\ pos \in Nat /\ addr \in Nat
      /\ data \in Stamps /\ rx \in Stamps /\ got \in Stamps
      /\ events \in Seq({<<"break">>, <<"error">>} \cup ({"data"} \X Seq(Nat \X Nat)))
  BY DEF OnlyForward
<1>1. CASE DmxIn!SendBreak
  <2>1. events' = Append(events, <<"break">>) /\ sent' = sent + 1 /\ pos' = 0
        /\ UNCHANGED <<data, rx, got, addr>>
    BY <1>1 DEF DmxIn!SendBreak, DmxIn!Post
  <2>2. ~IsData(<<"break">>)
    BY DEF IsData
  <2>3. sent' \in Nat /\ sent <= sent' /\ pos' \in Nat
    BY <1>0, <2>1
  <2>4. QED
    BY <2>1, <2>2, <2>3, PostForward
<1>2. ASSUME NEW n \in 1 .. 2, DmxIn!SendChunk(n) PROVE OnlyForward' /\ NothingBack
  <2> DEFINE bytes == [i \in 1 .. n |-> <<sent, pos + i - 1>>]
  <2>1. events' = Append(events, <<"data", bytes>>) /\ sent' = sent /\ pos' = pos + n
        /\ UNCHANGED <<data, rx, got, addr>> /\ sent > 0
    BY <1>2 DEF DmxIn!SendChunk, DmxIn!Post
  <2>2. bytes \in Seq(Nat \X Nat) /\ Len(bytes) = n
    <3>1. \A i \in 1 .. n : pos + i - 1 \in Nat
      BY <1>0
    <3>2. bytes \in [1 .. n -> Nat \X Nat]
      BY <1>0, <3>1
    <3>3. QED
      BY <3>2
  <2>3. \A k \in 1 .. Len(bytes) : bytes[k] \in Nat \X Nat /\ bytes[k][1] = sent'
    <3>1. \A k \in 1 .. n : bytes[k] = <<sent, pos + k - 1>> /\ pos + k - 1 \in Nat
      BY <1>0
    <3>2. QED
      BY <1>0, <2>1, <2>2, <3>1
  <2> HIDE DEF bytes
  <2>4. sent' \in Nat /\ sent <= sent' /\ pos' \in Nat
    BY <1>0, <2>1
  <2>5. QED
    BY <2>1, <2>2, <2>3, <2>4, PostForward
<1>3. CASE DmxIn!Disturb
  <2>1. events' = Append(events, <<"error">>) /\ sent' = sent /\ pos' = pos + 1
        /\ UNCHANGED <<data, rx, got, addr>>
    BY <1>3 DEF DmxIn!Disturb, DmxIn!Post
  <2>2. ~IsData(<<"error">>)
    BY DEF IsData
  <2>3. sent' \in Nat /\ sent <= sent' /\ pos' \in Nat
    BY <1>0, <2>1
  <2>4. QED
    BY <2>1, <2>2, <2>3, PostForward
<1>4. CASE DmxIn!OnData
  <2> DEFINE bytes == events[1][2]
             first == DmxIn!AddressOf(bytes)
  <2>1. events # <<>> /\ events' = Tail(events) /\ IsData(events[1])
        /\ UNCHANGED <<got, sent, pos>>
    BY <1>4 DEF DmxIn!OnData, IsData
  <2>2. \/ /\ data' = DmxIn!Fill(bytes) /\ addr' = DmxIn!EndOfChunk(bytes)
           /\ rx' = IF DmxIn!Complete THEN data' ELSE rx
        \/ UNCHANGED <<data, rx, addr>>
    BY <1>4 DEF DmxIn!OnData
  <2>3. /\ first \in Nat /\ Len(bytes) \in 1 .. 2
        /\ \A k \in 1 .. Len(bytes) : bytes[k] \in Nat \X Nat
    <3>1. Handed(events[1])
      BY <1>0, <2>1 DEF OnlyForward
    <3>2. QED
      BY <1>0, <2>1, <3>1 DEF Handed, DmxIn!AddressOf
  <2>4. CASE UNCHANGED <<data, rx, addr>>
    BY <1>0, <2>1, <2>4, TakeForward
  <2>5. CASE /\ data' = DmxIn!Fill(bytes) /\ addr' = DmxIn!EndOfChunk(bytes)
             /\ rx' = IF DmxIn!Complete THEN data' ELSE rx
    <3>1. data' = [c \in DmxIn!Cells |-> IF c \in first .. first + Len(bytes) - 1
                                         THEN bytes[c - first + 1] ELSE data[c]]
      BY <2>5 DEF DmxIn!Fill
    <3> HIDE DEF first
    <3>2. ASSUME NEW c \in DmxIn!Cells
          PROVE  /\ data'[c] \in Nat \X Nat
                 /\ \/ data'[c] = data[c]
                    \/ \E k \in 1 .. Len(bytes) : data'[c] = bytes[k]
      <4>1. CASE c \in first .. first + Len(bytes) - 1
        <5>1. c - first + 1 \in 1 .. Len(bytes)
          BY <2>3, <4>1, DmxInNames
        <5>2. data'[c] = bytes[c - first + 1]
          BY <3>1, <4>1
        <5>3. QED
          BY <2>3, <5>1, <5>2
      <4>2. CASE c \notin first .. first + Len(bytes) - 1
        BY <1>0, <3>1, <4>2 DEF Stamps
      <4>3. QED
        BY <4>1, <4>2
    <3>3. data' \in Stamps
      BY <3>1, <3>2 DEF Stamps
    <3>4. addr' \in Nat
      <4>1. addr' = IF first + Len(bytes) > Universe + 1 THEN Universe + 1
                    ELSE first + Len(bytes)
        BY <2>5 DEF DmxIn!EndOfChunk, first
      <4>2. QED
        BY <2>3, <4>1, DmxInNames
    <3>5. rx' \in {rx, data, data'}
      BY <2>5
    <3>6. QED
      BY <2>1, <3>2, <3>3, <3>4, <3>5, TakeForward
  <2>6. QED
    BY <2>2, <2>4, <2>5
<1>5. CASE DmxIn!OnBreak \/ DmxIn!OnError
  <2>1. events # <<>> /\ events' = <<>> /\ rx' \in {rx, data, data'}
        /\ UNCHANGED <<data, got, sent, pos, addr>>
    BY <1>5 DEF DmxIn!OnBreak, DmxIn!OnError, DmxIn!CopyOnBreak
  <2>2. QED
    BY <1>0, <2>1, TakeForward
<1>6. CASE DmxIn!CopyChannel
  <2>1. got' = [got EXCEPT ![copying] = rx[copying]]
        /\ UNCHANGED <<sent, pos, addr, data, rx, events>>
    BY <1>6 DEF DmxIn!CopyChannel
  <2>2. ASSUME NEW c \in DmxIn!Cells
        PROVE  /\ got'[c] \in Nat \X Nat /\ got[c][1] <= got'[c][1]
               /\ got'[c][1] <= rx[c][1]
    <3>1. got[c] \in Nat \X Nat /\ rx[c] \in Nat \X Nat /\ got[c][1] <= rx[c][1]
      BY <1>0 DEF OnlyForward, Stamps
    <3>2. got'[c] = got[c] \/ got'[c] = rx[c]
      BY <1>0, <2>1 DEF Stamps
    <3>3. CASE got'[c] = got[c]
      BY <3>1, <3>3
    <3>4. CASE got'[c] = rx[c]
      BY <3>1, <3>4
    <3>5. QED
      BY <3>2, <3>3, <3>4
  <2>3. got' \in Stamps
    BY <1>0, <2>1, <2>2 DEF Stamps
  <2>4. \A i \in 1 .. Len(events) : Handed(events[i])' /\ After(events[i], data)'
    BY <2>1 DEF OnlyForward, Handed, After
  <2>5. QED
    BY <2>1, <2>2, <2>3, <2>4 DEF OnlyForward, NothingBack
<1>7. CASE DmxIn!Process \/ DmxIn!Silence \/ UNCHANGED DmxIn!vars
  <2>1. UNCHANGED <<sent, pos, addr, data, rx, got, events>>
    BY <1>7 DEF DmxIn!Process, DmxIn!Silence
  <2>2. \A i \in 1 .. Len(events) : Handed(events[i])' /\ After(events[i], data)'
    BY <2>1 DEF OnlyForward, Handed, After
  <2>3. \A c \in DmxIn!Cells : got[c][1] <= got'[c][1]
    BY <2>1 DEF OnlyForward, Stamps
  <2>4. QED
    BY <2>1, <2>2, <2>3 DEF OnlyForward, NothingBack
<1>8. QED
  BY <1>1, <1>2, <1>3, <1>4, <1>5, <1>6, <1>7
     DEF DmxIn!Next, DmxIn!Wire, DmxIn!Task, DmxIn!InputSteps

(* A channel of a frame that DMXInput makes never goes back to an older    *)
(* frame, for any universe, any number of queued events and any errors     *)
(* (the copies of uart_event_task and DMXInput::process).                  *)
THEOREM ChannelsNeverGoBack == Spec => NeverBack
<1>1. OnlyForward /\ [Next]_vars =>
        OnlyForward' /\ [\A c \in DmxIn!Used : got'[c][1] >= got[c][1]]_(DmxIn!vars)
  <2>1. ASSUME OnlyForward, [Next]_vars
        PROVE  OnlyForward' /\ \A c \in DmxIn!Used : got'[c][1] >= got[c][1]
    <3>1. [DmxIn!Next]_(DmxIn!vars)
      BY <2>1 DEF Next, vars, DmxIn!vars, DmxIn!wireVars, DmxIn!taskVars, DmxIn!inputVars,
                  DmxIn!lossVars, dmxInVars, InUdp, InRmt, InDmxIn, InDmxOut, InEsp, InDin
    <3>2. OnlyForward' /\ NothingBack
      BY <2>1, <3>1, ForwardStep
    <3>3. ASSUME NEW c \in DmxIn!Used PROVE got'[c][1] >= got[c][1]
      BY <2>1, <3>2 DEF OnlyForward, Stamps, NothingBack, DmxIn!Used
    <3>4. QED
      BY <3>2, <3>3
  <2>2. QED
    BY <2>1
<1>2. QED
  BY <1>1, ForwardInit, PTL DEF Spec, NeverBack, DmxIn!NeverBack

-----------------------------------------------------------------------------
(* DMX out: what the thread has sent so far is what was written.           *)

LEMMA DmxOutNames ==
  /\ Universe \in Nat \ {0} /\ DmxOutFrames \in Nat
  /\ MinChannels \in Nat /\ TrailingChannels \in Nat
  /\ DmxOut!Channels = 1 .. Universe
BY LinksAssumption DEF DmxOut!DmxSendAssumption, DmxOut!Channels

LineFollows ==
  /\ DmxOut!TypeOK /\ DmxOut!NewestOnLine
  /\ back = written
  /\ ~busy => txSize = 0 /\ nextOut = 1 /\ last = 0
  /\ busy => /\ front = written /\ size <= last
             /\ fullframe => last = Universe
             /\ \A c \in DmxOut!Channels : c < nextOut => line[c] = front[c]

LEMMA DmxOutTypes ==
  /\ DmxOut!TypeOK <=>
       /\ opened \in BOOLEAN /\ fullframe \in BOOLEAN /\ busy \in BOOLEAN /\ failed \in BOOLEAN
       /\ number \in [Outputs -> 0 .. DmxOutFrames]
       /\ back \in [DmxOut!Channels -> DmxOut!Value]
       /\ front \in [DmxOut!Channels -> DmxOut!Value]
       /\ line \in [DmxOut!Channels -> DmxOut!Value]
       /\ written \in [DmxOut!Channels -> DmxOut!Value]
       /\ txSize \in 0 .. Universe + 1 /\ size \in 0 .. Universe
       /\ last \in 0 .. Universe /\ nextOut \in 1 .. last + 1
BY DEF DmxOut!TypeOK

LEMMA LineInit == Init => LineFollows
<1> SUFFICES ASSUME Init PROVE LineFollows
  OBVIOUS
<1>1. DmxOut!Init
  BY DEF Init
<1>2. DmxOut!Silent \in [DmxOut!Channels -> DmxOut!Value]
  <2>1. [from |-> "nobody", frame |-> 0] \in DmxOut!Value
    BY DmxOutNames DEF DmxOut!Value
  <2>2. QED
    BY <2>1 DEF DmxOut!Silent
<1>3. /\ back = DmxOut!Silent /\ front = DmxOut!Silent
      /\ line = DmxOut!Silent /\ written = DmxOut!Silent
      /\ ~busy /\ ~failed /\ busy \in BOOLEAN /\ failed \in BOOLEAN
      /\ opened \in BOOLEAN /\ fullframe \in BOOLEAN
      /\ txSize = 0 /\ size = 0 /\ last = 0 /\ nextOut = 1
      /\ number = [o \in Outputs |-> 0]
  BY <1>1 DEF DmxOut!Init
<1>4. DmxOut!TypeOK
  BY <1>2, <1>3, DmxOutNames, DmxOutTypes
<1>5. DmxOut!NewestOnLine
  BY <1>3 DEF DmxOut!NewestOnLine
<1>6. QED
  BY <1>3, <1>4, <1>5 DEF LineFollows

LEMMA LineStep ==
  ASSUME LineFollows, [DmxOut!Next]_(DmxOut!vars)
  PROVE  LineFollows'
<1>0. /\ opened \in BOOLEAN /\ fullframe \in BOOLEAN /\ busy \in BOOLEAN /\ failed \in BOOLEAN
      /\ number \in [Outputs -> 0 .. DmxOutFrames]
      /\ back \in [DmxOut!Channels -> DmxOut!Value]
      /\ front \in [DmxOut!Channels -> DmxOut!Value]
      /\ line \in [DmxOut!Channels -> DmxOut!Value]
      /\ written \in [DmxOut!Channels -> DmxOut!Value]
      /\ txSize \in 0 .. Universe + 1 /\ size \in 0 .. Universe
      /\ last \in 0 .. Universe /\ nextOut \in 1 .. last + 1
  BY DmxOutTypes DEF LineFollows
<1>1. ASSUME NEW o \in Outputs, NEW n \in 1 .. Universe + 1, DmxOut!Process(o, n)
      PROVE  LineFollows'
  <2> DEFINE m == DmxOut!Copied(n)
             new == DmxOut!Write(o, n)
  <2>1. ~busy /\ number[o] < DmxOutFrames
        /\ number' = [number EXCEPT ![o] = @ + 1]
        /\ txSize' = DmxOut!More(txSize, 1 + m)
        /\ busy' = TRUE /\ front' = new /\ back' = front'
        /\ nextOut' = 1 /\ last' = DmxOut!Length(txSize')
        /\ UNCHANGED <<line, failed, opened, fullframe>>
        /\ written' = [c \in DmxOut!Channels |-> IF c <= m THEN new[c] ELSE written[c]]
        /\ size' = m
    BY <1>1 DEF DmxOut!Process, DmxOut!Ready, DmxOut!StillSending, DmxOut!NewBack
  <2>2. m \in 0 .. Universe
    BY DmxOutNames DEF DmxOut!Copied, DmxOut!Less
  <2>3. txSize' = 1 + m
    BY <2>1, <2>2 DEF LineFollows, DmxOut!More
  <2>4. last' \in 0 .. Universe /\ m <= last' /\ (fullframe => last' = Universe)
    <3> HIDE DEF m
    <3>1. last' = IF fullframe THEN Universe
                  ELSE DmxOut!Less(DmxOut!More(MinChannels, 1 + m + TrailingChannels), Universe)
      BY <2>1, <2>3 DEF DmxOut!Length
    <3>2. CASE fullframe
      BY <2>2, <3>1, <3>2, DmxOutNames
    <3>3. CASE ~fullframe
      BY <2>2, <3>1, <3>3, DmxOutNames DEF DmxOut!Less, DmxOut!More
    <3>4. QED
      BY <3>2, <3>3
  <2>5. [from |-> o, frame |-> number[o] + 1] \in DmxOut!Value
    <3>1. number[o] + 1 \in 0 .. DmxOutFrames
      BY <1>0, <2>1, DmxOutNames
    <3>2. QED
      BY <3>1 DEF DmxOut!Value
  <2>6. new \in [DmxOut!Channels -> DmxOut!Value]
    BY <1>0, <2>5 DEF DmxOut!Write
  <2>7. written' = new
    <3>1. new = [c \in DmxOut!Channels |-> IF c <= m THEN [from |-> o, frame |-> number[o] + 1]
                                           ELSE written[c]]
      BY DEF DmxOut!Write, LineFollows
    <3> HIDE DEF new, m
    <3>2. QED
      BY <2>1, <3>1
  <2>8. number' \in [Outputs -> 0 .. DmxOutFrames]
    BY <1>0, <2>1, DmxOutNames
  <2> HIDE DEF m, new
  <2>9. DmxOut!TypeOK'
    <3>1. txSize' \in 0 .. Universe + 1 /\ size' \in 0 .. Universe
      BY <2>1, <2>2, <2>3, DmxOutNames
    <3>2. last' \in 0 .. Universe /\ nextOut' \in 1 .. last' + 1
      BY <2>1, <2>4
    <3>3. QED
      BY <1>0, <2>1, <2>6, <2>7, <2>8, <3>1, <3>2 DEF DmxOut!TypeOK
  <2>10. \A c \in DmxOut!Channels : ~(c < nextOut')
    BY <2>1, DmxOutNames
  <2>11. QED
    BY <2>1, <2>4, <2>7, <2>9, <2>10 DEF LineFollows, DmxOut!NewestOnLine
<1>2. CASE DmxOut!SendByte
  <2>1. nextOut <= last /\ line' = [line EXCEPT ![nextOut] = front[nextOut]]
        /\ nextOut' = nextOut + 1
        /\ UNCHANGED <<opened, fullframe, number, back, front, busy, txSize, last, failed,
                       written, size>>
    BY <1>2 DEF DmxOut!SendByte
  <2>2. busy
    BY <1>0, <2>1 DEF LineFollows
  <2>3. nextOut \in DmxOut!Channels
    BY <1>0, <2>1, DmxOutNames
  <2>4. \A c \in DmxOut!Channels : c < nextOut' => line'[c] = front[c]
    <3>1. ASSUME NEW c \in DmxOut!Channels, c < nextOut + 1 PROVE line'[c] = front[c]
      <4>1. c < nextOut \/ c = nextOut
        BY <1>0, <3>1, DmxOutNames
      <4>2. QED
        BY <1>0, <2>1, <2>2, <2>3, <4>1 DEF LineFollows
    <3>2. QED
      BY <2>1, <3>1
  <2>5. line' \in [DmxOut!Channels -> DmxOut!Value]
    BY <1>0, <2>1, <2>3
  <2>6. nextOut' \in 1 .. last' + 1
    BY <1>0, <2>1
  <2>7. DmxOut!TypeOK'
    BY <1>0, <2>1, <2>5, <2>6 DEF DmxOut!TypeOK
  <2>8. QED
    BY <2>1, <2>2, <2>4, <2>7 DEF LineFollows, DmxOut!NewestOnLine
<1>3. ASSUME NEW ok \in BOOLEAN, DmxOut!Finish(ok) PROVE LineFollows'
  <2>1. last > 0 /\ (ok => nextOut > last)
        /\ failed' = ~ok /\ txSize' = 0 /\ busy' = FALSE /\ nextOut' = 1 /\ last' = 0
        /\ UNCHANGED <<opened, fullframe, number, back, front, line, written, size>>
    BY <1>3 DEF DmxOut!Finish, DmxOut!BusyAfter
  <2>2. busy
    BY <1>0, <2>1 DEF LineFollows
  <2>3. ASSUME ok, NEW c \in DmxOut!Channels, fullframe \/ c <= size
        PROVE  line[c] = written[c]
    <3>1. c <= last
      BY <1>0, <2>2, <2>3, DmxOutNames DEF LineFollows
    <3>2. c < nextOut
      BY <1>0, <2>1, <2>3, <3>1, DmxOutNames
    <3>3. QED
      BY <2>2, <3>2 DEF LineFollows
  <2>4. DmxOut!TypeOK'
    <3>1. txSize' \in 0 .. Universe + 1 /\ last' \in 0 .. Universe /\ nextOut' \in 1 .. last' + 1
      BY <2>1, DmxOutNames
    <3>2. failed' \in BOOLEAN /\ busy' \in BOOLEAN
      BY <2>1
    <3>3. QED
      BY <1>0, <2>1, <3>1, <3>2 DEF DmxOut!TypeOK
  <2>5. DmxOut!NewestOnLine'
    BY <2>1, <2>3 DEF DmxOut!NewestOnLine
  <2>6. QED
    BY <2>1, <2>4, <2>5 DEF LineFollows
<1>4. CASE UNCHANGED DmxOut!vars
  BY <1>4 DEF DmxOut!vars, DmxOut!threadVars, LineFollows, DmxOut!TypeOK, DmxOut!NewestOnLine
<1>5. QED
  BY <1>1, <1>2, <1>3, <1>4 DEF DmxOut!Next

-----------------------------------------------------------------------------
(* Serial MIDI: what Hyperion keeps of the device.                         *)

IsRecord(o) ==
  o = [alive |-> o.alive, controllers |-> o.controllers, hub |-> o.hub,
       clocks |-> o.clocks, sources |-> o.sources, listeners |-> o.listeners,
       misused |-> o.misused]

(* The device has a controller, if its name is known, and a clock; another *)
(* clock is left, that nobody destroys.                                    *)
IsKept(o, controller, clock, double) ==
  /\ IsRecord(o) /\ o.misused = FALSE
  /\ o.alive = {Device}
  /\ o.controllers = IF controller THEN {Device} ELSE {}
  /\ o.hub = IF controller /\ Known THEN {Device} ELSE {}
  /\ o.clocks = IF clock THEN {Device} ELSE {}
  /\ o.sources = [d \in Address |-> (IF clock THEN 1 ELSE 0) + (IF double THEN 1 ELSE 0)]
  /\ o.listeners = [d \in Address |->
                      (IF controller /\ Known THEN {"controller"} ELSE {})
                      \cup (IF clock \/ double THEN {"clock"} ELSE {})]

(* A record is changed in its fields.                                      *)
Heard(f, D, l)   == [d \in Address |-> IF d \in D THEN f[d] \cup {l} ELSE f[d]]
Unheard(f, D, l) == [d \in Address |-> IF d \in D THEN f[d] \ {l} ELSE f[d]]

AreAlive(o, D) == D \subseteq o.alive

(* r is o with these listeners.                                            *)
SameBut(r, o, f) ==
  /\ IsRecord(r) /\ r.misused = FALSE
  /\ r.alive = o.alive /\ r.controllers = o.controllers /\ r.hub = o.hub
  /\ r.clocks = o.clocks /\ r.sources = o.sources
  /\ r.listeners = f

LEMMA ListenFields ==
  ASSUME NEW o, NEW D, NEW l, IsRecord(o), AreAlive(o, D), o.misused = FALSE
  PROVE  SameBut(Din!Listen(o, D, l), o, Heard(o.listeners, D, l))
<1> DEFINE r == Din!Listen(o, D, l)
<1>1. r = [o EXCEPT !.listeners = [d \in Address |-> IF d \in D THEN @[d] \cup {l} ELSE @[d]],
                    !.misused = @ \/ ~(D \subseteq o.alive)]
  BY DEF Din!Listen
<1> HIDE DEF r
<1>2. IsRecord(r)
  BY <1>1 DEF IsRecord
<1>3. /\ r.alive = o.alive /\ r.controllers = o.controllers /\ r.hub = o.hub
      /\ r.clocks = o.clocks /\ r.sources = o.sources
  BY <1>1 DEF IsRecord
<1>4. r.listeners = Heard(o.listeners, D, l)
  BY <1>1 DEF IsRecord, Heard, Unheard
<1>5. r.misused = FALSE
  BY <1>1 DEF IsRecord, AreAlive
<1>6. QED
  BY <1>2, <1>3, <1>4, <1>5 DEF r, SameBut

LEMMA UnlistenFields ==
  ASSUME NEW o, NEW D, NEW l, IsRecord(o), AreAlive(o, D), o.misused = FALSE
  PROVE  SameBut(Din!Unlisten(o, D, l), o, Unheard(o.listeners, D, l))
<1> DEFINE r == Din!Unlisten(o, D, l)
<1>1. r = [o EXCEPT !.listeners = [d \in Address |-> IF d \in D THEN @[d] \ {l} ELSE @[d]],
                    !.misused = @ \/ ~(D \subseteq o.alive)]
  BY DEF Din!Unlisten
<1> HIDE DEF r
<1>2. IsRecord(r)
  BY <1>1 DEF IsRecord
<1>3. /\ r.alive = o.alive /\ r.controllers = o.controllers /\ r.hub = o.hub
      /\ r.clocks = o.clocks /\ r.sources = o.sources
  BY <1>1 DEF IsRecord
<1>4. r.listeners = Unheard(o.listeners, D, l)
  BY <1>1 DEF IsRecord, Heard, Unheard
<1>5. r.misused = FALSE
  BY <1>1 DEF IsRecord, AreAlive
<1>6. QED
  BY <1>2, <1>3, <1>4, <1>5 DEF r, SameBut

LEMMA ControllerComes ==
  ASSUME NEW o, NEW c \in BOOLEAN, NEW k \in BOOLEAN, NEW t \in BOOLEAN,
         IsKept(o, c, k, t)
  PROVE  IsKept(Din!ControllerCreated(o, {Device}, Din!KnownDevices), TRUE, k, t)
<1> DEFINE made == IF Known /\ ~c THEN {Device} ELSE {}
           p == [o EXCEPT !.controllers = @ \cup {Device}, !.hub = @ \cup made]
           r == Din!Listen(p, made, "controller")
<1>1. /\ IsRecord(o) /\ o.misused = FALSE /\ o.alive = {Device}
      /\ o.controllers = IF c THEN {Device} ELSE {}
      /\ o.hub = IF c /\ Known THEN {Device} ELSE {}
  BY DEF IsKept
<1>2. Din!ControllerCreated(o, {Device}, Din!KnownDevices) = r
  <2>1. ({Device} \cap Din!KnownDevices) \ o.controllers = made
    BY <1>1 DEF Din!KnownDevices
  <2>2. QED
    BY <2>1 DEF Din!ControllerCreated
<1> HIDE DEF made
<1>3. /\ IsRecord(p) /\ p.misused = FALSE /\ p.alive = {Device}
      /\ p.controllers = {Device} /\ p.hub = o.hub \cup made /\ p.clocks = o.clocks
      /\ p.sources = o.sources /\ p.listeners = o.listeners
  <2>1. p = [o EXCEPT !.controllers = @ \cup {Device}, !.hub = @ \cup made]
    OBVIOUS
  <2> HIDE DEF p
  <2>2. IsRecord(p)
    BY <1>1, <2>1 DEF IsRecord
  <2>3. p.misused = o.misused /\ p.alive = o.alive /\ p.listeners = o.listeners
    BY <1>1, <2>1 DEF IsRecord
  <2>4. p.controllers = o.controllers \cup {Device} /\ p.hub = o.hub \cup made
        /\ p.clocks = o.clocks /\ p.sources = o.sources
    BY <1>1, <2>1 DEF IsRecord
  <2>6. QED
    BY <1>1, <2>2, <2>3, <2>4
<1> HIDE DEF p
<1>4. /\ IsRecord(r) /\ r.misused = FALSE /\ r.alive = {Device}
      /\ r.controllers = {Device} /\ r.hub = o.hub \cup made /\ r.clocks = o.clocks
      /\ r.sources = o.sources
      /\ r.listeners = Heard(o.listeners, made, "controller")
  <2>1. AreAlive(p, made)
    BY <1>3 DEF made, AreAlive
  <2>2. SameBut(r, p, Heard(p.listeners, made, "controller"))
    BY <1>3, <2>1, ListenFields
  <2> HIDE DEF r
  <2>3. QED
    BY <1>3, <2>2 DEF SameBut
<1> HIDE DEF r
<1>5. r.listeners = [d \in Address |-> (IF Known THEN {"controller"} ELSE {})
                                      \cup (IF k \/ t THEN {"clock"} ELSE {})]
  <2>1. CASE c
    BY <1>4, <2>1, DinNames DEF IsKept, made, Heard
  <2>2. CASE ~c
    BY <1>4, <2>2, DinNames DEF IsKept, made, Heard
  <2>3. QED
    BY <2>1, <2>2
<1>6. r.hub = IF Known THEN {Device} ELSE {}
  BY <1>1, <1>4 DEF made
<1>7. r.clocks = (IF k THEN {Device} ELSE {})
      /\ r.sources = [d \in Address |-> (IF k THEN 1 ELSE 0) + (IF t THEN 1 ELSE 0)]
  BY <1>4 DEF IsKept
<1>8. IsKept(r, TRUE, k, t)
  BY <1>4, <1>5, <1>6, <1>7 DEF IsKept
<1>9. QED
  BY <1>2, <1>8

LEMMA ControllerGoes ==
  ASSUME NEW o, NEW k \in BOOLEAN, NEW t \in BOOLEAN, IsKept(o, TRUE, k, t)
  PROVE  IsKept(Din!ControllerDestroyed(o, {Device}), FALSE, k, t)
<1> DEFINE p == [o EXCEPT !.controllers = @ \ {Device}, !.hub = @ \ {Device}]
           r == Din!Unlisten(p, o.hub, "controller")
<1>1. /\ IsRecord(o) /\ o.misused = FALSE /\ o.alive = {Device}
      /\ o.controllers = {Device} /\ o.hub = IF Known THEN {Device} ELSE {}
  BY DEF IsKept
<1>2. Din!ControllerDestroyed(o, {Device}) = r
  <2>1. {Device} \cap o.hub = o.hub
    BY <1>1
  <2>2. QED
    BY <2>1 DEF Din!ControllerDestroyed
<1>3. /\ IsRecord(p) /\ p.misused = FALSE /\ p.alive = {Device}
      /\ p.controllers = {} /\ p.hub = {} /\ p.clocks = o.clocks
      /\ p.sources = o.sources /\ p.listeners = o.listeners
  <2>1. p = [o EXCEPT !.controllers = @ \ {Device}, !.hub = @ \ {Device}]
    OBVIOUS
  <2> HIDE DEF p
  <2>2. IsRecord(p)
    BY <1>1, <2>1 DEF IsRecord
  <2>3. p.misused = o.misused /\ p.alive = o.alive /\ p.listeners = o.listeners
    BY <1>1, <2>1 DEF IsRecord
  <2>4. p.controllers = o.controllers \ {Device} /\ p.hub = o.hub \ {Device}
        /\ p.clocks = o.clocks /\ p.sources = o.sources
    BY <1>1, <2>1 DEF IsRecord
  <2>6. QED
    BY <1>1, <2>2, <2>3, <2>4
<1> HIDE DEF p
<1>4. /\ IsRecord(r) /\ r.misused = FALSE /\ r.alive = {Device}
      /\ r.controllers = {} /\ r.hub = {} /\ r.clocks = o.clocks
      /\ r.sources = o.sources
      /\ r.listeners = Unheard(o.listeners, o.hub, "controller")
  <2>1. AreAlive(p, o.hub)
    BY <1>1, <1>3 DEF AreAlive
  <2>2. SameBut(r, p, Unheard(p.listeners, o.hub, "controller"))
    BY <1>3, <2>1, UnlistenFields
  <2> HIDE DEF r
  <2>3. QED
    BY <1>3, <2>2 DEF SameBut
<1> HIDE DEF r
<1>5. r.listeners = [d \in Address |-> IF k \/ t THEN {"clock"} ELSE {}]
  <2>1. CASE Known
    BY <1>1, <1>4, <2>1, DinNames DEF IsKept, Unheard
  <2>2. CASE ~Known
    BY <1>1, <1>4, <2>2, DinNames DEF IsKept, Unheard
  <2>3. QED
    BY <2>1, <2>2
<1>6. IsKept(r, FALSE, k, t)
  BY <1>4, <1>5 DEF IsKept
<1>7. QED
  BY <1>2, <1>6

LEMMA ClockComes ==
  ASSUME NEW o, NEW c \in BOOLEAN, NEW k \in BOOLEAN, NEW t \in BOOLEAN,
         IsKept(o, c, k, t), ~(k /\ t)
  PROVE  IsKept(Din!ClockCreated(o, {Device}), c, TRUE, k \/ t)
<1> DEFINE p == [o EXCEPT !.clocks = @ \cup {Device},
                          !.sources = [d \in Address |-> IF d \in {Device} THEN @[d] + 1 ELSE @[d]]]
           r == Din!Listen(p, {Device}, "clock")
<1>1. /\ IsRecord(o) /\ o.misused = FALSE /\ o.alive = {Device}
      /\ o.clocks = IF k THEN {Device} ELSE {}
  BY DEF IsKept
<1>2. /\ IsRecord(p) /\ p.misused = FALSE /\ p.alive = {Device}
      /\ p.controllers = o.controllers /\ p.hub = o.hub /\ p.clocks = {Device}
      /\ p.listeners = o.listeners
      /\ p.sources = [d \in Address |-> IF d \in {Device} THEN o.sources[d] + 1 ELSE o.sources[d]]
  <2>1. p = [o EXCEPT !.clocks = @ \cup {Device},
                      !.sources = [d \in Address |-> IF d \in {Device} THEN @[d] + 1 ELSE @[d]]]
    OBVIOUS
  <2> HIDE DEF p
  <2>2. IsRecord(p)
    BY <1>1, <2>1 DEF IsRecord
  <2>3. p.misused = o.misused /\ p.alive = o.alive /\ p.listeners = o.listeners
    BY <1>1, <2>1 DEF IsRecord
  <2>4. p.controllers = o.controllers /\ p.hub = o.hub /\ p.clocks = o.clocks \cup {Device}
    BY <1>1, <2>1 DEF IsRecord
  <2>5. p.sources = [d \in Address |-> IF d \in {Device} THEN o.sources[d] + 1
                                        ELSE o.sources[d]]
    BY <1>1, <2>1 DEF IsRecord
  <2>6. QED
    BY <1>1, <2>2, <2>3, <2>4, <2>5
<1>3. Din!ClockCreated(o, {Device}) = r
  BY DEF Din!ClockCreated
<1> HIDE DEF p
<1>4. p.sources = [d \in Address |-> 1 + (IF k \/ t THEN 1 ELSE 0)]
  BY <1>2, DinNames DEF IsKept
<1>5. /\ IsRecord(r) /\ r.misused = FALSE /\ r.alive = {Device}
      /\ r.controllers = o.controllers /\ r.hub = o.hub /\ r.clocks = {Device}
      /\ r.sources = [d \in Address |-> 1 + (IF k \/ t THEN 1 ELSE 0)]
      /\ r.listeners = Heard(o.listeners, {Device}, "clock")
  <2>1. AreAlive(p, {Device})
    BY <1>2 DEF AreAlive
  <2>2. SameBut(r, p, Heard(p.listeners, {Device}, "clock"))
    BY <1>2, <2>1, ListenFields
  <2> HIDE DEF r
  <2>3. QED
    BY <1>2, <1>4, <2>2 DEF SameBut
<1> HIDE DEF r
<1>6. r.listeners = [d \in Address |-> (IF c /\ Known THEN {"controller"} ELSE {}) \cup {"clock"}]
  BY <1>5, DinNames DEF IsKept, Heard
<1>7. QED
  BY <1>3, <1>5, <1>6 DEF IsKept

LEMMA ClockGoes ==
  ASSUME NEW o, NEW c \in BOOLEAN, NEW t \in BOOLEAN, IsKept(o, c, TRUE, t)
  PROVE  IsKept(Din!ClockDestroyed(o, {Device}), c, FALSE, t)
<1> DEFINE twice == {d \in {Device} : o.sources[d] = 2}
           p == [o EXCEPT !.clocks = @ \ {Device},
                          !.sources = [d \in Address |-> IF d \in {Device} \cap o.clocks
                                                         THEN @[d] - 1 ELSE @[d]],
                          !.misused = @ \/ ~(twice \subseteq o.alive)]
           r == Din!Unlisten(p, {Device} \ twice, "clock")
<1>1. /\ IsRecord(o) /\ o.misused = FALSE /\ o.alive = {Device} /\ o.clocks = {Device}
      /\ o.sources = [d \in Address |-> 1 + (IF t THEN 1 ELSE 0)]
  BY DEF IsKept
<1>2. twice = IF t THEN {Device} ELSE {}
  BY <1>1, DinNames
<1>3. Din!ClockDestroyed(o, {Device}) = r
  BY DEF Din!ClockDestroyed
<1> HIDE DEF twice
<1>4. /\ IsRecord(p) /\ p.misused = FALSE /\ p.alive = {Device}
      /\ p.controllers = o.controllers /\ p.hub = o.hub /\ p.clocks = {}
      /\ p.listeners = o.listeners
      /\ p.sources = [d \in Address |-> IF d \in {Device} \cap o.clocks
                                        THEN o.sources[d] - 1 ELSE o.sources[d]]
  <2>1. p = [o EXCEPT !.clocks = @ \ {Device},
                      !.sources = [d \in Address |-> IF d \in {Device} \cap o.clocks
                                                      THEN @[d] - 1 ELSE @[d]],
                      !.misused = @ \/ ~(twice \subseteq o.alive)]
    OBVIOUS
  <2> HIDE DEF p
  <2>2. IsRecord(p)
    BY <1>1, <2>1 DEF IsRecord
  <2>3. p.alive = o.alive /\ p.listeners = o.listeners
    BY <1>1, <2>1 DEF IsRecord
  <2>4. p.misused = FALSE
    BY <1>1, <1>2, <2>1 DEF IsRecord
  <2>5. p.controllers = o.controllers /\ p.hub = o.hub /\ p.clocks = o.clocks \ {Device}
    BY <1>1, <2>1 DEF IsRecord
  <2>6. p.sources = [d \in Address |-> IF d \in {Device} \cap o.clocks THEN o.sources[d] - 1
                                        ELSE o.sources[d]]
    BY <1>1, <2>1 DEF IsRecord
  <2>7. QED
    BY <1>1, <2>2, <2>3, <2>4, <2>5, <2>6
<1> HIDE DEF p
<1>5. p.sources = [d \in Address |-> IF t THEN 1 ELSE 0]
  BY <1>1, <1>4, DinNames
<1>6. /\ IsRecord(r) /\ r.misused = FALSE /\ r.alive = {Device}
      /\ r.controllers = o.controllers /\ r.hub = o.hub /\ r.clocks = {}
      /\ r.sources = [d \in Address |-> IF t THEN 1 ELSE 0]
      /\ r.listeners = Unheard(o.listeners, {Device} \ twice, "clock")
  <2>1. AreAlive(p, {Device} \ twice)
    BY <1>4 DEF AreAlive
  <2>2. SameBut(r, p, Unheard(p.listeners, {Device} \ twice, "clock"))
    BY <1>4, <2>1, UnlistenFields
  <2> HIDE DEF r
  <2>3. QED
    BY <1>4, <1>5, <2>2 DEF SameBut
<1> HIDE DEF r
<1>7. r.listeners = [d \in Address |-> (IF c /\ Known THEN {"controller"} ELSE {})
                                       \cup (IF t THEN {"clock"} ELSE {})]
  <2>1. CASE t
    BY <1>2, <1>6, <2>1, DinNames DEF IsKept, Unheard
  <2>2. CASE ~t
    BY <1>2, <1>6, <2>2, DinNames DEF IsKept, Unheard
  <2>3. QED
    BY <2>1, <2>2
<1>8. IsKept(r, c, FALSE, t)
  BY <1>1, <1>6, <1>7 DEF IsKept
<1>9. QED
  BY <1>3, <1>8

LEMMA DeviceComes ==
  ASSUME NEW o, NEW callbacks, NEW c \in BOOLEAN, NEW k \in BOOLEAN, NEW t \in BOOLEAN,
         IsKept(o, c, k, t), "clocks" \in callbacks => ~(k /\ t)
  PROVE  \E c2, k2, t2 \in BOOLEAN :
           /\ IsKept(Din!Created(o, {Device}, Din!KnownDevices, callbacks), c2, k2, t2)
           /\ c2 <=> c \/ "controllers" \in callbacks
           /\ k2 <=> k \/ "clocks" \in callbacks
           /\ t2 <=> t \/ (k /\ "clocks" \in callbacks)
<1> DEFINE p == IF "controllers" \in callbacks
                THEN Din!ControllerCreated(o, {Device}, Din!KnownDevices) ELSE o
<1>1. PICK c2 \in BOOLEAN : IsKept(p, c2, k, t) /\ (c2 <=> c \/ "controllers" \in callbacks)
  BY ControllerComes
<1>2. Din!Created(o, {Device}, Din!KnownDevices, callbacks) =
        IF "clocks" \in callbacks THEN Din!ClockCreated(p, {Device}) ELSE p
  BY DEF Din!Created
<1> HIDE DEF p
<1>3. CASE "clocks" \in callbacks
  <2>1. PICK t2 \in BOOLEAN : t2 <=> k \/ t
    OBVIOUS
  <2>2. IsKept(Din!ClockCreated(p, {Device}), c2, TRUE, k \/ t)
    BY <1>1, <1>3, ClockComes
  <2>3. IsKept(Din!ClockCreated(p, {Device}), c2, TRUE, t2)
    BY <2>1, <2>2 DEF IsKept
  <2>4. QED
    BY <1>1, <1>2, <1>3, <2>1, <2>3
<1>4. CASE "clocks" \notin callbacks
  BY <1>1, <1>2, <1>4
<1>5. QED
  BY <1>3, <1>4

LEMMA DeviceGoes ==
  ASSUME NEW o, NEW callbacks, NEW c \in BOOLEAN, NEW k \in BOOLEAN, NEW t \in BOOLEAN,
         IsKept(o, c, k, t),
         c <=> "controllers" \in callbacks, k <=> "clocks" \in callbacks
  PROVE  IsKept(Din!Destroyed(o, {Device}, callbacks), FALSE, FALSE, t)
<1> DEFINE p == IF "controllers" \in callbacks
                THEN Din!ControllerDestroyed(o, {Device}) ELSE o
<1>1. IsKept(p, FALSE, k, t)
  <2>1. CASE c
    <3>1. IsKept(o, TRUE, k, t)
      BY <2>1 DEF IsKept
    <3>2. QED
      BY <2>1, <3>1, ControllerGoes
  <2>2. CASE ~c
    BY <2>2 DEF IsKept
  <2>3. QED
    BY <2>1, <2>2
<1>2. Din!Destroyed(o, {Device}, callbacks) =
        IF "clocks" \in callbacks THEN Din!ClockDestroyed(p, {Device}) ELSE p
  BY DEF Din!Destroyed
<1> HIDE DEF p
<1>3. CASE k
  <2>1. IsKept(p, FALSE, TRUE, t)
    BY <1>1, <1>3 DEF IsKept
  <2>2. QED
    BY <1>2, <1>3, <2>1, ClockGoes
<1>4. CASE ~k
  BY ZenonT(60), <1>1, <1>2, <1>4 DEF IsKept
<1>5. QED
  BY <1>3, <1>4

(* While the port is connected there is what the callbacks that are        *)
(* registered keep.  Between two connections there is nothing, but if the  *)
(* callbacks came first: then there is one clock, that its callback was    *)
(* told of or that was left of the last connection, and the next           *)
(* connection makes another one.                                           *)
MayKeep(c, k, t) ==
  /\ c => "controllers" \in registered
  /\ k \/ t => "clocks" \in registered
  /\ connected => (c <=> "controllers" \in registered) /\ (k <=> "clocks" \in registered)
  /\ ~connected => ~(k /\ t)
  /\ t \/ (k /\ ~connected) => early

OwnersFollow ==
  /\ registered \in {{}, {"controllers"}, {"controllers", "clocks"}}
  /\ sense => connected
  /\ early \in BOOLEAN
  /\ \E c, k, t \in BOOLEAN : IsKept(own, c, k, t) /\ MayKeep(c, k, t)

DinSafe == PortFollows /\ DinFlags /\ OwnersFollow

LEMMA DinSafeIsEnough ==
  ASSUME DinSafe
  PROVE  Din!TypeOK /\ Din!OneClock /\ Din!ServedWhileHeard
<1> USE DEF DinSafe, OwnersFollow
<1>1. registered \subseteq Din!Callbacks
  BY DEF Din!Callbacks
<1>2. PICK c \in BOOLEAN, k \in BOOLEAN, t \in BOOLEAN :
        IsKept(own, c, k, t) /\ MayKeep(c, k, t)
  OBVIOUS
<1>3. own \in Din!Owners
  <2>1. IsRecord(own) /\ own.misused \in BOOLEAN
        /\ own.alive \in SUBSET Address /\ own.controllers \in SUBSET Address
        /\ own.hub \in SUBSET Address /\ own.clocks \in SUBSET Address
    BY <1>2, DinNames DEF IsKept
  <2>2. own.sources \in [Address -> 0 .. 2]
    BY <1>2 DEF IsKept
  <2>3. own.listeners \in [Address -> SUBSET {"controller", "clock"}]
    BY <1>2 DEF IsKept
  <2>4. QED
    BY <2>1, <2>2, <2>3 DEF IsRecord, Din!Owners
<1>4. Din!TypeOK
  BY <1>1, <1>3 DEF Din!TypeOK, DinFlags, PortFollows
<1>5. Din!OneClock
  <2>1. /\ ~own.misused
        /\ own.hub \cup own.controllers \cup own.clocks \subseteq own.alive
    BY <1>2 DEF IsKept
  <2>2. own.sources[Device] - (IF Device \in own.clocks THEN 1 ELSE 0) = IF t THEN 1 ELSE 0
    BY <1>2, DinNames DEF IsKept
  <2>3. t => early
    BY <1>2 DEF MayKeep
  <2>4. QED
    BY <2>1, <2>2, <2>3 DEF Din!OneClock
<1>6. Din!ServedWhileHeard
  <2> SUFFICES ASSUME connected
               PROVE  /\ "clocks" \in registered =>
                           Device \in own.clocks /\ "clock" \in own.listeners[Device]
                      /\ Known /\ "controllers" \in registered =>
                           Device \in own.hub /\ "controller" \in own.listeners[Device]
    BY DEF Din!ServedWhileHeard
  <2>1. (c <=> "controllers" \in registered) /\ (k <=> "clocks" \in registered)
    BY <1>2 DEF MayKeep
  <2>2. QED
    BY <1>2, <2>1, DinNames DEF IsKept
<1>7. QED
  BY <1>4, <1>5, <1>6

LEMMA OwnersInit == Init => OwnersFollow
<1> SUFFICES ASSUME Init PROVE OwnersFollow
  OBVIOUS
<1>1. /\ registered = {} /\ connected = FALSE /\ sense = FALSE /\ early = FALSE
      /\ own = [Din!NoOwners EXCEPT !.alive = {Device}]
  BY DEF Init, Din!Init
<1>2. own = [alive |-> {Device}, controllers |-> {}, hub |-> {}, clocks |-> {},
             sources |-> [d \in Address |-> 0], listeners |-> [d \in Address |-> {}],
             misused |-> FALSE]
  BY <1>1 DEF Din!NoOwners
<1>3. IsKept(own, FALSE, FALSE, FALSE)
  BY <1>2 DEF IsKept, IsRecord
<1>4. MayKeep(FALSE, FALSE, FALSE)
  BY <1>1 DEF MayKeep
<1>5. QED
  BY <1>1, <1>3, <1>4 DEF OwnersFollow

LEMMA OwnersStep ==
  ASSUME OwnersFollow, DinFlags, [Din!Next]_(Din!vars)
  PROVE  OwnersFollow' /\ sense' \in BOOLEAN /\ connected' \in BOOLEAN
<1>1. /\ registered \in {{}, {"controllers"}, {"controllers", "clocks"}}
      /\ (sense => connected) /\ early \in BOOLEAN
      /\ sense \in BOOLEAN /\ connected \in BOOLEAN
  BY DEF OwnersFollow, DinFlags
<1>2. PICK c \in BOOLEAN, k \in BOOLEAN, t \in BOOLEAN :
         IsKept(own, c, k, t) /\ MayKeep(c, k, t)
  BY DEF OwnersFollow
<1>3. ASSUME UNCHANGED <<registered, early>>, sense' => connected',
             NEW c2 \in BOOLEAN, NEW k2 \in BOOLEAN, NEW t2 \in BOOLEAN,
             IsKept(own', c2, k2, t2), MayKeep(c2, k2, t2)'
      PROVE  OwnersFollow'
  BY <1>1, <1>3 DEF OwnersFollow
<1>4. ASSUME NEW x, Din!Line(x)
      PROVE  OwnersFollow' /\ sense' \in BOOLEAN /\ connected' \in BOOLEAN
  <2>1. UNCHANGED <<registered, early>>
    BY <1>4 DEF Din!Line
  <2>2. CASE ~plugged
    <3>1. UNCHANGED <<connected, sense, own>>
      BY <1>4, <2>2 DEF Din!Line, Din!port
    <3>2. IsKept(own', c, k, t) /\ MayKeep(c, k, t)'
      BY <1>2, <2>1, <3>1 DEF MayKeep
    <3>3. QED
      BY <1>1, <1>3, <2>1, <3>1, <3>2
  <2>3. CASE plugged
    <3>1. /\ connected' = TRUE
          /\ own' = IF connected THEN own
                    ELSE Din!Created(own, {Device}, Din!KnownDevices, registered)
          /\ sense' \in BOOLEAN
      BY <1>1, <1>4, <2>3
         DEF Din!Line, Din!Receive, Din!Connect, Din!OnRealtime
    <3>2. CASE connected
      <4>1. IsKept(own', c, k, t) /\ MayKeep(c, k, t)'
        BY <1>2, <2>1, <3>1, <3>2 DEF MayKeep
      <4>2. QED
        BY <1>3, <2>1, <3>1, <4>1
    <3>3. CASE ~connected
      <4>1. ~(k /\ t)
        BY <1>2, <3>3 DEF MayKeep
      <4>2. PICK c2 \in BOOLEAN, k2 \in BOOLEAN, t2 \in BOOLEAN :
              /\ IsKept(Din!Created(own, {Device}, Din!KnownDevices, registered), c2, k2, t2)
              /\ c2 <=> c \/ "controllers" \in registered
              /\ k2 <=> k \/ "clocks" \in registered
              /\ t2 <=> t \/ (k /\ "clocks" \in registered)
        BY SMTT(30), <1>2, <4>1, DeviceComes
      <4>3. MayKeep(c2, k2, t2)'
        BY <1>2, <2>1, <3>1, <3>3, <4>2 DEF MayKeep
      <4>4. QED
        BY <1>3, <2>1, <3>1, <3>3, <4>2, <4>3
    <3>4. QED
      BY <3>1, <3>2, <3>3
  <2>4. QED
    BY <2>2, <2>3
<1>5. CASE Din!SayByte \/ Din!SayRealtime
  <2>1. \E x : Din!Line(x)
    BY <1>5 DEF Din!SayByte, Din!SayRealtime
  <2>2. QED
    BY <1>4, <2>1
<1>6. CASE Din!Silence
  <2>1. /\ sense' = FALSE /\ connected' = (connected /\ ~sense)
        /\ own' = IF sense THEN Din!Destroyed(own, {Device}, registered) ELSE own
        /\ UNCHANGED <<registered, early>>
    BY <1>6 DEF Din!Silence, Din!OnSilence
  <2>2. CASE sense
    <3>1. (c <=> "controllers" \in registered) /\ (k <=> "clocks" \in registered)
      BY <1>1, <1>2, <2>2 DEF MayKeep
    <3>2. IsKept(own', FALSE, FALSE, t)
      BY <1>2, <2>1, <2>2, <3>1, DeviceGoes
    <3>3. MayKeep(FALSE, FALSE, t)'
      BY <1>2, <2>1, <2>2 DEF MayKeep
    <3>4. QED
      BY <1>3, <2>1, <2>2, <3>2, <3>3
  <2>3. CASE ~sense
    <3>1. IsKept(own', c, k, t) /\ MayKeep(c, k, t)'
      BY <1>2, <2>1, <2>3 DEF MayKeep
    <3>2. QED
      BY <1>1, <1>3, <2>1, <2>3, <3>1
  <2>4. QED
    BY <2>2, <2>3
<1>7. CASE Din!SetupMidi
  <2>1. /\ registered = {} /\ registered' = {"controllers"}
        /\ own' = Din!Created(own, {Device}, Din!KnownDevices, {"controllers"})
        /\ UNCHANGED <<connected, sense, early>>
    BY <1>7 DEF Din!SetupMidi, Din!Register, Din!port
  <2>2. ~k /\ ~t
    BY <1>2, <2>1 DEF MayKeep
  <2>3. PICK c2 \in BOOLEAN, k2 \in BOOLEAN, t2 \in BOOLEAN :
          IsKept(own', c2, k2, t2) /\ c2 /\ ~k2 /\ ~t2
    <3>1. PICK them : them = {"controllers"}
      OBVIOUS
    <3>2. "controllers" \in them /\ "clocks" \notin them
      BY <3>1
    <3>3. IsKept(own, c, k, t) /\ ("clocks" \in them => ~(k /\ t))
      BY <1>2, <2>2
    <3>4. PICK c2 \in BOOLEAN, k2 \in BOOLEAN, t2 \in BOOLEAN :
            /\ IsKept(Din!Created(own, {Device}, Din!KnownDevices, them), c2, k2, t2)
            /\ c2 <=> c \/ "controllers" \in them
            /\ k2 <=> k \/ "clocks" \in them
            /\ t2 <=> t \/ (k /\ "clocks" \in them)
      BY <3>3, DeviceComes
    <3>5. QED
      BY <2>1, <2>2, <3>1, <3>2, <3>4
  <2>4. MayKeep(c2, k2, t2)'
    BY <2>1, <2>3 DEF MayKeep
  <2>5. QED
    BY <1>1, <2>1, <2>3, <2>4 DEF OwnersFollow
<1>8. CASE Din!SetupTempo
  <2>1. /\ registered = {"controllers"} /\ registered' = {"controllers", "clocks"}
        /\ own' = Din!Created(own, {Device}, Din!KnownDevices, {"clocks"})
        /\ UNCHANGED <<connected, sense>> /\ early' = ~connected
    BY <1>8 DEF Din!SetupTempo, Din!Register, Din!port
  <2>2. ~k /\ ~t /\ (connected => c)
    BY <1>2, <2>1 DEF MayKeep
  <2>3. PICK c2 \in BOOLEAN, k2 \in BOOLEAN, t2 \in BOOLEAN :
          IsKept(own', c2, k2, t2) /\ (c2 <=> c) /\ k2 /\ ~t2
    <3>1. PICK c2 \in BOOLEAN, k2 \in BOOLEAN, t2 \in BOOLEAN :
            /\ IsKept(Din!Created(own, {Device}, Din!KnownDevices, {"clocks"}), c2, k2, t2)
            /\ c2 <=> c \/ "controllers" \in {"clocks"}
            /\ k2 <=> k \/ "clocks" \in {"clocks"}
            /\ t2 <=> t \/ (k /\ "clocks" \in {"clocks"})
      BY SMTT(30), <1>2, <2>2, DeviceComes
    <3>2. QED
      BY <2>1, <2>2, <3>1
  <2>4. MayKeep(c2, k2, t2)'
    BY <2>1, <2>2, <2>3 DEF MayKeep
  <2>5. QED
    BY <1>1, <2>1, <2>3, <2>4 DEF OwnersFollow
<1>9. CASE Din!Unplug \/ Din!Plug \/ UNCHANGED Din!vars
  <2>1. UNCHANGED <<registered, early, own, connected, sense>>
    BY <1>9 DEF Din!Unplug, Din!Plug, Din!vars, Din!port
  <2>2. IsKept(own', c, k, t) /\ MayKeep(c, k, t)'
    BY <1>2, <2>1 DEF MayKeep
  <2>3. QED
    BY <1>1, <1>3, <2>1, <2>2
<1>10. QED
  BY <1>5, <1>6, <1>7, <1>8, <1>9 DEF Din!Next

LEMMA DinSafeInit == Init => DinSafe
<1> SUFFICES ASSUME Init PROVE DinSafe
  OBVIOUS
<1>1. PortFollows /\ DinFlags
  <2>1. PortFollows
    BY DEF Init, Din!Init, PortFollows
  <2>2. DinFlags
    BY DEF Init, Din!Init, DinFlags
  <2>3. QED
    BY <2>1, <2>2
<1>2. QED
  BY <1>1, OwnersInit DEF DinSafe

LEMMA DinSafeStep ==
  ASSUME DinSafe, [Din!Next]_(Din!vars)
  PROVE  DinSafe'
<1>1. PortFollows /\ DinFlags /\ OwnersFollow
  BY DEF DinSafe
<1>2. PortFollows' /\ OwnersFollow' /\ sense' \in BOOLEAN /\ connected' \in BOOLEAN
  BY <1>1, DinFollows, OwnersStep
<1>3. event' \in Din!Messages \cup {<<b>> : b \in Din!Realtime} \cup {<<>>}
  <2>1. CASE Din!SayByte
    <3>1. PICK m \in IF saying = <<>> THEN Din!Messages ELSE {saying} : Din!Line(m[said + 1])
      BY <2>1 DEF Din!SayByte
    <3>2. CASE plugged
      <4>1. m \in Din!Messages /\ event' \in {m, <<>>}
        BY <1>1, <3>1, <3>2, ByteFacts
      <4>2. QED
        BY <4>1
    <3>3. CASE ~plugged
      BY <3>1, <3>3 DEF Din!Line
    <3>4. QED
      BY <3>2, <3>3
  <2>2. CASE Din!SayRealtime
    <3>1. PICK b \in Din!Realtime : Din!Line(b)
      BY <2>2 DEF Din!SayRealtime
    <3>2. event' \in {<<b>>, <<>>}
      BY <3>1 DEF Din!Line, Din!Receive, Din!OnRealtime
    <3>3. QED
      BY <3>2
  <2>3. CASE Din!Silence \/ Din!Unplug \/ Din!Plug \/ Din!SetupMidi \/ Din!SetupTempo
    BY <2>3 DEF Din!Silence, Din!OnSilence, Din!Unplug, Din!Plug, Din!SetupMidi, Din!SetupTempo,
                Din!Register
  <2>4. CASE UNCHANGED Din!vars
    BY <1>1, <2>4 DEF Din!vars, DinFlags
  <2>5. QED
    BY <2>1, <2>2, <2>3, <2>4 DEF Din!Next
<1>4. plugged' \in BOOLEAN /\ whole' \in BOOLEAN
  <2>1. plugged \in BOOLEAN /\ whole \in BOOLEAN
    BY <1>1 DEF DinFlags
  <2>2. QED
    BY <2>1 DEF Din!Next, Din!SayByte, Din!SayRealtime, Din!Silence, Din!Unplug, Din!Plug,
                Din!SetupMidi, Din!SetupTempo, Din!Register, Din!Line, Din!vars
<1>5. QED
  BY <1>2, <1>3, <1>4 DEF DinSafe, DinFlags

-----------------------------------------------------------------------------
(* The outputs of the ESP32: what is copied and what is sent so far.       *)

LEMMA EspNames ==
  /\ EspChannels \in Nat \ {0} /\ EspFrames \in Nat
  /\ MinChannels \in Nat /\ TrailingChannels \in Nat
  /\ Esp!Channels = 1 .. EspChannels
BY LinksAssumption DEF Esp!EspSendAssumption, Esp!Channels

EspTypes ==
  /\ bus \in {"dmx", "pwm", "spi"}
  /\ espFull \in BOOLEAN /\ dirty \in BOOLEAN /\ sending \in BOOLEAN
  /\ rested \in BOOLEAN /\ gaveUp \in BOOLEAN
  /\ at \in {"idle", "write", "show", "give"} /\ given \in Esp!Channels
  /\ nth \in 0 .. EspFrames /\ espSize \in 0 .. EspChannels + 1
  /\ values \in [Esp!Channels -> 0 .. nth] /\ valuesBuf \in [Esp!Channels -> 0 .. nth]
  /\ lights \in [Esp!Channels -> 0 .. nth] /\ wrote \in [Esp!Channels -> 0 .. nth]
  /\ task \in {"wait", "taken", "copy", "send"}
  /\ lastChannel \in 0 .. EspChannels /\ channel \in 1 .. lastChannel + 1
  /\ used \in 0 .. EspChannels

(* Who may do what on each bus: the output of a PWM chip or of SPI does    *)
(* nothing while a frame is on its way.                                    *)
InTurn ==
  /\ values = wrote
  /\ gaveUp => bus # "dmx"
  /\ bus # "spi" => rested
  /\ bus = "pwm" =>
       /\ at \in {"write", "show"} => ~sending
       /\ at = "give" => sending /\ ~dirty /\ task = "wait"
       /\ ~sending => ~dirty /\ task = "wait"
       /\ dirty => task = "wait"
  /\ bus # "pwm" => at # "give"
  /\ bus = "spi" =>
       /\ ~dirty /\ task \in {"wait", "send"}
       /\ at \in {"write", "show"} => ~sending /\ rested
       /\ task = "send" => sending /\ lastChannel = used
       /\ at = "show" => used = given
       /\ gaveUp => sending /\ task = "wait"

WholeBus == bus = "pwm" \/ (bus = "dmx" /\ espFull)

(* Nothing newer waits: what was copied or sent so far is what was written *)
(* last.                                                                   *)
UpToDate ==
  at = "idle" /\ ~dirty =>
    /\ WholeBus =>
         /\ task \in {"copy", "send"} => lastChannel = EspChannels
         /\ task = "copy" =>
              \A c \in Esp!Channels : c < channel => valuesBuf[c] = wrote[c]
         /\ task = "send" =>
              \A c \in Esp!Channels :
                valuesBuf[c] = wrote[c] /\ (c < channel => lights[c] = wrote[c])
         /\ task = "wait" /\ ~gaveUp => \A c \in Esp!Channels : lights[c] = wrote[c]
    /\ bus = "spi" =>
         /\ task = "send" => \A c \in Esp!Channels : c < channel => lights[c] = wrote[c]
         /\ task = "wait" /\ ~gaveUp =>
              \A c \in Esp!Channels : c <= used => lights[c] = wrote[c]

EspFollows == EspTypes /\ InTurn /\ UpToDate

LEMMA EspIsEnough ==
  ASSUME EspFollows
  PROVE  Esp!TypeOK /\ Esp!NewestWhenDone /\ Esp!NoneTorn
<1>1. Esp!TypeOK
  BY DEF EspFollows, EspTypes, Esp!TypeOK
<1>2. Esp!NewestWhenDone
  <2>1. SUFFICES ASSUME at = "idle", ~dirty, task = "wait", ~gaveUp, NEW c \in Esp!Channels
                 PROVE  \/ lights[c] = wrote[c]
                        \/ bus = "dmx" /\ ~espFull
                        \/ bus = "spi" /\ c > used
    BY DEF Esp!NewestWhenDone
  <2>2. CASE WholeBus
    BY <2>1, <2>2 DEF EspFollows, UpToDate
  <2>3. CASE bus = "spi"
    <3>1. c <= used => lights[c] = wrote[c]
      BY <2>1, <2>3 DEF EspFollows, UpToDate
    <3>2. c <= used \/ c > used
      BY EspNames DEF EspFollows, EspTypes
    <3>3. QED
      BY <2>3, <3>1, <3>2
  <2>4. CASE bus = "dmx" /\ ~espFull
    BY <2>4
  <2>5. WholeBus \/ bus = "spi" \/ (bus = "dmx" /\ ~espFull)
    <3>1. bus = "dmx" \/ bus = "pwm" \/ bus = "spi"
      BY DEF EspFollows, EspTypes
    <3>2. espFull \/ ~espFull
      OBVIOUS
    <3>3. QED
      BY <3>1, <3>2, Zenon DEF WholeBus
  <2>6. QED
    BY <2>2, <2>3, <2>4, <2>5
<1>3. Esp!NoneTorn
  BY DEF EspFollows, EspTypes, InTurn, Esp!NoneTorn
<1>4. QED
  BY <1>1, <1>2, <1>3

LEMMA EspInit == Init => EspFollows
<1> SUFFICES ASSUME Init PROVE EspFollows
  OBVIOUS
<1>1. Esp!Init
  BY DEF Init
<1>2. /\ at = "idle" /\ given = 1 /\ nth = 0 /\ espSize = 0 /\ used = 0
      /\ lastChannel = 0 /\ channel = 1 /\ task = "wait"
      /\ ~dirty /\ ~sending /\ rested /\ ~gaveUp
      /\ dirty \in BOOLEAN /\ sending \in BOOLEAN /\ rested \in BOOLEAN /\ gaveUp \in BOOLEAN
      /\ bus \in {"dmx", "pwm", "spi"} /\ espFull \in BOOLEAN
  BY <1>1 DEF Esp!Init
<1>3. /\ values = [c \in Esp!Channels |-> 0] /\ valuesBuf = values
      /\ lights = values /\ wrote = values
  BY <1>1 DEF Esp!Init, Esp!Unlit
<1>4. values \in [Esp!Channels -> 0 .. nth]
  BY <1>2, <1>3
<1>5. EspTypes
  BY <1>2, <1>3, <1>4, EspNames DEF EspTypes
<1>6. InTurn
  BY <1>2, <1>3 DEF InTurn
<1>7. UpToDate
  BY <1>2, <1>3 DEF UpToDate
<1>8. QED
  BY <1>5, <1>6, <1>7 DEF EspFollows

(* The run loop.                                                           *)
LEMMA EspLoopStep ==
  ASSUME EspFollows, (\E n \in Esp!Channels : Esp!Begin(n)) \/ Esp!Loop
  PROVE  EspFollows'
<1> USE DEF Esp!taskVars
<1>0. EspTypes /\ InTurn
  BY DEF EspFollows
<1>1. ASSUME NEW n \in Esp!Channels, Esp!Begin(n) PROVE EspFollows'
  <2>1. /\ at = "idle" /\ ~sending /\ rested /\ nth < EspFrames
        /\ at' = "write" /\ given' = n /\ nth' = nth + 1
        /\ UNCHANGED <<bus, espFull, values, espSize, dirty, sending, rested, task, channel,
                       lastChannel, valuesBuf, lights, gaveUp, wrote, used>>
    BY <1>1 DEF Esp!Begin, Esp!Ready
  <2>2. nth' \in 0 .. EspFrames /\ 0 .. nth \subseteq 0 .. nth'
    BY <1>0, <2>1, EspNames DEF EspTypes
  <2>3. /\ values' \in [Esp!Channels -> 0 .. nth'] /\ valuesBuf' \in [Esp!Channels -> 0 .. nth']
        /\ lights' \in [Esp!Channels -> 0 .. nth'] /\ wrote' \in [Esp!Channels -> 0 .. nth']
    BY <1>0, <2>1, <2>2 DEF EspTypes
  <2>4. EspTypes'
    BY <1>0, <2>1, <2>2, <2>3 DEF EspTypes
  <2>5. InTurn'
    <3>1. task \in {"wait", "taken", "copy", "send"}
      BY <1>0 DEF EspTypes
    <3>2. QED
      BY <1>0, <2>1, <3>1 DEF InTurn
  <2>6. UpToDate'
    BY <2>1 DEF UpToDate
  <2>7. QED
    BY <2>4, <2>5, <2>6 DEF EspFollows
<1>2. CASE Esp!Write
  <2>1. /\ at = "write" /\ at' = "show"
        /\ values' = Esp!Filled(values) /\ wrote' = Esp!Filled(wrote) /\ used' = given
        /\ espSize' = Esp!More(espSize, 1 + given)
        /\ UNCHANGED <<bus, espFull, given, nth, dirty, sending, rested, task, channel,
                       lastChannel, valuesBuf, lights, gaveUp>>
    BY <1>2 DEF Esp!Write
  <2>2. values' \in [Esp!Channels -> 0 .. nth] /\ wrote' \in [Esp!Channels -> 0 .. nth]
    <3>1. nth \in 0 .. nth
      BY <1>0, EspNames DEF EspTypes
    <3>2. ASSUME NEW b \in [Esp!Channels -> 0 .. nth]
          PROVE  Esp!Filled(b) \in [Esp!Channels -> 0 .. nth]
      BY <3>1, <3>2 DEF Esp!Filled
    <3>3. QED
      BY <1>0, <2>1, <3>2 DEF EspTypes
  <2>3. espSize' \in 0 .. EspChannels + 1 /\ used' \in 0 .. EspChannels
    BY <1>0, <2>1, EspNames DEF EspTypes, Esp!More
  <2>4. EspTypes'
    BY <1>0, <2>1, <2>2, <2>3 DEF EspTypes
  <2>5. values' = wrote'
    BY <1>0, <2>1 DEF InTurn
  <2>6. bus = "spi" => task = "wait"
    BY <1>0, <2>1 DEF InTurn
  <2>7. InTurn'
    BY <1>0, <2>1, <2>5, <2>6 DEF InTurn
  <2>8. UpToDate'
    BY <2>1 DEF UpToDate
  <2>9. QED
    BY <2>4, <2>7, <2>8 DEF EspFollows
<1>3. CASE Esp!Show
  <2>1. /\ at = "show" /\ bus # "spi"
        /\ at' = IF bus = "pwm" THEN "give" ELSE "idle"
        /\ dirty' = (dirty \/ bus # "pwm") /\ sending' = (sending \/ bus = "pwm")
        /\ UNCHANGED <<bus, espFull, given, nth, values, espSize, rested, task, channel,
                       lastChannel, valuesBuf, lights, gaveUp, wrote, used>>
    BY <1>3 DEF Esp!Show, Esp!Does, Esp!Steps
  <2>2. dirty' \in BOOLEAN /\ sending' \in BOOLEAN /\ at' \in {"idle", "give"}
    BY <2>1
  <2>3. EspTypes'
    BY <1>0, <2>1, <2>2 DEF EspTypes
  <2>4. InTurn'
    <3>1. CASE bus = "pwm"
      BY <1>0, <2>1, <3>1 DEF InTurn
    <3>2. CASE bus = "dmx"
      BY <1>0, <2>1, <3>2 DEF InTurn
    <3>3. QED
      BY <1>0, <2>1, <3>1, <3>2 DEF EspTypes
  <2>5. UpToDate'
    <3>1. CASE bus = "pwm"
      BY <2>1, <3>1 DEF UpToDate
    <3>2. CASE bus = "dmx"
      BY <2>1, <3>2 DEF UpToDate
    <3>3. QED
      BY <1>0, <2>1, <3>1, <3>2 DEF EspTypes
  <2>6. QED
    BY <2>3, <2>4, <2>5 DEF EspFollows
<1>4. CASE Esp!Give
  <2>1. bus = "pwm" /\ at = "give"
    BY <1>0, <1>4 DEF Esp!Give, InTurn
  <2>2. /\ at' = "idle" /\ dirty' = TRUE /\ sending' = sending
        /\ UNCHANGED <<bus, espFull, given, nth, values, espSize, rested, task, channel,
                       lastChannel, valuesBuf, lights, gaveUp, wrote, used>>
    <3>1. sending' = (sending \/ FALSE) /\ sending \in BOOLEAN
      BY <1>0, <1>4, <2>1 DEF Esp!Give, Esp!Does, Esp!Steps, EspTypes
    <3>2. QED
      BY <1>4, <2>1, <3>1 DEF Esp!Give, Esp!Does, Esp!Steps
  <2>3. EspTypes'
    BY <1>0, <2>2 DEF EspTypes
  <2>4. InTurn'
    BY <1>0, <2>1, <2>2 DEF InTurn
  <2>5. UpToDate'
    BY <2>2 DEF UpToDate
  <2>6. QED
    BY <2>3, <2>4, <2>5 DEF EspFollows
<1>5. CASE Esp!Queue
  <2>1. at = "show" /\ bus = "spi" /\ ~sending /\ rested /\ used = given
    BY <1>0, <1>5 DEF Esp!Queue, InTurn
  <2>2. /\ sending' = TRUE /\ at' = "idle"
        /\ UNCHANGED <<bus, espFull, given, nth, values, espSize, dirty, rested, valuesBuf,
                       lights, wrote, used>>
    BY <1>5, <2>1 DEF Esp!Queue, Esp!Ready
  <2>3. \/ task' = "send" /\ channel' = 1 /\ lastChannel' = given /\ UNCHANGED gaveUp
        \/ gaveUp' = TRUE /\ UNCHANGED <<task, channel, lastChannel>>
    BY <1>5, <2>1 DEF Esp!Queue, Esp!Ready
  <2>4. ~WholeBus'
    BY <2>1, <2>2 DEF WholeBus
  <2>5. task = "wait" /\ ~gaveUp
    BY <1>0, <2>1 DEF InTurn
  <2>6. CASE task' = "send" /\ channel' = 1 /\ lastChannel' = given /\ UNCHANGED gaveUp
    <3>1. lastChannel' \in 0 .. EspChannels /\ channel' \in 1 .. lastChannel' + 1
      BY <1>0, <2>6, EspNames DEF EspTypes
    <3>2. EspTypes'
      BY <1>0, <2>2, <2>6, <3>1 DEF EspTypes
    <3>3. InTurn'
      BY <1>0, <2>1, <2>2, <2>5, <2>6 DEF InTurn
    <3>4. \A c \in Esp!Channels : ~(c < 1)
      BY EspNames
    <3>5. UpToDate'
      BY <2>1, <2>2, <2>4, <2>6, <3>4 DEF UpToDate
    <3>6. QED
      BY <3>2, <3>3, <3>5 DEF EspFollows
  <2>7. CASE gaveUp' = TRUE /\ UNCHANGED <<task, channel, lastChannel>>
    <3>1. EspTypes'
      BY <1>0, <2>2, <2>7 DEF EspTypes
    <3>2. InTurn'
      BY <1>0, <2>1, <2>2, <2>5, <2>7 DEF InTurn
    <3>3. UpToDate'
      BY <2>2, <2>4, <2>5, <2>7 DEF UpToDate
    <3>4. QED
      BY <3>1, <3>2, <3>3 DEF EspFollows
  <2>8. QED
    BY <2>3, <2>6, <2>7
<1>6. QED
  BY <1>1, <1>2, <1>3, <1>4, <1>5 DEF Esp!Loop

(* The task and the DMA.                                                   *)
LEMMA EspSendingStep ==
  ASSUME EspFollows, Esp!Sending
  PROVE  EspFollows'
<1> USE DEF Esp!taskVars
<1>0. EspTypes /\ InTurn /\ UpToDate
  BY DEF EspFollows
<1>1. CASE Esp!Take
  <2>1. /\ task = "wait" /\ dirty /\ dirty' = FALSE /\ task' = "taken"
        /\ UNCHANGED <<bus, espFull, at, given, nth, values, espSize, sending, rested, channel,
                       lastChannel, valuesBuf, lights, gaveUp, wrote, used>>
    BY <1>1 DEF Esp!Take
  <2>2. EspTypes'
    BY <1>0, <2>1 DEF EspTypes
  <2>3. InTurn'
    BY <1>0, <2>1 DEF InTurn
  <2>4. UpToDate'
    BY <1>0, <2>1 DEF UpToDate, InTurn
  <2>5. QED
    BY <2>2, <2>3, <2>4 DEF EspFollows
<1>2. CASE Esp!Prepare
  <2>1. /\ task = "taken" /\ task' = "copy"
        /\ sending' = TRUE /\ lastChannel' = Esp!Length /\ channel' = 1
        /\ UNCHANGED <<bus, espFull, at, given, nth, values, espSize, dirty, rested, valuesBuf,
                       lights, gaveUp, wrote, used>>
    BY <1>2 DEF Esp!Prepare
  <2>2. bus # "spi"
    BY <1>0, <2>1 DEF InTurn
  <2>3. lastChannel' \in 0 .. EspChannels /\ channel' \in 1 .. lastChannel' + 1
        /\ (WholeBus => lastChannel' = EspChannels)
    <3>1. CASE WholeBus
      <4>1. Esp!Length = EspChannels
        BY <3>1 DEF WholeBus, Esp!Length
      <4>2. QED
        BY <2>1, <4>1, EspNames
    <3>2. CASE ~WholeBus
      <4>1. Esp!Length \in 0 .. EspChannels
        BY <1>0, EspNames DEF EspTypes, Esp!Length, Esp!Less, Esp!More
      <4>2. QED
        BY <2>1, <3>2, <4>1, EspNames
    <3>3. QED
      BY <3>1, <3>2
  <2>4. EspTypes'
    BY <1>0, <2>1, <2>3 DEF EspTypes
  <2>5. InTurn'
    BY <1>0, <2>1, <2>2 DEF InTurn
  <2>6. UpToDate'
    <3>1. \A c \in Esp!Channels : ~(c < 1)
      BY EspNames
    <3>2. WholeBus' => WholeBus
      BY <2>1 DEF WholeBus
    <3>3. QED
      BY <2>1, <2>2, <2>3, <3>1, <3>2 DEF UpToDate
  <2>7. QED
    BY <2>4, <2>5, <2>6 DEF EspFollows
<1>3. CASE Esp!Copy
  <2>1. /\ task = "copy" /\ channel <= lastChannel
        /\ valuesBuf' = [valuesBuf EXCEPT ![channel] = values[channel]]
        /\ channel' = channel + 1
        /\ UNCHANGED <<bus, espFull, at, given, nth, values, espSize, dirty, sending, rested,
                       task, lastChannel, lights, gaveUp, wrote, used>>
    BY <1>3 DEF Esp!Copy
  <2>2. channel \in Esp!Channels /\ channel' \in 1 .. lastChannel' + 1
    BY <1>0, <2>1, EspNames DEF EspTypes
  <2>3. valuesBuf' \in [Esp!Channels -> 0 .. nth]
    BY <1>0, <2>1, <2>2 DEF EspTypes
  <2>4. EspTypes'
    BY <1>0, <2>1, <2>2, <2>3 DEF EspTypes
  <2>5. InTurn'
    BY <1>0, <2>1 DEF InTurn
  <2>6. UpToDate'
    <3>1. SUFFICES ASSUME at = "idle", ~dirty, WholeBus
                   PROVE  /\ lastChannel = EspChannels
                          /\ \A c \in Esp!Channels : c < channel' => valuesBuf'[c] = wrote[c]
      BY <1>0, <2>1 DEF UpToDate, WholeBus, InTurn
    <3>2. lastChannel = EspChannels
          /\ \A c \in Esp!Channels : c < channel => valuesBuf[c] = wrote[c]
      BY <1>0, <2>1, <3>1 DEF UpToDate
    <3>3. ASSUME NEW c \in Esp!Channels, c < channel + 1 PROVE valuesBuf'[c] = wrote[c]
      <4>1. c < channel \/ c = channel
        BY <2>2, <3>3, EspNames
      <4>2. CASE c < channel
        <5>1. c # channel /\ valuesBuf'[c] = valuesBuf[c]
          BY <1>0, <2>1, <2>2, <4>2, EspNames DEF EspTypes
        <5>2. QED
          BY <3>2, <4>2, <5>1
      <4>3. CASE c = channel
        BY <1>0, <2>1, <2>2, <4>3 DEF EspTypes, InTurn
      <4>4. QED
        BY <4>1, <4>2, <4>3
    <3>4. QED
      BY <2>1, <3>2, <3>3
  <2>7. QED
    BY <2>4, <2>5, <2>6 DEF EspFollows
<1>4. CASE Esp!Copied
  <2>1. /\ task = "copy" /\ channel > lastChannel
        /\ espSize' = 0 /\ task' = "send" /\ channel' = 1
        /\ UNCHANGED <<bus, espFull, at, given, nth, values, dirty, sending, rested,
                       lastChannel, valuesBuf, lights, gaveUp, wrote, used>>
    BY <1>4 DEF Esp!Copied
  <2>2. channel' \in 1 .. lastChannel' + 1 /\ espSize' \in 0 .. EspChannels + 1
    BY <1>0, <2>1, EspNames DEF EspTypes
  <2>3. EspTypes'
    BY <1>0, <2>1, <2>2 DEF EspTypes
  <2>4. bus # "spi"
    BY <1>0, <2>1 DEF InTurn
  <2>5. InTurn'
    BY <1>0, <2>1, <2>4 DEF InTurn
  <2>6. UpToDate'
    <3>1. SUFFICES ASSUME at = "idle", ~dirty, WholeBus
                   PROVE  /\ lastChannel = EspChannels
                          /\ \A c \in Esp!Channels : valuesBuf[c] = wrote[c] /\ ~(c < 1)
      BY <2>1, <2>4 DEF UpToDate, WholeBus
    <3>2. lastChannel = EspChannels
          /\ \A c \in Esp!Channels : c < channel => valuesBuf[c] = wrote[c]
      BY <1>0, <2>1, <3>1 DEF UpToDate
    <3>3. \A c \in Esp!Channels : c < channel /\ ~(c < 1)
      BY <1>0, <2>1, <3>2, EspNames DEF EspTypes
    <3>4. QED
      BY <3>2, <3>3
  <2>7. QED
    BY <2>3, <2>5, <2>6 DEF EspFollows
<1>5. CASE Esp!SendByte
  <2> DEFINE byte == IF bus = "spi" THEN values[channel] ELSE valuesBuf[channel]
  <2>1. /\ task = "send" /\ channel <= lastChannel
        /\ lights' = [lights EXCEPT ![channel] = byte]
        /\ channel' = channel + 1
        /\ UNCHANGED <<bus, espFull, at, given, nth, values, espSize, dirty, sending, rested,
                       task, lastChannel, valuesBuf, gaveUp, wrote, used>>
    BY <1>5 DEF Esp!SendByte
  <2>2. channel \in Esp!Channels /\ channel' \in 1 .. lastChannel' + 1
    BY <1>0, <2>1, EspNames DEF EspTypes
  <2>3. byte \in 0 .. nth
    BY <1>0, <2>2 DEF EspTypes
  <2>4. lights' \in [Esp!Channels -> 0 .. nth]
    BY <1>0, <2>1, <2>2, <2>3 DEF EspTypes
  <2>5. EspTypes'
    BY <1>0, <2>1, <2>2, <2>4 DEF EspTypes
  <2>6. InTurn'
    BY <1>0, <2>1 DEF InTurn
  <2>7. UpToDate'
    <3>1. ASSUME at = "idle", ~dirty, WholeBus \/ bus = "spi"
          PROVE  \A c \in Esp!Channels : c < channel' => lights'[c] = wrote[c]
      <4>1. byte = wrote[channel]
        <5>1. CASE bus = "spi"
          BY <1>0, <5>1 DEF InTurn
        <5>2. CASE bus # "spi"
          BY <1>0, <2>1, <2>2, <3>1, <5>2 DEF UpToDate
        <5>3. QED
          BY <5>1, <5>2
      <4>2. \A c \in Esp!Channels : c < channel => lights[c] = wrote[c]
        BY <1>0, <2>1, <3>1 DEF UpToDate
      <4> HIDE DEF byte
      <4>3. ASSUME NEW c \in Esp!Channels, c < channel + 1 PROVE lights'[c] = wrote[c]
        <5>1. c < channel \/ c = channel
          BY <2>2, <4>3, EspNames
        <5>2. CASE c < channel
          <6>1. c # channel /\ lights'[c] = lights[c]
            BY <1>0, <2>1, <2>2, <5>2, EspNames DEF EspTypes
          <6>2. QED
            BY <4>2, <5>2, <6>1
        <5>3. CASE c = channel
          BY <1>0, <2>1, <2>2, <4>1, <5>3 DEF EspTypes
        <5>4. QED
          BY <5>1, <5>2, <5>3
      <4>4. QED
        BY <2>1, <4>3
    <3>2. (at = "idle" /\ ~dirty /\ WholeBus) =>
            lastChannel = EspChannels /\ \A c \in Esp!Channels : valuesBuf[c] = wrote[c]
      BY <1>0, <2>1 DEF UpToDate
    <3>3. WholeBus' <=> WholeBus
      BY <2>1 DEF WholeBus
    <3> HIDE DEF byte
    <3>4. QED
      BY <2>1, <3>1, <3>2, <3>3 DEF UpToDate
  <2>8. QED
    BY <2>5, <2>6, <2>7 DEF EspFollows
<1>6. ASSUME NEW ok \in BOOLEAN, Esp!Finish(ok) PROVE EspFollows'
  <2>1. /\ task = "send" /\ (ok => channel > lastChannel) /\ (~ok => bus = "pwm")
        /\ sending' = FALSE /\ rested' = (bus # "spi")
        /\ task' = "wait" /\ channel' = 1 /\ lastChannel' = 0 /\ gaveUp' = ~ok
        /\ UNCHANGED <<bus, espFull, at, given, nth, values, espSize, dirty, valuesBuf, lights,
                       wrote, used>>
    BY <1>6 DEF Esp!Finish
  <2>2. EspTypes'
    <3>1. channel' \in 1 .. lastChannel' + 1 /\ lastChannel' \in 0 .. EspChannels
      BY <2>1, EspNames
    <3>2. gaveUp' \in BOOLEAN /\ rested' \in BOOLEAN /\ sending' \in BOOLEAN
      BY <2>1
    <3>3. QED
      BY <1>0, <2>1, <3>1, <3>2 DEF EspTypes
  <2>3. bus = "pwm" => at \in {"idle", "write", "show"} /\ ~dirty
    BY <1>0, <2>1 DEF InTurn, EspTypes
  <2>4. bus = "spi" => at = "idle"
    BY <1>0, <2>1 DEF InTurn, EspTypes
  <2>5. InTurn'
    BY <1>0, <2>1, <2>3, <2>4 DEF InTurn
  <2>6. UpToDate'
    <3>1. ASSUME at = "idle", ~dirty, ok, NEW c \in Esp!Channels,
                 WholeBus \/ (bus = "spi" /\ c <= used)
          PROVE  lights[c] = wrote[c]
      <4>1. c <= lastChannel
        <5>1. CASE WholeBus
          BY <1>0, <2>1, <3>1, <5>1, EspNames DEF UpToDate
        <5>2. CASE bus = "spi" /\ c <= used
          BY <1>0, <2>1, <5>2 DEF InTurn
        <5>3. QED
          BY <3>1, <5>1, <5>2
      <4>2. c < channel
        BY <1>0, <2>1, <3>1, <4>1, EspNames DEF EspTypes
      <4>3. QED
        BY <1>0, <2>1, <3>1, <4>2 DEF UpToDate
    <3>2. WholeBus' <=> WholeBus
      BY <2>1 DEF WholeBus
    <3>3. (at = "idle" /\ ~dirty /\ WholeBus /\ ok) => \A c \in Esp!Channels : lights[c] = wrote[c]
      <4> SUFFICES ASSUME at = "idle", ~dirty, WholeBus, ok, NEW c \in Esp!Channels
                   PROVE  lights[c] = wrote[c]
        OBVIOUS
      <4> QED
        BY <3>1
    <3>4. (at = "idle" /\ ~dirty /\ bus = "spi") =>
            \A c \in Esp!Channels : c <= used => lights[c] = wrote[c]
      BY <2>1, <3>1
    <3>5. QED
      BY <2>1, <3>2, <3>3, <3>4 DEF UpToDate
  <2>7. QED
    BY <2>2, <2>5, <2>6 DEF EspFollows
<1>7. CASE Esp!Rest
  <2>1. /\ rested' = TRUE
        /\ UNCHANGED <<bus, espFull, at, given, nth, values, espSize, dirty, sending, task,
                       channel, lastChannel, valuesBuf, lights, gaveUp, wrote, used>>
    BY <1>7 DEF Esp!Rest
  <2>2. EspTypes'
    BY <1>0, <2>1 DEF EspTypes
  <2>3. InTurn'
    BY <1>0, <2>1 DEF InTurn
  <2>4. UpToDate'
    BY <1>0, <2>1 DEF UpToDate, WholeBus
  <2>5. QED
    BY <2>2, <2>3, <2>4 DEF EspFollows
<1>8. QED
  BY <1>1, <1>2, <1>3, <1>4, <1>5, <1>6, <1>7 DEF Esp!Sending

LEMMA EspStep ==
  ASSUME EspFollows, [Esp!Next]_(Esp!vars)
  PROVE  EspFollows'
<1>1. CASE UNCHANGED Esp!vars
  BY <1>1 DEF Esp!vars, Esp!taskVars, EspFollows, EspTypes, InTurn, UpToDate, WholeBus
<1>2. QED
  BY <1>1, EspLoopStep, EspSendingStep DEF Esp!Next

-----------------------------------------------------------------------------
(* DMX in: the bytes in the driver's queue are those of the wire, in their *)
(* order, so the task knows where it is in the frame, but for frames of    *)
(* which a break threw something away.                                     *)

(* The cell for a place on the wire.                                       *)
CellOf(p) == IF p < Universe + 1 THEN p ELSE Universe + 1

FrameOf(e) == e[2][1][1]
StartOf(e) == e[2][1][2]
EndOf(e)   == StartOf(e) + Len(e[2])

Consecutive(e) ==
  IsData(e) => \A k \in 1 .. Len(e[2]) : e[2][k] = <<FrameOf(e), StartOf(e) + k - 1>>

(* The byte at place p of the frame f is the next one after e.             *)
Followed(e, f, p) ==
  /\ IsData(e) => FrameOf(e) = f /\ EndOf(e) = p
  /\ e[1] = "break" => p = 0

(* The event e may come right after d.                                     *)
ComesAfter(d, e) ==
  /\ IsData(e) => Followed(d, FrameOf(e), StartOf(e))
  /\ e[1] = "break" /\ IsData(d) => EndOf(d) = channels + 1
  /\ e[1] = "error" /\ IsData(d) => FrameOf(d) \in cut

(* The frame that the task is in.                                          *)
Current == data[addr - 1][1]

(* The task would put the byte at place p of the frame f into its cell.    *)
AtPlace(f, p) ==
  /\ state = "DMX_DATA" => Current = f /\ (f \in late \/ addr = CellOf(p))
  /\ state = "DMX_BREAK" => f \in late \/ p = 0

(* The event e may come next to the task.                                  *)
Expected(e) ==
  /\ IsData(e) => AtPlace(FrameOf(e), StartOf(e))
  /\ state = "DMX_DATA" =>
       /\ e[1] = "break" => Current \in late \/ addr = CellOf(channels + 1)
       /\ e[1] = "error" => Current \in cut

QueueFits ==
  /\ events \in Seq(DmxIn!Events) /\ Len(events) <= QueueLength
  /\ \A i \in 1 .. Len(events) : Consecutive(events[i])
  /\ \A i \in 1 .. Len(events) - 1 : ComesAfter(events[i], events[i + 1])
  /\ events = <<>> => AtPlace(sent, pos)
  /\ events # <<>> => Expected(events[1]) /\ Followed(events[Len(events)], sent, pos)

DmxInTypes ==
  /\ channels \in 1 .. Universe + 1 /\ sent \in 0 .. DmxInFrames /\ pos \in 0 .. channels + 1
  /\ errors \in 0 .. Errors
  /\ state \in {"DMX_IDLE", "DMX_BREAK", "DMX_DATA"} /\ addr \in 0 .. Universe + 1
  /\ data \in [DmxIn!Cells -> DmxIn!Byte] /\ rx \in [DmxIn!Cells -> DmxIn!Byte]
  /\ got \in [DmxIn!Cells -> DmxIn!Byte]
  /\ frameCount \in Nat /\ healthy \in BOOLEAN
  /\ lastFrame \in 0 .. frameCount /\ copying \in 1 .. Universe + 1
  /\ cut \in SUBSET DmxIn!Frames /\ late \in SUBSET DmxIn!Frames

InPlace(b) == \A c \in DmxIn!Cells : b[c][2] = c \/ b[c][1] \in late

(* The task has filled the cells below its address with the frame it is    *)
(* in, and a frame that it is not in any more is whole.                    *)
Filled ==
  /\ state = "DMX_DATA" =>
       /\ addr >= 1
       /\ Current \notin late => \A c \in DmxIn!Cells : c < addr => data[c][1] = Current
  /\ \A c, d \in DmxIn!Used : data[c][1] > data[d][1] =>
       \/ data[c][1] \in cut \cup late
       \/ state = "DMX_DATA" /\ data[c][1] = Current /\ d >= addr

DmxInSafe ==
  /\ OnlyForward /\ DmxInTypes /\ QueueFits
  /\ InPlace(data) /\ InPlace(rx) /\ InPlace(got)
  /\ Filled /\ DmxIn!WholeOrMissed

LEMMA DmxInIsEnough ==
  ASSUME DmxInSafe
  PROVE  DmxIn!TypeOK /\ DmxIn!Aligned /\ DmxIn!WholeOrMissed
<1>1. \A i \in DOMAIN events : events[i] \in DmxIn!Events
  BY DEF DmxInSafe, QueueFits
<1>2. DmxIn!TypeOK
  BY <1>1 DEF DmxInSafe, DmxInTypes, QueueFits, DmxIn!TypeOK, DmxIn!IDLE, DmxIn!BREAK,
              DmxIn!DATA, DmxIn!NotCopying, DmxIn!Frames
<1>3. QED
  BY <1>2 DEF DmxInSafe, InPlace, DmxIn!Aligned, DmxIn!InPlaceOrLate

LEMMA DmxInInit == Init => DmxInSafe
<1> SUFFICES ASSUME Init PROVE DmxInSafe
  OBVIOUS
<1>1. DmxIn!Init
  BY DEF Init
<1>2. /\ channels \in 1 .. Universe + 1 /\ sent = 0 /\ pos = channels + 1 /\ errors = 0
      /\ events = <<>> /\ state = "DMX_IDLE" /\ addr = 0 /\ frameCount = 0
      /\ healthy = TRUE /\ lastFrame = 0 /\ copying = Universe + 1
      /\ cut = {} /\ late = {}
      /\ data = [c \in DmxIn!Cells |-> <<0, c>>] /\ rx = data /\ got = data
  BY <1>1 DEF DmxIn!Init, DmxIn!IDLE, DmxIn!NotCopying, DmxIn!Blank
<1>3. data \in [DmxIn!Cells -> DmxIn!Byte]
  <2>1. ASSUME NEW c \in DmxIn!Cells PROVE <<0, c>> \in DmxIn!Byte
    BY DmxInNames DEF DmxIn!Byte, DmxIn!Frames
  <2>2. QED
    BY <1>2, <2>1
<1>4. \A c \in DmxIn!Cells : data[c][1] = 0 /\ data[c][2] = c
  BY <1>2
<1>5. DmxInTypes
  BY <1>2, <1>3, DmxInNames DEF DmxInTypes
<1>6. QueueFits
  BY <1>2, DmxInNames DEF QueueFits, AtPlace
<1>7. InPlace(data) /\ InPlace(rx) /\ InPlace(got)
  BY <1>2, <1>4 DEF InPlace
<1>8. Filled /\ DmxIn!WholeOrMissed
  BY <1>2, <1>4 DEF Filled, DmxIn!WholeOrMissed, DmxIn!Used
<1>9. QED
  BY <1>5, <1>6, <1>7, <1>8, ForwardInit DEF DmxInSafe

(* What the task has done is as good as before, if the driver hands over   *)
(* an event or DMXInput copies: there may be more frames that were cut.    *)
LEMMA TaskAsBefore ==
  ASSUME DmxInSafe, cut \subseteq cut', UNCHANGED <<channels, state, addr, data, rx, late>>
  PROVE  InPlace(data)' /\ InPlace(rx)' /\ Filled' /\ DmxIn!WholeOrMissed'
<1>1. InPlace(data)' /\ InPlace(rx)'
  BY DEF DmxInSafe, InPlace
<1>2. Current' = Current /\ DmxIn!Used' = DmxIn!Used
  BY DEF Current, DmxIn!Used
<1>3. Filled'
  BY <1>2 DEF DmxInSafe, Filled
<1>4. DmxIn!WholeOrMissed'
  BY <1>2 DEF DmxInSafe, DmxIn!WholeOrMissed, DmxIn!Missed
<1>5. QED
  BY <1>1, <1>3, <1>4

LEMMA PostFits ==
  ASSUME QueueFits, DmxInTypes, NEW e \in DmxIn!Events, DmxIn!Post(e), Consecutive(e),
         cut \subseteq cut', UNCHANGED <<channels, state, addr, data, late>>,
         events = <<>> => Expected(e)',
         \A d : events # <<>> /\ d = events[Len(events)] => ComesAfter(d, e)',
         Followed(e, sent', pos')
  PROVE  QueueFits'
<1>1. /\ events' = Append(events, e) /\ Len(events) < QueueLength
      /\ events \in Seq(DmxIn!Events)
  BY DEF DmxIn!Post, QueueFits
<1>2. /\ events' \in Seq(DmxIn!Events) /\ events' # <<>>
      /\ Len(events') = Len(events) + 1 /\ Len(events) \in Nat
      /\ \A i \in 1 .. Len(events) : events'[i] = events[i]
      /\ events'[Len(events) + 1] = e
  BY <1>1
<1>3. Len(events') <= QueueLength
  BY <1>1, <1>2, DmxInNames
<1>4. ASSUME NEW i \in 1 .. Len(events')
      PROVE  Consecutive(events'[i])
  <2>1. i \in 1 .. Len(events) \/ i = Len(events) + 1
    BY <1>2
  <2>2. QED
    BY <1>2, <2>1 DEF QueueFits
<1>5. ASSUME NEW i \in 1 .. Len(events') - 1
      PROVE  ComesAfter(events[i], events[i + 1])'
  <2>1. i \in 1 .. Len(events)
    BY <1>2
  <2>2. CASE i = Len(events)
    <3>1. events # <<>> /\ events'[i] = events[Len(events)] /\ events'[i + 1] = e
      BY <1>2, <2>1, <2>2
    <3>2. PICK d : d = events[Len(events)]
      OBVIOUS
    <3>3. ComesAfter(d, e)'
      BY <3>1, <3>2
    <3>4. QED
      BY <3>1, <3>2, <3>3 DEF ComesAfter, Followed, IsData, FrameOf, StartOf, EndOf
  <2>3. CASE i # Len(events)
    <3>1. i \in 1 .. Len(events) - 1 /\ i + 1 \in 1 .. Len(events)
      BY <1>2, <2>1, <2>3
    <3>2. ComesAfter(events[i], events[i + 1])
      BY <3>1 DEF QueueFits
    <3>3. events'[i] = events[i] /\ events'[i + 1] = events[i + 1]
      BY <1>2, <2>1, <3>1
    <3>4. QED
      BY <3>2, <3>3 DEF ComesAfter, Followed, IsData, FrameOf, StartOf, EndOf
  <2>4. QED
    BY <2>2, <2>3
<1>6. Expected(events[1])'
  <2>1. CASE events = <<>>
    <3>1. events'[1] = e
      BY <1>2, <2>1
    <3>2. QED
      BY <2>1, <3>1 DEF Expected, AtPlace, Current, IsData, FrameOf, StartOf, CellOf
  <2>2. CASE events # <<>>
    <3>1. events'[1] = events[1] /\ Expected(events[1])
      <4>1. 1 \in 1 .. Len(events)
        BY <1>1, <2>2
      <4>2. QED
        BY <1>2, <2>2, <4>1 DEF QueueFits
    <3>2. QED
      BY <3>1 DEF Expected, AtPlace, Current, IsData, FrameOf, StartOf, CellOf
  <2>3. QED
    BY <2>1, <2>2
<1>7. Followed(events[Len(events)], sent, pos)'
  BY <1>2 DEF Followed, IsData, FrameOf, StartOf, EndOf
<1>8. QED
  BY <1>2, <1>3, <1>4, <1>5, <1>6, <1>7 DEF QueueFits, Consecutive

LEMMA WireStep ==
  ASSUME DmxInSafe, DmxIn!Wire, OnlyForward'
  PROVE  DmxInSafe'
<1> USE DEF DmxIn!taskVars, DmxIn!inputVars, DmxIn!lossVars
<1>0. DmxInTypes /\ QueueFits /\ InPlace(got)
  BY DEF DmxInSafe
<1>1. ASSUME cut \subseteq cut', cut' \in SUBSET DmxIn!Frames, QueueFits',
             sent' \in 0 .. DmxInFrames, pos' \in 0 .. channels + 1, errors' \in 0 .. Errors,
             UNCHANGED <<channels, state, addr, data, rx, frameCount, healthy, lastFrame,
                         copying, got, late>>
      PROVE  DmxInSafe'
  <2>1. DmxInTypes'
    BY <1>0, <1>1 DEF DmxInTypes
  <2>2. InPlace(got)'
    BY <1>0, <1>1 DEF InPlace
  <2>3. InPlace(data)' /\ InPlace(rx)' /\ Filled' /\ DmxIn!WholeOrMissed'
    BY <1>1, TaskAsBefore
  <2>4. QED
    BY <1>1, <2>1, <2>2, <2>3 DEF DmxInSafe
<1>2. CASE DmxIn!SendBreak
  <2>1. /\ pos > channels /\ sent < DmxInFrames /\ sent' = sent + 1 /\ pos' = 0
        /\ DmxIn!Post(<<"break">>)
        /\ UNCHANGED <<channels, errors, state, addr, data, rx, frameCount, healthy, lastFrame,
                       copying, got, cut, late>>
    BY <1>2 DEF DmxIn!SendBreak
  <2>2. pos = channels + 1
    BY <1>0, <2>1, DmxInNames DEF DmxInTypes
  <2>0. PICK e : e = <<"break">>
    OBVIOUS
  <2>3. e \in DmxIn!Events /\ ~IsData(e) /\ e[1] = "break"
    BY <2>0 DEF DmxIn!Events, IsData
  <2>4. events = <<>> => Expected(e)'
    BY <1>0, <2>1, <2>2, <2>3 DEF QueueFits, AtPlace, Expected, Current, CellOf, IsData
  <2>5. \A d : events # <<>> /\ d = events[Len(events)] => ComesAfter(d, e)'
    BY <1>0, <2>1, <2>2, <2>3 DEF QueueFits, Followed, ComesAfter, IsData, EndOf, StartOf
  <2>6. Followed(e, sent', pos') /\ Consecutive(e)
    BY <2>1, <2>3 DEF Followed, Consecutive
  <2>7. QueueFits'
    BY <1>0, <2>1, <2>3, <2>4, <2>5, <2>6, <2>0, PostFits
  <2>8. /\ sent' \in 0 .. DmxInFrames /\ pos' \in 0 .. channels + 1 /\ errors' \in 0 .. Errors
        /\ cut' \in SUBSET DmxIn!Frames
    BY <1>0, <2>1, DmxInNames DEF DmxInTypes
  <2>9. QED
    BY <1>1, <2>1, <2>7, <2>8
<1>3. ASSUME NEW n \in 1 .. 2, DmxIn!SendChunk(n) PROVE DmxInSafe'
  <2>1. PICK bytes : bytes = [i \in 1 .. n |-> <<sent, pos + i - 1>>]
    OBVIOUS
  <2>2. PICK e : e = <<"data", bytes>>
    OBVIOUS
  <2>3. /\ sent > 0 /\ pos + n <= channels + 1 /\ pos' = pos + n
        /\ DmxIn!Post(e)
        /\ UNCHANGED <<channels, sent, errors, state, addr, data, rx, frameCount, healthy,
                       lastFrame, copying, got, cut, late>>
    BY <1>3, <2>1, <2>2 DEF DmxIn!SendChunk
  <2>4. Len(bytes) = n /\ \A k \in 1 .. n : bytes[k] = <<sent, pos + k - 1>>
    BY <2>1
  <2>5. bytes \in [1 .. n -> DmxIn!Byte]
    <3>1. ASSUME NEW k \in 1 .. n PROVE <<sent, pos + k - 1>> \in DmxIn!Byte
      <4>1. pos + k - 1 \in 0 .. Universe + 1 /\ sent \in DmxIn!Frames
        BY <1>0, <2>3, DmxInNames DEF DmxInTypes, DmxIn!Frames
      <4>2. QED
        BY <4>1 DEF DmxIn!Byte
    <3>2. QED
      BY <2>1, <3>1
  <2>6. e \in DmxIn!Events
    BY <2>2, <2>5 DEF DmxIn!Events
  <2>7. IsData(e) /\ e[1] = "data" /\ e[2] = bytes
    BY <2>2 DEF IsData
  <2>8. FrameOf(e) = sent /\ StartOf(e) = pos /\ EndOf(e) = pos + n
    <3>1. pos + 1 - 1 = pos
      BY <1>0 DEF DmxInTypes
    <3>2. bytes[1] = <<sent, pos>>
      BY <2>4, <3>1
    <3>3. QED
      BY <2>4, <2>7, <3>2 DEF FrameOf, StartOf, EndOf
  <2>9. Consecutive(e)
    BY <2>4, <2>7, <2>8 DEF Consecutive
  <2>10. events = <<>> => Expected(e)'
    BY <1>0, <2>3, <2>7, <2>8
       DEF QueueFits, AtPlace, Expected, Current, CellOf, IsData, FrameOf, StartOf
  <2>11. \A d : events # <<>> /\ d = events[Len(events)] => ComesAfter(d, e)'
    BY <1>0, <2>3, <2>7, <2>8
       DEF QueueFits, Followed, ComesAfter, IsData, FrameOf, StartOf, EndOf
  <2>12. Followed(e, sent', pos')
    BY <2>3, <2>7, <2>8 DEF Followed
  <2>13. QueueFits'
    BY <1>0, <2>3, <2>6, <2>9, <2>10, <2>11, <2>12, PostFits
  <2>14. /\ sent' \in 0 .. DmxInFrames /\ pos' \in 0 .. channels + 1 /\ errors' \in 0 .. Errors
         /\ cut' \in SUBSET DmxIn!Frames
    BY <1>0, <2>3, DmxInNames DEF DmxInTypes
  <2>15. QED
    BY <1>1, <2>3, <2>13, <2>14
<1>4. CASE DmxIn!Disturb
  <2>1. /\ sent > 0 /\ pos <= channels /\ errors < Errors
        /\ pos' = pos + 1 /\ errors' = errors + 1
        /\ DmxIn!Post(<<"error">>) /\ cut' = cut \cup {sent}
        /\ UNCHANGED <<channels, sent, state, addr, data, rx, frameCount, healthy,
                       lastFrame, copying, got, late>>
    BY <1>4 DEF DmxIn!Disturb
  <2>0. PICK e : e = <<"error">>
    OBVIOUS
  <2>2. e \in DmxIn!Events /\ ~IsData(e) /\ e[1] = "error"
    BY <2>0 DEF DmxIn!Events, IsData
  <2>3. events = <<>> => Expected(e)'
    BY <1>0, <2>1, <2>2 DEF QueueFits, AtPlace, Expected, Current, IsData
  <2>4. \A d : events # <<>> /\ d = events[Len(events)] => ComesAfter(d, e)'
    BY <1>0, <2>1, <2>2 DEF QueueFits, Followed, ComesAfter, IsData, FrameOf
  <2>5. Followed(e, sent', pos') /\ Consecutive(e)
    BY <2>2 DEF Followed, Consecutive
  <2>6. QueueFits'
    BY <1>0, <2>1, <2>2, <2>3, <2>4, <2>5, <2>0, PostFits
  <2>7. /\ sent' \in 0 .. DmxInFrames /\ pos' \in 0 .. channels + 1 /\ errors' \in 0 .. Errors
        /\ cut' \in SUBSET DmxIn!Frames
    BY <1>0, <2>1, DmxInNames DEF DmxInTypes, DmxIn!Frames
  <2>8. QED
    BY <1>1, <2>1, <2>6, <2>7
<1>5. QED
  BY <1>2, <1>3, <1>4 DEF DmxIn!Wire

(* The task has taken the first event and is where that ends.              *)
LEMMA TakeFits ==
  ASSUME QueueFits, events # <<>>, IsData(events[1]), events' = Tail(events),
         UNCHANGED <<channels, sent, pos, cut, late>>,
         NEW f, NEW p, f = FrameOf(events[1]), p = EndOf(events[1]), AtPlace(f, p)'
  PROVE  QueueFits'
<1>1. /\ events \in Seq(DmxIn!Events) /\ Len(events) \in Nat /\ Len(events) >= 1
      /\ events' \in Seq(DmxIn!Events) /\ Len(events') = Len(events) - 1
      /\ \A i \in 1 .. Len(events') :
           events'[i] = events[i + 1] /\ i + 1 \in 1 .. Len(events)
  BY DEF QueueFits
<1>2. ASSUME NEW i \in 1 .. Len(events') PROVE Consecutive(events'[i])
  BY <1>1 DEF QueueFits
<1>3. ASSUME NEW i \in 1 .. Len(events') - 1
      PROVE  ComesAfter(events[i], events[i + 1])'
  <2>1. /\ i \in 1 .. Len(events') /\ i + 1 \in 1 .. Len(events')
        /\ i + 1 \in 1 .. Len(events) - 1
    BY <1>1
  <2>2. events'[i] = events[i + 1] /\ events'[i + 1] = events[i + 1 + 1]
    BY <1>1, <2>1
  <2>3. ComesAfter(events[i + 1], events[i + 1 + 1])
    BY <2>1 DEF QueueFits
  <2>4. QED
    BY <2>2, <2>3 DEF ComesAfter, Followed, IsData, FrameOf, StartOf, EndOf
<1>4. CASE events' = <<>>
  <2>1. Followed(events[1], sent, pos)
    <3>1. Len(events) = 1
      BY <1>1, <1>4
    <3>2. QED
      BY <3>1 DEF QueueFits
  <2>2. f = sent /\ p = pos
    BY <2>1 DEF Followed
  <2>3. AtPlace(sent, pos)'
    BY <2>2 DEF AtPlace, CellOf, Current
  <2>4. Len(events') <= QueueLength
    BY <1>4, DmxInNames
  <2>5. QED
    BY <1>1, <1>2, <1>3, <1>4, <2>3, <2>4 DEF QueueFits, Consecutive
<1>5. CASE events' # <<>>
  <2>1. /\ 1 \in 1 .. Len(events') /\ events'[1] = events[2] /\ 1 \in 1 .. Len(events) - 1
        /\ Len(events') \in 1 .. Len(events') /\ events'[Len(events')] = events[Len(events)]
    BY <1>1, <1>5
  <2>2. ComesAfter(events[1], events[2])
    BY <2>1 DEF QueueFits
  <2>3. PICK e : e = events[2]
    OBVIOUS
  <2>4. ComesAfter(events[1], e)
    BY <2>2, <2>3
  <2>5. Expected(e)'
    <3>1. IsData(e) => AtPlace(FrameOf(e), StartOf(e))'
      <4>1. IsData(e) => FrameOf(e) = f /\ StartOf(e) = p
        BY <2>4 DEF ComesAfter, Followed
      <4>2. QED
        BY <4>1 DEF AtPlace, FrameOf, StartOf, Current, CellOf
    <3>2. e[1] = "break" => p = channels + 1
      BY <2>4 DEF ComesAfter
    <3>3. e[1] = "error" => f \in cut
      BY <2>4 DEF ComesAfter
    <3>4. QED
      BY <3>1, <3>2, <3>3 DEF Expected, AtPlace, Current, CellOf
  <2>6. Expected(events[1])'
    BY <2>1, <2>3, <2>5 DEF Expected, IsData, FrameOf, StartOf, AtPlace, Current, CellOf
  <2>7. Followed(events[Len(events)], sent, pos)'
    BY <2>1 DEF QueueFits, Followed, IsData, FrameOf, EndOf, StartOf
  <2>8. Len(events') <= QueueLength
    BY <1>1, DmxInNames DEF QueueFits
  <2>9. QED
    BY <1>1, <1>2, <1>3, <1>5, <2>6, <2>7, <2>8 DEF QueueFits, Consecutive
<1>6. QED
  BY <1>4, <1>5

LEMMA OnDataStep ==
  ASSUME DmxInSafe, DmxIn!OnData, OnlyForward'
  PROVE  DmxInSafe'
<1> USE DEF DmxIn!wireVars, DmxIn!taskVars, DmxIn!inputVars, DmxIn!lossVars
<1>0. DmxInTypes /\ QueueFits /\ OnlyForward /\ Filled /\ DmxIn!WholeOrMissed
      /\ InPlace(data) /\ InPlace(rx) /\ InPlace(got)
  BY DEF DmxInSafe
<1>1. /\ events # <<>> /\ IsData(events[1]) /\ events' = Tail(events)
      /\ UNCHANGED <<channels, sent, pos, errors, lastFrame, copying, got, cut, late>>
  BY DEF DmxIn!OnData, IsData
<1>2. 1 \in 1 .. Len(events) /\ events[1] \in DmxIn!Events
  BY <1>0, <1>1 DEF QueueFits
<1>3. PICK bytes : bytes = events[1][2]
  OBVIOUS
<1>4. PICK n \in 1 .. 2 : bytes \in [1 .. n -> DmxIn!Byte]
  BY <1>1, <1>2, <1>3 DEF DmxIn!Events, IsData
<1>5. PICK f : f = FrameOf(events[1])
  OBVIOUS
<1>6. PICK p : p = StartOf(events[1])
  OBVIOUS
<1>7. /\ n \in Int /\ Len(bytes) = n
      /\ \A k \in 1 .. n : bytes[k] = <<f, p + k - 1>> /\ bytes[k] \in DmxIn!Byte
      /\ f \in DmxIn!Frames /\ f \in Nat /\ p \in Nat
      /\ EndOf(events[1]) = p + n
  <2>1. Len(bytes) = n
    BY <1>4
  <2>2. Consecutive(events[1])
    BY <1>0, <1>2 DEF QueueFits
  <2>3. \A k \in 1 .. n : bytes[k] = <<f, p + k - 1>> /\ bytes[k] \in DmxIn!Byte
    BY <1>1, <1>3, <1>4, <1>5, <1>6, <2>1, <2>2 DEF Consecutive
  <2>4. bytes[1] \in DmxIn!Byte
    BY <1>4
  <2>5. f \in DmxIn!Frames /\ p \in Nat
    BY <1>3, <1>5, <1>6, <2>4, DmxInNames DEF FrameOf, StartOf, DmxIn!Byte
  <2>6. f \in Nat
    BY <2>5, DmxInNames DEF DmxIn!Frames
  <2>7. QED
    BY <1>3, <1>6, <2>1, <2>3, <2>5, <2>6 DEF EndOf
<1>8. /\ state = "DMX_DATA" => Current = f /\ (f \in late \/ addr = CellOf(p))
      /\ state = "DMX_BREAK" => f \in late \/ p = 0
  BY <1>0, <1>1, <1>5, <1>6 DEF QueueFits, Expected, AtPlace
<1>9. ASSUME NEW c \in DmxIn!Cells PROVE data[c][1] \in Nat /\ data[c][1] <= f
  <2>1. After(events[1], data)
    BY <1>0, <1>2 DEF OnlyForward
  <2>2. 1 \in 1 .. Len(bytes) /\ bytes[1] = <<f, p + 1 - 1>>
    BY <1>7
  <2>3. data[c][1] <= bytes[1][1]
    BY <1>1, <1>3, <2>1, <2>2 DEF After
  <2>4. data[c][1] \in Nat
    BY <1>0 DEF OnlyForward, Stamps
  <2>5. QED
    BY <2>2, <2>3, <2>4
<1>10. InPlace(got)'
  BY <1>0, <1>1 DEF InPlace
<1>11. CASE ~(state = "DMX_DATA" \/ DmxIn!Starts(bytes))
  <2>1. UNCHANGED <<state, addr, data, rx, frameCount, healthy>>
    BY <1>3, <1>11 DEF DmxIn!OnData, DmxIn!DATA
  <2>2. state = "DMX_BREAK" => f \in late
    <3>1. ASSUME state = "DMX_BREAK", p = 0 PROVE FALSE
      <4>1. bytes[1] = <<f, p + 1 - 1>>
        BY <1>7
      <4>2. bytes[1][2] = 0
        BY <3>1, <4>1
      <4>3. QED
        BY <1>11, <3>1, <4>2 DEF DmxIn!Starts, DmxIn!BREAK, DmxIn!IsZero
    <3>2. QED
      BY <1>8, <3>1
  <2>3. PICK q : q = EndOf(events[1])
    OBVIOUS
  <2>4. AtPlace(f, q)'
    BY <1>1, <1>11, <2>1, <2>2 DEF AtPlace
  <2>5. QueueFits'
    BY <1>0, <1>1, <1>5, <2>3, <2>4, TakeFits
  <2>6. DmxInTypes'
    BY <1>0, <1>1, <2>1 DEF DmxInTypes
  <2>7. InPlace(data)' /\ InPlace(rx)' /\ Filled' /\ DmxIn!WholeOrMissed'
    BY <1>1, <2>1, TaskAsBefore
  <2>8. QED
    BY <1>10, <2>5, <2>6, <2>7 DEF DmxInSafe
<1>12. CASE state = "DMX_DATA" \/ DmxIn!Starts(bytes)
  <2>1. /\ state' = "DMX_DATA"
        /\ data' = DmxIn!Fill(bytes)
        /\ addr' = DmxIn!EndOfChunk(bytes)
        /\ rx' = IF addr' = Universe + 1 THEN data' ELSE rx
        /\ frameCount' = IF DmxIn!Starts(bytes) THEN frameCount + 1 ELSE frameCount
        /\ healthy' = (healthy \/ DmxIn!Starts(bytes))
    BY <1>3, <1>12 DEF DmxIn!OnData, DmxIn!DATA, DmxIn!Complete
  <2>2. PICK first : first = DmxIn!AddressOf(bytes)
    OBVIOUS
  <2>3. /\ first \in 0 .. Universe + 1
        /\ f \in late \/ first = CellOf(p)
        /\ \/ first = 0
           \/ state = "DMX_DATA" /\ first = addr /\ addr >= 1 /\ Current = f
    <3>1. CASE DmxIn!Starts(bytes)
      <4>1. state = "DMX_BREAK" /\ first = 0
        BY <2>2, <3>1 DEF DmxIn!Starts, DmxIn!BREAK, DmxIn!AddressOf
      <4>2. CellOf(0) = 0
        BY DmxInNames DEF CellOf
      <4>3. QED
        BY <1>8, <4>1, <4>2, DmxInNames
    <3>2. CASE ~DmxIn!Starts(bytes)
      <4>1. first = addr /\ state = "DMX_DATA"
        BY <1>12, <2>2, <3>2 DEF DmxIn!AddressOf
      <4>2. QED
        BY <1>0, <1>8, <4>1 DEF DmxInTypes, Filled
    <3>3. QED
      BY <3>1, <3>2
  <2>4. data' = [c \in DmxIn!Cells |-> IF c \in first .. first + n - 1
                                       THEN bytes[c - first + 1] ELSE data[c]]
    BY <1>7, <2>1, <2>2 DEF DmxIn!Fill
  <2>5. addr' = IF first + n > Universe + 1 THEN Universe + 1 ELSE first + n
    BY <1>7, <2>1, <2>2 DEF DmxIn!EndOfChunk
  <2>6. /\ addr' \in 1 .. Universe + 1 /\ first \in Int /\ addr' \in Int /\ Universe \in Nat
        /\ \A c \in DmxIn!Cells : c \in Int /\ 0 <= c /\ c < Universe + 1
        /\ \A c \in DmxIn!Cells : c \in first .. first + n - 1 <=> first <= c /\ c < addr'
        /\ first <= addr'
    BY <1>7, <2>3, <2>5, DmxInNames
  <2>7. ASSUME NEW c \in DmxIn!Cells, first <= c, c < addr'
        PROVE  /\ data'[c] = <<f, p + (c - first)>> /\ data'[c] \in DmxIn!Byte
               /\ f \in late \/ p + (c - first) = c
    <3>1. c \in first .. first + n - 1 /\ c \in Int /\ c < Universe + 1
      BY <2>6, <2>7
    <3>2. c - first + 1 \in 1 .. n /\ p + (c - first + 1) - 1 = p + (c - first)
      BY <1>7, <2>6, <3>1
    <3>3. data'[c] = bytes[c - first + 1] /\ bytes[c - first + 1] \in DmxIn!Byte
      BY <1>7, <2>4, <3>1, <3>2
    <3>4. bytes[c - first + 1] = <<f, p + (c - first)>>
      BY <1>7, <3>2
    <3>5. first = CellOf(p) => first = p
      BY <1>7, <2>6, <2>7, <3>1 DEF CellOf
    <3>6. first = p => p + (c - first) = c
      BY <1>7, <2>6, <3>1
    <3>7. QED
      BY <2>3, <3>3, <3>4, <3>5, <3>6
  <2>8. ASSUME NEW c \in DmxIn!Cells, ~(first <= c /\ c < addr')
        PROVE  data'[c] = data[c]
    BY <2>4, <2>6, <2>8
  <2>9. Current' = f
    <3>0. PICK a \in 1 .. Universe + 1 : a = addr'
      BY <2>6
    <3>1. PICK c \in DmxIn!Cells : c = a - 1 /\ c < a /\ c \in Int
      <4>1. Universe \in Int /\ a \in Int /\ 1 <= a /\ a <= Universe + 1
        BY DmxInNames
      <4>2. PICK b \in Int : b = a - 1
        BY <4>1
      <4>3. 0 <= b /\ b <= Universe /\ b < a
        BY <4>1, <4>2
      <4>4. b \in DmxIn!Cells
        BY <4>1, <4>3, DmxInNames
      <4>5. QED
        BY <4>2, <4>3, <4>4
    <3>2. Current' = data'[c][1] /\ c < addr'
      BY <3>0, <3>1 DEF Current
    <3>3. CASE first <= c
      <4>1. data'[c] = <<f, p + (c - first)>>
        BY <2>7, <3>2, <3>3
      <4>2. QED
        BY <3>2, <4>1
    <3>4. CASE ~(first <= c)
      <4>1. first = a /\ first # 0
        <5>1. a \in Int /\ first \in Int /\ first <= a /\ a >= 1
          BY <2>6, <3>0
        <5>2. QED
          BY <3>1, <3>4, <5>1
      <4>2. addr = a /\ Current = f
        BY <2>3, <4>1
      <4>3. data'[c] = data[c]
        BY <2>8, <3>4
      <4>4. QED
        BY <3>1, <3>2, <4>2, <4>3 DEF Current
    <3>5. QED
      BY <3>3, <3>4
  <2>10. QueueFits'
    <3>1. PICK q : q = p + n
      OBVIOUS
    <3>2. f \in late \/ addr' = CellOf(q)
      BY <1>7, <2>3, <2>5, <3>1, DmxInNames DEF CellOf
    <3>3. AtPlace(f, q)'
      BY <1>1, <2>1, <2>9, <3>2 DEF AtPlace, CellOf
    <3>4. QED
      BY <1>0, <1>1, <1>5, <1>7, <3>1, <3>3, TakeFits
  <2>11. DmxInTypes'
    <3>1. data' \in [DmxIn!Cells -> DmxIn!Byte]
      <4>1. \A c \in DmxIn!Cells : data'[c] \in DmxIn!Byte
        BY <1>0, <2>7, <2>8 DEF DmxInTypes
      <4>2. QED
        BY <2>4, <4>1
    <3>2. rx' \in [DmxIn!Cells -> DmxIn!Byte] /\ addr' \in 0 .. Universe + 1
      BY <1>0, <2>1, <2>6, <3>1 DEF DmxInTypes
    <3>3. frameCount' \in Nat /\ frameCount <= frameCount' /\ healthy' \in BOOLEAN
      BY <1>0, <2>1 DEF DmxInTypes
    <3>4. lastFrame' \in 0 .. frameCount'
      BY <1>0, <1>1, <3>3 DEF DmxInTypes
    <3>5. QED
      BY <1>0, <1>1, <2>1, <3>1, <3>2, <3>3, <3>4 DEF DmxInTypes
  <2>12. InPlace(data)'
    <3>1. ASSUME NEW c \in DmxIn!Cells PROVE data'[c][2] = c \/ data'[c][1] \in late
      <4>1. CASE first <= c /\ c < addr'
        <5>1. data'[c] = <<f, p + (c - first)>> /\ (f \in late \/ p + (c - first) = c)
          BY <2>7, <4>1
        <5>2. QED
          BY <5>1
      <4>2. CASE ~(first <= c /\ c < addr')
        BY <1>0, <2>8, <4>2 DEF InPlace
      <4>3. QED
        BY <4>1, <4>2
    <3>2. QED
      BY <1>1, <3>1 DEF InPlace
  <2>13. InPlace(rx)'
    <3>1. CASE rx' = data'
      BY <2>12, <3>1 DEF InPlace
    <3>2. CASE rx' = rx
      BY <1>0, <1>1, <3>2 DEF InPlace
    <3>3. QED
      BY <2>1, <3>1, <3>2
  <2>14. ASSUME NEW c \in DmxIn!Cells, c < addr', f \notin late PROVE data'[c][1] = f
    <3>1. CASE first <= c
      <4>1. data'[c] = <<f, p + (c - first)>>
        BY <2>7, <2>14, <3>1
      <4>2. QED
        BY <4>1
    <3>2. CASE ~(first <= c)
      <4>1. state = "DMX_DATA" /\ c < addr /\ Current = f
        BY <2>3, <2>6, <3>2
      <4>2. data[c][1] = f
        BY <1>0, <2>14, <4>1 DEF Filled
      <4>3. data'[c] = data[c]
        BY <2>8, <3>2
      <4>4. QED
        BY <4>2, <4>3
    <3>3. QED
      BY <3>1, <3>2
  <2>15. DmxIn!Used' = DmxIn!Used /\ \A c \in DmxIn!Used : c \in DmxIn!Cells
    BY <1>1 DEF DmxIn!Used
  <2>16. ASSUME NEW c \in DmxIn!Used, NEW d \in DmxIn!Used, data'[c][1] > data'[d][1]
         PROVE  \/ data'[c][1] \in cut \cup late
                \/ data'[c][1] = f /\ d >= addr'
    <3>1. c \in DmxIn!Cells /\ d \in DmxIn!Cells
      BY <2>15
    <3>2. data'[c] \in DmxIn!Byte /\ data'[d] \in DmxIn!Byte
      BY <2>11, <3>1 DEF DmxInTypes
    <3>3. data'[c][1] \in Nat /\ data'[d][1] \in Nat
      BY <3>2, DmxInNames DEF DmxIn!Byte, DmxIn!Frames
    <3>4. CASE first <= c /\ c < addr'
      <4>1. data'[c] = <<f, p + (c - first)>>
        BY <2>7, <3>1, <3>4
      <4>2. data'[c][1] = f
        BY <4>1
      <4>3. f \in late \/ d >= addr'
        <5>1. ASSUME f \notin late, d < addr' PROVE FALSE
          <6>1. data'[d][1] = f
            BY <2>14, <3>1, <5>1
          <6>2. QED
            BY <1>7, <2>16, <4>2, <6>1
        <5>2. QED
          BY <2>6, <3>1, <5>1
      <4>4. QED
        BY <4>2, <4>3
    <3>5. CASE ~(first <= c /\ c < addr')
      <4>1. data'[c] = data[c] /\ data[c][1] <= f
        BY <1>9, <2>8, <3>1, <3>5
      <4>2. ~(first <= d /\ d < addr')
        <5>1. ASSUME first <= d, d < addr' PROVE FALSE
          <6>1. data'[d] = <<f, p + (d - first)>>
            BY <2>7, <3>1, <5>1
          <6>2. data'[d][1] = f
            BY <6>1
          <6>3. QED
            BY <1>7, <2>16, <3>3, <4>1, <6>2
        <5>2. QED
          BY <5>1
      <4>3. data'[d] = data[d]
        BY <2>8, <3>1, <4>2
      <4>4. \/ data[c][1] \in cut \cup late
            \/ state = "DMX_DATA" /\ data[c][1] = Current /\ d >= addr
        BY <1>0, <2>16, <4>1, <4>3 DEF Filled
      <4>5. CASE state = "DMX_DATA" /\ data[c][1] = Current /\ d >= addr
        <5>1. data[c][1] = f
          BY <1>8, <4>5
        <5>2. first = addr
          BY <2>2, <4>5 DEF DmxIn!AddressOf, DmxIn!Starts, DmxIn!BREAK
        <5>3. d >= addr'
          BY <2>6, <3>1, <4>2, <4>5, <5>2
        <5>4. QED
          BY <4>1, <5>1, <5>3
      <4>6. QED
        BY <4>1, <4>4, <4>5
    <3>6. QED
      BY <3>4, <3>5
  <2>17. Filled'
    BY <1>1, <2>1, <2>6, <2>9, <2>14, <2>15, <2>16 DEF Filled
  <2>18. DmxIn!WholeOrMissed'
    <3>1. CASE addr' = Universe + 1
      <4>1. rx' = data'
        BY <2>1, <3>1
      <4>2. \A d \in DmxIn!Used : ~(d >= addr')
        BY <2>6, <2>15, <3>1
      <4>3. QED
        BY <1>1, <2>15, <2>16, <4>1, <4>2 DEF DmxIn!WholeOrMissed, DmxIn!Missed
    <3>2. CASE addr' # Universe + 1
      <4>1. rx' = rx
        BY <2>1, <3>2
      <4>2. QED
        BY <1>0, <1>1, <2>15, <4>1 DEF DmxIn!WholeOrMissed, DmxIn!Missed
    <3>3. QED
      BY <3>1, <3>2
  <2>19. QED
    BY <1>10, <2>10, <2>11, <2>12, <2>13, <2>17, <2>18 DEF DmxInSafe
<1>13. QED
  BY <1>11, <1>12

(* What an event that clears the driver's queue throws away.               *)
LEMMA ThrownAway ==
  ASSUME DmxInTypes, QueueFits, events # <<>>
  PROVE  /\ DmxIn!Waiting \in SUBSET DmxIn!Frames
         /\ Len(events) > 1 => sent \in DmxIn!Waiting
<1>1. /\ events \in Seq(DmxIn!Events) /\ Len(events) \in Nat
      /\ Tail(events) \in Seq(DmxIn!Events) /\ sent \in DmxIn!Frames
      /\ Len(Tail(events)) = Len(events) - 1
  BY DEF QueueFits, DmxInTypes, DmxIn!Frames
<1>2. PICK later : later = Tail(events)
  OBVIOUS
<1>3. ASSUME NEW j \in DOMAIN later, later[j][1] = "data"
      PROVE  later[j][2][1][1] \in DmxIn!Frames
  <2>1. later[j] \in DmxIn!Events
    BY <1>1, <1>2
  <2>2. PICK n \in 1 .. 2 : later[j][2] \in [1 .. n -> DmxIn!Byte]
    BY <1>3, <2>1 DEF DmxIn!Events
  <2>3. later[j][2][1] \in DmxIn!Byte
    BY <2>2
  <2>4. QED
    BY <2>3 DEF DmxIn!Byte
<1>4. DmxIn!Waiting = IF later = <<>> THEN {}
                      ELSE {sent} \cup {later[i][2][1][1] :
                             i \in {j \in DOMAIN later : later[j][1] = "data"}}
  BY <1>2 DEF DmxIn!Waiting
<1>5. DmxIn!Waiting \in SUBSET DmxIn!Frames
  BY <1>1, <1>3, <1>4
<1>6. ASSUME Len(events) > 1 PROVE sent \in DmxIn!Waiting
  <2>1. later # <<>>
    <3>1. Len(later) = Len(events) - 1 /\ Len(events) \in Nat
      BY <1>1, <1>2
    <3>2. Len(later) # 0
      BY <1>6, <3>1
    <3>3. QED
      BY <3>2
  <2>2. QED
    BY <1>4, <2>1
<1>7. QED
  BY <1>5, <1>6

LEMMA OnBreakStep ==
  ASSUME DmxInSafe, DmxIn!OnBreak, OnlyForward'
  PROVE  DmxInSafe'
<1> USE DEF DmxIn!wireVars, DmxIn!inputVars
<1>0. DmxInTypes /\ QueueFits /\ Filled /\ InPlace(data) /\ InPlace(got)
  BY DEF DmxInSafe
<1>1. /\ events # <<>> /\ events[1][1] = "break"
      /\ events' = <<>> /\ rx' = data /\ state' = "DMX_BREAK"
      /\ late' = late \cup DmxIn!Waiting
      /\ UNCHANGED <<channels, sent, pos, errors, addr, data, frameCount, healthy,
                     lastFrame, copying, got, cut>>
  BY DEF DmxIn!OnBreak, DmxIn!CopyOnBreak, DmxIn!BREAK
<1>2. late' \in SUBSET DmxIn!Frames /\ late \subseteq late'
  BY <1>0, <1>1, ThrownAway DEF DmxInTypes
<1>3. DmxInTypes'
  BY <1>0, <1>1, <1>2 DEF DmxInTypes
<1>4. sent \in late' \/ pos = 0
  <2>1. CASE Len(events) > 1
    BY <1>0, <1>1, <2>1, ThrownAway
  <2>2. CASE ~(Len(events) > 1)
    <3>1. Len(events) = 1
      <4>1. events \in Seq(DmxIn!Events) /\ events # <<>>
        BY <1>0, <1>1 DEF QueueFits
      <4>2. Len(events) \in Nat /\ Len(events) # 0
        BY <4>1, EmptySeq
      <4>3. PICK m \in Nat : m = Len(events)
        BY <4>2
      <4>4. ~(m > 1) /\ m # 0
        BY <2>2, <4>2, <4>3
      <4>5. m = 1
        BY <4>4
      <4>6. QED
        BY <4>3, <4>5
    <3>2. Followed(events[1], sent, pos)
      BY <1>0, <1>1, <3>1 DEF QueueFits
    <3>3. QED
      BY <1>1, <3>2 DEF Followed
  <2>3. QED
    BY <2>1, <2>2
<1>5. QueueFits'
  BY <1>1, <1>4, DmxInNames DEF QueueFits, AtPlace
<1>6. InPlace(data)' /\ InPlace(rx)' /\ InPlace(got)'
  BY <1>0, <1>1, <1>2 DEF InPlace
<1>7. ASSUME NEW c \in DmxIn!Used, NEW d \in DmxIn!Used, data[c][1] > data[d][1]
      PROVE  data[c][1] \in cut \cup late
  <2>1. \/ data[c][1] \in cut \cup late
        \/ state = "DMX_DATA" /\ data[c][1] = Current /\ d >= addr
    BY <1>0, <1>7 DEF Filled
  <2>2. ASSUME state = "DMX_DATA", data[c][1] = Current, d >= addr
        PROVE  data[c][1] \in late
    <3>1. Current \in late \/ addr = CellOf(channels + 1)
      BY <1>0, <1>1, <2>2 DEF QueueFits, Expected
    <3>2. d < CellOf(channels + 1)
      BY <1>0, DmxInNames DEF DmxIn!Used, CellOf, DmxInTypes
    <3>3. d \in Int /\ addr \in Int
      BY <1>0, DmxInNames DEF DmxIn!Used, DmxInTypes
    <3>4. QED
      BY <2>2, <3>1, <3>2, <3>3
  <2>3. QED
    BY <2>1, <2>2
<1>8. DmxIn!Used' = DmxIn!Used
  BY <1>1 DEF DmxIn!Used
<1>9. Filled'
  BY <1>1, <1>2, <1>7, <1>8 DEF Filled
<1>10. DmxIn!WholeOrMissed'
  BY <1>1, <1>2, <1>7, <1>8 DEF DmxIn!WholeOrMissed, DmxIn!Missed
<1>11. QED
  BY <1>3, <1>5, <1>6, <1>9, <1>10 DEF DmxInSafe

LEMMA OnErrorStep ==
  ASSUME DmxInSafe, DmxIn!OnError, OnlyForward'
  PROVE  DmxInSafe'
<1> USE DEF DmxIn!wireVars, DmxIn!inputVars
<1>0. DmxInTypes /\ QueueFits /\ Filled /\ InPlace(data) /\ InPlace(rx) /\ InPlace(got)
      /\ DmxIn!WholeOrMissed
  BY DEF DmxInSafe
<1>1. /\ events # <<>> /\ events[1][1] = "error" /\ events' = <<>> /\ state' = "DMX_IDLE"
      /\ cut' = cut \cup DmxIn!Waiting
      /\ UNCHANGED <<channels, sent, pos, errors, addr, data, rx, frameCount, healthy,
                     lastFrame, copying, got, late>>
  BY DEF DmxIn!OnError, DmxIn!IDLE
<1>2. cut' \in SUBSET DmxIn!Frames /\ cut \subseteq cut'
  BY <1>0, <1>1, ThrownAway DEF DmxInTypes
<1>3. DmxInTypes'
  BY <1>0, <1>1, <1>2 DEF DmxInTypes
<1>4. QueueFits'
  BY <1>1, DmxInNames DEF QueueFits, AtPlace
<1>5. InPlace(data)' /\ InPlace(rx)' /\ InPlace(got)'
  BY <1>0, <1>1 DEF InPlace
<1>6. DmxIn!Used' = DmxIn!Used
  BY <1>1 DEF DmxIn!Used
<1>7. Filled'
  <2>1. state = "DMX_DATA" => Current \in cut
    BY <1>0, <1>1 DEF QueueFits, Expected
  <2>2. QED
    BY <1>0, <1>1, <1>2, <1>6, <2>1 DEF Filled
<1>8. DmxIn!WholeOrMissed'
  BY <1>0, <1>1, <1>2, <1>6 DEF DmxIn!WholeOrMissed, DmxIn!Missed
<1>9. QED
  BY <1>3, <1>4, <1>5, <1>7, <1>8 DEF DmxInSafe

(* What DMXInput does, and the passing of time, leaves the task alone.     *)
LEMMA InputStep ==
  ASSUME DmxInSafe, OnlyForward',
         UNCHANGED <<channels, sent, pos, errors, events, state, addr, data, rx, frameCount,
                     cut, late>>,
         healthy' \in BOOLEAN, lastFrame' \in 0 .. frameCount, copying' \in 1 .. Universe + 1,
         got' \in [DmxIn!Cells -> DmxIn!Byte],
         \A c \in DmxIn!Cells : got'[c][2] = c \/ got'[c][1] \in late
  PROVE  DmxInSafe'
<1>0. DmxInTypes /\ QueueFits
  BY DEF DmxInSafe
<1>1. DmxInTypes'
  BY <1>0 DEF DmxInTypes
<1>2. QueueFits'
  <2>1. Current' = Current /\ \A p : CellOf(p)' = CellOf(p)
    BY DEF Current, CellOf
  <2>2. AtPlace(sent, pos)' = AtPlace(sent, pos)
    BY <2>1 DEF AtPlace
  <2>3. Expected(events[1])' = Expected(events[1])
    BY <2>1 DEF Expected, AtPlace, IsData, FrameOf, StartOf
  <2>4. Followed(events[Len(events)], sent, pos)' = Followed(events[Len(events)], sent, pos)
    BY DEF Followed, IsData, FrameOf, StartOf, EndOf
  <2>5. \A i \in 1 .. Len(events) : Consecutive(events[i])' = Consecutive(events[i])
    BY DEF Consecutive, IsData, FrameOf, StartOf
  <2>6. \A i \in 1 .. Len(events) - 1 :
          ComesAfter(events[i], events[i + 1])' = ComesAfter(events[i], events[i + 1])
    BY DEF ComesAfter, Followed, IsData, FrameOf, StartOf, EndOf
  <2>7. QED
    BY <1>0, <2>2, <2>3, <2>4, <2>5, <2>6 DEF QueueFits
<1>3. InPlace(got)'
  BY DEF InPlace
<1>4. InPlace(data)' /\ InPlace(rx)' /\ Filled' /\ DmxIn!WholeOrMissed'
  BY TaskAsBefore
<1>5. QED
  BY <1>1, <1>2, <1>3, <1>4 DEF DmxInSafe

LEMMA DmxInStep ==
  ASSUME DmxInSafe, [DmxIn!Next]_(DmxIn!vars)
  PROVE  DmxInSafe'
<1> USE DEF DmxIn!wireVars, DmxIn!taskVars, DmxIn!inputVars, DmxIn!lossVars
<1>0. DmxInTypes /\ InPlace(got) /\ InPlace(rx) /\ OnlyForward'
  BY ForwardStep DEF DmxInSafe
<1>1. ASSUME UNCHANGED <<channels, sent, pos, errors, events, state, addr, data, rx, frameCount,
                         lastFrame, copying, got, cut, late>>, healthy' \in BOOLEAN
      PROVE  DmxInSafe'
  BY <1>0, <1>1, InputStep DEF DmxInTypes, InPlace
<1>2. CASE DmxIn!Process
  <2>1. /\ UNCHANGED <<channels, sent, pos, errors, events, state, addr, data, rx, frameCount,
                       healthy, got, cut, late>>
        /\ lastFrame' = frameCount /\ copying' = 1
    BY <1>2 DEF DmxIn!Process
  <2>2. lastFrame' \in 0 .. frameCount /\ copying' \in 1 .. Universe + 1
    BY <1>0, <2>1, DmxInNames DEF DmxInTypes
  <2>3. healthy' \in BOOLEAN
    BY <1>0, <2>1 DEF DmxInTypes
  <2>4. QED
    BY <1>0, <2>1, <2>2, <2>3, InputStep DEF DmxInTypes, InPlace
<1>3. CASE DmxIn!CopyChannel
  <2>1. /\ UNCHANGED <<channels, sent, pos, errors, events, state, addr, data, rx, frameCount,
                       healthy, lastFrame, cut, late>>
        /\ copying # Universe + 1 /\ copying' = copying + 1
        /\ got' = [got EXCEPT ![copying] = rx[copying]]
    BY <1>3 DEF DmxIn!CopyChannel, DmxIn!NotCopying
  <2>2. copying \in DmxIn!Cells /\ copying' \in 1 .. Universe + 1
    BY <1>0, <2>1, DmxInNames DEF DmxInTypes
  <2>3. /\ got' \in [DmxIn!Cells -> DmxIn!Byte]
        /\ \A c \in DmxIn!Cells : got'[c][2] = c \/ got'[c][1] \in late
    BY <1>0, <2>1, <2>2 DEF DmxInTypes, InPlace
  <2>4. healthy' \in BOOLEAN
    BY <1>0, <2>1 DEF DmxInTypes
  <2>5. lastFrame' \in 0 .. frameCount
    BY <1>0, <2>1 DEF DmxInTypes
  <2>6. QED
    BY <1>0, <2>1, <2>2, <2>3, <2>4, <2>5, InputStep
<1>4. CASE DmxIn!Silence
  BY <1>1, <1>4 DEF DmxIn!Silence
<1>5. CASE UNCHANGED DmxIn!vars
  <2>1. healthy' \in BOOLEAN
    BY <1>0, <1>5 DEF DmxIn!vars, DmxInTypes
  <2>2. QED
    BY <1>1, <1>5, <2>1 DEF DmxIn!vars
<1>6. QED
  BY <1>0, <1>2, <1>3, <1>4, <1>5, WireStep, OnDataStep, OnBreakStep, OnErrorStep
     DEF DmxIn!Next, DmxIn!Task, DmxIn!InputSteps

-----------------------------------------------------------------------------
(* LEDs over the network: a frame that comes finds the LEDs free within a  *)
(* tick, as the host has waited as long as they need.                      *)

LEMMA UdpNames ==
  /\ Second \in Nat \ {0} /\ ThrottleFps \in Nat \ {0}
  /\ Durations \subseteq Nat \ {0} /\ Delays \subseteq Nat
  /\ UdpFrames \in Nat /\ UdpTime \in Nat
BY LinksAssumption DEF Udp!UdpLinkAssumption

Later(a, b) == IF a < b THEN b ELSE a

(* The ticks that a frame keeps for itself.                                *)
Room(d) == Later(2, d)

Interval == Second \div ThrottleFps
Delay    == IF Delays = {} THEN 0 ELSE CHOOSE t \in Delays : TRUE

(* The ticks until a packet that is not sent yet can come.                 *)
Soonest == Delay + Later(0, Later(dataLength, Interval) - (now - Udp!LastFrame))

UdpTypes ==
  /\ now \in 0 .. UdpTime
  /\ sentAt \in Seq(0 .. UdpTime) /\ Len(sentAt) <= UdpFrames
  /\ dataLength \in Durations \cup {0}
  /\ packets \subseteq [packet : Udp!Packet, left : Nat]
  /\ pending \in Udp!Packet \cup {Udp!None} /\ ledsBusy \in Nat
  /\ shown \in 0 .. UdpFrames /\ arrived \in 0 .. UdpFrames
  /\ hostDone \in BOOLEAN /\ nodeDone \in BOOLEAN

(* A frame is waiting in the socket or in the buffer.                      *)
Waits(x) == x \in Udp!Packet /\ (pending = x \/ socket = <<x>>)

OneWaits == socket = <<>> \/ (pending = Udp!None /\ \E x \in Udp!Packet : socket = <<x>>)

(* What comes in n ticks finds the LEDs free in the tick after at the      *)
(* latest, and what waits now will have been shown.                        *)
InTime(n) ==
  /\ ledsBusy <= n + 1
  /\ \A x \in Udp!Packet : Waits(x) =>
       /\ ledsBusy <= 1 /\ n + 1 >= Room(x.duration) + ledsBusy
       /\ nodeDone => n >= Room(x.duration)

Apart(p, q) == q.left >= p.left + Room(p.packet.duration)

Spaced ==
  /\ \A p \in packets : Soonest >= p.left + Room(p.packet.duration)
  /\ \A p, q \in packets : p = q \/ Apart(p, q) \/ Apart(q, p)

UdpSafe ==
  /\ UdpTypes /\ thrown = FALSE /\ OneWaits
  /\ InTime(Soonest) /\ \A p \in packets : InTime(p.left)
  /\ Spaced

LEMMA IntervalIsNatural == Interval \in Nat
BY UdpNames DEF Interval

LEMMA LastFrameIsNatural == ASSUME UdpTypes PROVE Udp!LastFrame \in Nat
<1>1. sentAt \in Seq(0 .. UdpTime) /\ UdpTime \in Nat
  BY UdpNames DEF UdpTypes
<1>2. CASE sentAt = <<>>
  BY <1>2 DEF Udp!LastFrame
<1>3. CASE sentAt # <<>>
  <2>1. sentAt[Len(sentAt)] \in 0 .. UdpTime
    BY <1>1, <1>3
  <2>2. Udp!LastFrame = sentAt[Len(sentAt)]
    BY <1>3 DEF Udp!LastFrame, Udp!Last
  <2>3. QED
    BY <1>1, <2>1, <2>2
<1>4. QED
  BY <1>2, <1>3

LEMMA DelayFacts == Delay \in Nat /\ (Udp!Steady => \A t \in Delays : t = Delay)
BY UdpNames DEF Delay, Udp!Steady

LEMMA SoonestFacts ==
  ASSUME UdpTypes
  PROVE  /\ Soonest \in Nat /\ Soonest >= Delay /\ dataLength \in Nat /\ now \in Nat
         /\ ledsBusy \in Nat
<1>1. dataLength \in Nat /\ now \in Nat /\ Udp!LastFrame \in Nat /\ ledsBusy \in Nat
  BY UdpNames, LastFrameIsNatural DEF UdpTypes
<1>2. QED
  BY <1>1, IntervalIsNatural, DelayFacts DEF Soonest, Later

LEMMA PacketFacts ==
  ASSUME NEW x \in Udp!Packet
  PROVE  /\ x.duration \in Nat /\ x.duration > 0 /\ x.frame \in 1 .. UdpFrames /\ x # Udp!None
         /\ Room(x.duration) \in Nat /\ Room(x.duration) >= 2 /\ Room(x.duration) >= x.duration
<1>1. x.duration \in Durations /\ x.frame \in 1 .. UdpFrames
  BY DEF Udp!Packet
<1>2. x.duration \in Nat /\ x.duration > 0
  <2>1. Durations \subseteq Nat \ {0}
    BY UdpNames
  <2>2. x.duration \in Nat \ {0}
    BY <1>1, <2>1
  <2>3. \A n \in Nat \ {0} : n > 0
    OBVIOUS
  <2>4. QED
    BY <2>2, <2>3
<1>3. x # Udp!None
  BY <1>1 DEF Udp!None
<1>4. QED
  BY <1>1, <1>2, <1>3 DEF Room, Later

LEMMA LeftFacts ==
  ASSUME UdpTypes, NEW p \in packets
  PROVE  p.left \in Nat /\ p.packet \in Udp!Packet /\ p = [packet |-> p.packet, left |-> p.left]
BY DEF UdpTypes

LEMMA UdpInit == Init => UdpSafe
<1> SUFFICES ASSUME Init PROVE UdpSafe
  OBVIOUS
<1>1. /\ now = 0 /\ sentAt = <<>> /\ dataLength = 0
      /\ packets = {} /\ socket = <<>> /\ pending = Udp!None
      /\ ledsBusy = 0 /\ shown = 0 /\ arrived = 0 /\ thrown = FALSE
      /\ hostDone = FALSE /\ nodeDone = FALSE
  BY DEF Init, Udp!Init
<1>2. UdpTypes
  <2>1. now \in 0 .. UdpTime /\ shown \in 0 .. UdpFrames /\ arrived \in 0 .. UdpFrames
    BY <1>1, UdpNames
  <2>2. sentAt \in Seq(0 .. UdpTime) /\ Len(sentAt) <= UdpFrames
    BY <1>1, UdpNames
  <2>3. QED
    BY <1>1, <2>1, <2>2 DEF UdpTypes
<1>3. \A x \in Udp!Packet : ~Waits(x)
  BY <1>1, PacketFacts DEF Waits
<1>4. InTime(Soonest)
  BY <1>1, <1>2, <1>3, SoonestFacts DEF InTime
<1>5. QED
  BY <1>1, <1>2, <1>4 DEF UdpSafe, OneWaits, Spaced

LEMMA HostStep ==
  ASSUME Udp!Steady, UdpSafe, Udp!HostTurn
  PROVE  UdpSafe'
<1>1. /\ UdpTypes /\ thrown = FALSE /\ OneWaits
      /\ InTime(Soonest) /\ \A p \in packets : InTime(p.left)
      /\ Spaced
  BY DEF UdpSafe
<1>2. hostDone' = TRUE /\ UNCHANGED <<now, socket, pending, ledsBusy, shown, arrived, thrown,
                                      nodeDone>>
  BY DEF Udp!HostTurn, Udp!node
<1>3. \A n : InTime(n)' <=> InTime(n)
  BY <1>2 DEF InTime, Waits
<1>4. thrown' = FALSE /\ OneWaits'
  BY <1>1, <1>2 DEF OneWaits
<1>5. CASE UNCHANGED <<sentAt, dataLength, packets>>
  <2>1. UdpTypes'
    BY <1>1, <1>2, <1>5 DEF UdpTypes
  <2>2. Soonest' = Soonest
    BY <1>2, <1>5 DEF Soonest, Udp!LastFrame
  <2>3. Spaced'
    BY <1>1, <1>5, <2>2 DEF Spaced, Apart
  <2>4. InTime(Soonest)' /\ \A p \in packets' : InTime(p.left)'
    BY <1>1, <1>3, <1>5, <2>2 DEF InTime
  <2>5. QED
    BY <1>4, <2>1, <2>3, <2>4 DEF UdpSafe
<1>6. ASSUME NEW d \in Durations, Udp!Send(d)
      PROVE  UdpSafe'
  <2>1. /\ now - Udp!LastFrame >= Interval /\ now - Udp!LastFrame >= dataLength
        /\ Len(sentAt) < UdpFrames
        /\ sentAt' = Append(sentAt, now) /\ dataLength' = d
    BY <1>6 DEF Udp!Send, Udp!FpsReady, Udp!KbpsReady, Interval
  <2> DEFINE new == [packet |-> [frame |-> Len(sentAt'), duration |-> d], left |-> Delay]
  <2>2. packets' = packets \/ packets' = packets \cup {new}
    BY <1>6, DelayFacts DEF Udp!Send
  <2>3. Len(sentAt') = Len(sentAt) + 1 /\ sentAt' \in Seq(0 .. UdpTime)
        /\ sentAt' # <<>> /\ sentAt'[Len(sentAt')] = now /\ Len(sentAt) \in Nat
    BY <1>1, <2>1 DEF UdpTypes
  <2>4. new \in [packet : Udp!Packet, left : Nat]
    <3>1. Len(sentAt') \in 1 .. UdpFrames
      BY <2>1, <2>3, UdpNames
    <3>2. QED
      BY <3>1, DelayFacts DEF Udp!Packet
  <2>5. new.left = Delay /\ new.packet.duration = d
    OBVIOUS
  <2> HIDE DEF new
  <2>6. UdpTypes'
    <3>1. packets' \subseteq [packet : Udp!Packet, left : Nat]
      BY <1>1, <2>2, <2>4 DEF UdpTypes
    <3>2. Len(sentAt') <= UdpFrames
      BY <2>1, <2>3, UdpNames
    <3>3. QED
      BY <1>1, <1>2, <2>1, <2>3, <3>1, <3>2 DEF UdpTypes
  <2>7. /\ Soonest = Delay /\ Soonest' = Delay + Later(d, Interval)
        /\ Later(d, Interval) >= Room(d) /\ Room(d) \in Nat /\ Later(d, Interval) \in Nat
        /\ d \in Nat
    <3>1. Udp!LastFrame \in Nat /\ now \in Nat /\ dataLength \in Nat /\ d \in Nat
      BY <1>1, LastFrameIsNatural, SoonestFacts, UdpNames
    <3>2. Soonest = Delay
      BY <2>1, <3>1, IntervalIsNatural, DelayFacts DEF Soonest, Later
    <3>3. Udp!LastFrame' = now
      BY <2>3 DEF Udp!LastFrame, Udp!Last
    <3>4. Soonest' = Delay + Later(d, Interval)
      BY <1>2, <2>1, <3>1, <3>3, IntervalIsNatural, DelayFacts DEF Soonest, Later
    <3>5. Interval >= 2 \/ d >= 2
      BY DEF Udp!Steady, Interval
    <3>6. Later(d, Interval) >= Room(d) /\ Room(d) \in Nat /\ Later(d, Interval) \in Nat
      BY <3>1, <3>5, IntervalIsNatural DEF Later, Room
    <3>7. QED
      BY <3>1, <3>2, <3>4, <3>6
  <2>8. ASSUME NEW n \in Nat, n >= Soonest
        PROVE  InTime(n)'
    <3>1. \A x \in Udp!Packet : Room(x.duration) \in Nat
      BY PacketFacts
    <3>2. InTime(n)
      BY <1>1, <2>8, <3>1, SoonestFacts DEF InTime
    <3>3. QED
      BY <1>3, <3>2
  <2>9. InTime(Soonest)'
    <3>1. Soonest' \in Nat /\ Soonest' >= Soonest
      BY <2>7, DelayFacts
    <3>2. PICK n \in Nat : n = Soonest'
      BY <3>1
    <3>3. InTime(n)'
      BY <2>8, <3>1, <3>2
    <3>4. QED
      BY <3>2, <3>3 DEF InTime
  <2>10. ASSUME NEW p \in packets' PROVE InTime(p.left)'
    <3>1. CASE p \in packets
      BY <1>1, <1>3, <3>1
    <3>2. CASE p = new
      <4>1. p.left \in Nat /\ p.left >= Soonest
        BY <2>5, <2>7, <3>2, DelayFacts
      <4>2. QED
        BY <2>8, <4>1
    <3>3. QED
      BY <2>2, <3>1, <3>2
  <2>11. Spaced'
    <3>1. ASSUME NEW p \in packets
          PROVE  Soonest >= p.left + Room(p.packet.duration)
      BY <1>1 DEF Spaced
    <3>2. ASSUME NEW p \in packets
          PROVE  p.left \in Nat /\ Room(p.packet.duration) \in Nat
      BY <1>1, LeftFacts, PacketFacts
    <3>3. ASSUME NEW p \in packets'
          PROVE  Soonest' >= p.left + Room(p.packet.duration)
      <4>1. CASE p \in packets
        BY <2>7, <3>1, <3>2, <4>1, DelayFacts
      <4>2. CASE p = new
        BY <2>5, <2>7, <4>2, DelayFacts
      <4>3. QED
        BY <2>2, <4>1, <4>2
    <3>4. ASSUME NEW p \in packets PROVE Apart(p, new)
      BY <2>5, <2>7, <3>1 DEF Apart
    <3>5. \A p, q \in packets' : p = q \/ Apart(p, q) \/ Apart(q, p)
      BY <1>1, <2>2, <3>4 DEF Spaced
    <3>6. QED
      BY <3>3, <3>5 DEF Spaced, Apart
  <2>12. QED
    BY <1>4, <2>6, <2>9, <2>10, <2>11 DEF UdpSafe
<1>7. QED
  BY <1>5, <1>6 DEF Udp!HostTurn, Udp!host

LEMMA NodeStep ==
  ASSUME UdpSafe, Udp!NodeTurn
  PROVE  UdpSafe'
<1>1. /\ UdpTypes /\ thrown = FALSE /\ OneWaits
      /\ InTime(Soonest) /\ \A p \in packets : InTime(p.left)
      /\ Spaced
  BY DEF UdpSafe
<1>2. /\ ~nodeDone /\ nodeDone' = TRUE /\ socket' = <<>>
      /\ UNCHANGED <<now, sentAt, dataLength, packets, hostDone>>
      /\ LET shows == Udp!Drained # Udp!None /\ ledsBusy = 0
         IN  /\ pending' = IF shows THEN Udp!None ELSE Udp!Drained
             /\ shown' = IF shows THEN Udp!Drained.frame ELSE shown
             /\ ledsBusy' = IF shows THEN Udp!Drained.duration ELSE ledsBusy
      /\ arrived' = IF socket = <<>> THEN arrived ELSE Udp!Last(socket).frame
      /\ thrown' = (thrown \/ Len(socket) > (IF pending = Udp!None THEN 1 ELSE 0))
  BY DEF Udp!NodeTurn, Udp!host, Udp!Kept
<1>3. Soonest' = Soonest /\ Soonest \in Nat /\ ledsBusy \in Nat /\ OneWaits'
  BY <1>1, <1>2, SoonestFacts DEF Soonest, Udp!LastFrame, OneWaits
<1>4. Spaced'
  BY <1>1, <1>2, <1>3 DEF Spaced, Apart
<1>5. ASSUME UdpTypes', thrown' = FALSE, \A n \in Nat : InTime(n) => InTime(n)'
      PROVE  UdpSafe'
  <2>1. \A p \in packets : p.left \in Nat
    BY <1>1, LeftFacts
  <2>2. \A p \in packets' : InTime(p.left)'
    BY <1>1, <1>2, <1>5, <2>1
  <2>3. InTime(Soonest)'
    <3>1. PICK n \in Nat : n = Soonest
      BY <1>3
    <3>2. InTime(n)'
      BY <1>1, <1>5, <3>1
    <3>3. QED
      BY <1>3, <3>1, <3>2 DEF InTime
  <2>4. QED
    BY <1>3, <1>4, <1>5, <2>2, <2>3 DEF UdpSafe
<1>6. CASE pending = Udp!None /\ socket = <<>>
  <2>1. Udp!Drained = Udp!None
    BY <1>6 DEF Udp!Drained
  <2>2. /\ pending' = Udp!None /\ shown' = shown /\ ledsBusy' = ledsBusy
        /\ arrived' = arrived /\ thrown' = FALSE
    <3>1. Len(socket) = 0
      BY <1>6
    <3>2. ~(Len(socket) > (IF pending = Udp!None THEN 1 ELSE 0))
      BY <3>1
    <3>3. thrown' = FALSE
      BY <1>1, <1>2, <3>2
    <3>4. QED
      BY <1>2, <1>6, <2>1, <3>3
  <2>3. UdpTypes'
    BY <1>1, <1>2, <2>2 DEF UdpTypes
  <2>4. \A x \in Udp!Packet : ~Waits(x)'
    BY <1>2, <2>2, PacketFacts DEF Waits
  <2>5. \A n \in Nat : InTime(n) => InTime(n)'
    BY <2>2, <2>4 DEF InTime
  <2>6. QED
    BY <1>5, <2>2, <2>3, <2>5
<1>7. ASSUME NEW x \in Udp!Packet, Waits(x)
      PROVE  UdpSafe'
  <2>1. /\ Udp!Drained = x /\ thrown' = FALSE
        /\ arrived' \in 0 .. UdpFrames
    <3>1. CASE socket = <<>>
      <4>1. pending = x
        BY <1>7, <3>1 DEF Waits
      <4>2. thrown' = FALSE
        <5>1. Len(socket) = 0
          BY <3>1
        <5>2. ~(Len(socket) > (IF pending = Udp!None THEN 1 ELSE 0))
          BY <5>1
        <5>3. QED
          BY <1>1, <1>2, <5>2
      <4>3. QED
        BY <1>1, <1>2, <3>1, <4>1, <4>2 DEF Udp!Drained, UdpTypes
    <3>2. CASE socket # <<>>
      <4>1. PICK y \in Udp!Packet : socket = <<y>> /\ pending = Udp!None
        BY <1>1, <3>2 DEF OneWaits
      <4>2. x = y
        BY <1>7, <4>1, PacketFacts DEF Waits
      <4>3. Len(socket) = 1 /\ Udp!Last(socket) = x
        BY <4>1, <4>2 DEF Udp!Last
      <4>4. x.frame \in 0 .. UdpFrames
        BY PacketFacts, UdpNames
      <4>5. thrown' = FALSE
        <5>1. ~(Len(socket) > (IF pending = Udp!None THEN 1 ELSE 0))
          BY <4>1, <4>3
        <5>2. QED
          BY <1>1, <1>2, <5>1
      <4>6. QED
        BY <1>2, <3>2, <4>3, <4>4, <4>5 DEF Udp!Drained
    <3>3. QED
      BY <3>1, <3>2
  <2>2. /\ x.duration \in Nat /\ x.frame \in 0 .. UdpFrames /\ x # Udp!None
        /\ Room(x.duration) \in Nat /\ Room(x.duration) >= x.duration
    BY PacketFacts, UdpNames
  <2>3. CASE ledsBusy = 0
    <3>1. pending' = Udp!None /\ shown' = x.frame /\ ledsBusy' = x.duration
      BY <1>2, <2>1, <2>2, <2>3
    <3>2. UdpTypes'
      BY <1>1, <1>2, <2>1, <2>2, <3>1 DEF UdpTypes
    <3>3. \A y \in Udp!Packet : ~Waits(y)'
      BY <1>2, <3>1, PacketFacts DEF Waits
    <3>4. \A n \in Nat : InTime(n) => InTime(n)'
      BY <1>7, <2>2, <2>3, <3>1, <3>3 DEF InTime
    <3>5. QED
      BY <1>5, <2>1, <3>2, <3>4
  <2>4. CASE ledsBusy # 0
    <3>1. pending' = x /\ shown' = shown /\ ledsBusy' = ledsBusy
      BY <1>2, <2>1, <2>4
    <3>2. UdpTypes'
      BY <1>1, <1>2, <2>1, <3>1 DEF UdpTypes
    <3>3. \A y \in Udp!Packet : Waits(y)' => y = x
      BY <1>2, <3>1 DEF Waits
    <3>4. ASSUME NEW n \in Nat, InTime(n) PROVE InTime(n)'
      <4>1. ledsBusy <= 1 /\ n + 1 >= Room(x.duration) + ledsBusy
        BY <1>7, <3>4 DEF InTime
      <4>2. ledsBusy = 1 /\ n >= Room(x.duration)
        BY <1>3, <2>2, <2>4, <4>1
      <4>3. QED
        BY <2>2, <3>1, <3>3, <4>1, <4>2 DEF InTime
    <3>5. QED
      BY <1>5, <2>1, <3>2, <3>4
  <2>5. QED
    BY <2>3, <2>4
<1>8. QED
  <2>1. (pending = Udp!None /\ socket = <<>>) \/ \E x \in Udp!Packet : Waits(x)
    BY <1>1 DEF OneWaits, UdpTypes, Waits
  <2>2. QED
    BY <1>6, <1>7, <2>1

LEMMA ArriveStep ==
  ASSUME UdpSafe, NEW p \in packets, Udp!Arrive(p)
  PROVE  UdpSafe'
<1>1. /\ UdpTypes /\ thrown = FALSE /\ OneWaits
      /\ InTime(Soonest) /\ \A q \in packets : InTime(q.left)
      /\ Spaced
  BY DEF UdpSafe
<1>2. /\ p.left = 0 /\ packets' = packets \ {p} /\ socket' = Append(socket, p.packet)
      /\ UNCHANGED <<now, sentAt, dataLength, pending, ledsBusy, shown, arrived, thrown,
                     hostDone, nodeDone>>
  BY DEF Udp!Arrive, Udp!host
<1> DEFINE x == p.packet
<1>3. x \in Udp!Packet /\ Room(x.duration) \in Nat /\ Room(x.duration) >= 2
  BY <1>1, LeftFacts, PacketFacts
<1> HIDE DEF x
<1>4. ledsBusy \in Nat /\ ledsBusy <= 1
  BY <1>1, <1>2, SoonestFacts DEF InTime
<1>5. \A y \in Udp!Packet : ~Waits(y)
  <2> SUFFICES ASSUME NEW y \in Udp!Packet, Waits(y) PROVE FALSE
    OBVIOUS
  <2>1. 1 >= Room(y.duration) + ledsBusy
    BY <1>1, <1>2 DEF InTime
  <2>2. Room(y.duration) \in Nat /\ Room(y.duration) >= 2
    BY PacketFacts
  <2>3. QED
    BY <1>4, <2>1, <2>2
<1>6. pending = Udp!None /\ socket = <<>>
  BY <1>1, <1>5 DEF UdpTypes, OneWaits, Waits
<1>7. socket' = <<x>> /\ pending' = Udp!None
  BY <1>2, <1>6 DEF x
<1>8. \A y \in Udp!Packet : Waits(y)' => y = x
  BY <1>7, PacketFacts DEF Waits
<1>9. ASSUME NEW n \in Nat, n >= Room(x.duration)
      PROVE  InTime(n)'
  <2>1. ledsBusy' = ledsBusy /\ nodeDone' = nodeDone
    BY <1>2
  <2>2. ledsBusy <= n + 1 /\ n + 1 >= Room(x.duration) + ledsBusy
    BY <1>3, <1>4, <1>9
  <2>3. QED
    BY <1>4, <1>8, <1>9, <2>1, <2>2 DEF InTime
<1>10. Soonest' = Soonest
  BY <1>2 DEF Soonest, Udp!LastFrame
<1>11. InTime(Soonest)'
  <2>1. Soonest \in Nat /\ Soonest >= Room(x.duration)
    BY <1>1, <1>2, <1>3, SoonestFacts DEF Spaced, x
  <2>2. PICK n \in Nat : n = Soonest
    BY <2>1
  <2>3. InTime(n)'
    BY <1>9, <2>1, <2>2
  <2>4. QED
    BY <1>10, <2>2, <2>3 DEF InTime
<1>12. ASSUME NEW q \in packets' PROVE InTime(q.left)'
  <2>1. q \in packets /\ q # p
    BY <1>2
  <2>2. q.left \in Nat /\ Room(q.packet.duration) \in Nat /\ Room(q.packet.duration) >= 2
    BY <1>1, <2>1, LeftFacts, PacketFacts
  <2>3. Apart(p, q) \/ Apart(q, p)
    BY <1>1, <2>1 DEF Spaced
  <2>4. q.left >= Room(x.duration)
    BY <1>2, <1>3, <2>2, <2>3 DEF Apart, x
  <2>5. QED
    BY <1>9, <2>2, <2>4
<1>13. Spaced'
  BY <1>1, <1>2, <1>10 DEF Spaced, Apart
<1>14. UdpTypes' /\ thrown' = FALSE
  BY <1>1, <1>2 DEF UdpTypes
<1>15. OneWaits'
  BY <1>3, <1>7 DEF OneWaits
<1>16. QED
  BY <1>11, <1>12, <1>13, <1>14, <1>15 DEF UdpSafe

LEMMA TickStep ==
  ASSUME UdpSafe, Udp!Tick
  PROVE  UdpSafe'
<1>1. /\ UdpTypes /\ thrown = FALSE /\ OneWaits
      /\ InTime(Soonest) /\ \A q \in packets : InTime(q.left)
      /\ Spaced
  BY DEF UdpSafe
<1>2. /\ nodeDone /\ \A p \in packets : p.left > 0
      /\ now' = (IF now < UdpTime THEN now + 1 ELSE now)
      /\ packets' = {[p EXCEPT !.left = @ - 1] : p \in packets}
      /\ ledsBusy' = (IF ledsBusy > 0 THEN ledsBusy - 1 ELSE 0)
      /\ hostDone' = FALSE /\ nodeDone' = FALSE
      /\ UNCHANGED <<sentAt, dataLength, socket, pending, shown, arrived, thrown>>
  BY DEF Udp!Tick, Udp!host, Udp!CountDown
<1>3. ledsBusy \in Nat /\ ledsBusy' \in Nat
  <2>1. ledsBusy \in Nat
    BY <1>1, SoonestFacts
  <2>2. QED
    BY <1>2, <2>1
<1>4. /\ Soonest \in Nat /\ Soonest' \in Nat /\ Soonest' + 1 >= Soonest
  <2>1. /\ now \in Nat /\ dataLength \in Nat /\ Udp!LastFrame \in Nat
        /\ Interval \in Nat /\ Delay \in Nat
    BY <1>1, SoonestFacts, LastFrameIsNatural, IntervalIsNatural, DelayFacts
  <2>2. Udp!LastFrame' = Udp!LastFrame /\ dataLength' = dataLength
    BY <1>2 DEF Udp!LastFrame
  <2>3. now' = now \/ now' = now + 1
    BY <1>2
  <2>4. Soonest' = Delay + Later(0, Later(dataLength, Interval) - (now' - Udp!LastFrame))
    BY <2>2 DEF Soonest
  <2>5. QED
    BY <2>1, <2>3, <2>4 DEF Soonest, Later
<1>5. ASSUME NEW q \in packets'
      PROVE  \E p \in packets : /\ q = [p EXCEPT !.left = @ - 1]
                                /\ q = [packet |-> p.packet, left |-> p.left - 1]
                                /\ p.left \in Nat /\ p.left - 1 \in Nat
                                /\ p.packet \in Udp!Packet
  <2>1. PICK p \in packets : q = [p EXCEPT !.left = @ - 1]
    BY <1>2
  <2>2. /\ p.left \in Nat /\ p.packet \in Udp!Packet
        /\ p = [packet |-> p.packet, left |-> p.left] /\ p.left > 0
    BY <1>1, <1>2, LeftFacts
  <2>3. q = [packet |-> p.packet, left |-> p.left - 1]
    BY <2>1, <2>2
  <2>4. p.left - 1 \in Nat
    BY <2>2
  <2>5. QED
    BY <2>1, <2>2, <2>3, <2>4
<1>6. UdpTypes'
  <2>1. packets' \subseteq [packet : Udp!Packet, left : Nat]
    BY <1>5
  <2>2. now' \in 0 .. UdpTime
    BY <1>1, <1>2, UdpNames DEF UdpTypes
  <2>3. QED
    BY <1>1, <1>2, <1>3, <2>1, <2>2 DEF UdpTypes
<1>7. \A x : Waits(x)' <=> Waits(x)
  BY <1>2 DEF Waits
<1>8. ASSUME NEW n \in Nat, NEW m \in Nat, InTime(n), m + 1 >= n
      PROVE  InTime(m)'
  <2>1. ledsBusy' <= m + 1
    BY <1>2, <1>3, <1>8 DEF InTime
  <2>2. ASSUME NEW x \in Udp!Packet, Waits(x)
        PROVE  ledsBusy' <= 1 /\ m + 1 >= Room(x.duration) + ledsBusy'
    <3>1. ledsBusy <= 1 /\ n >= Room(x.duration)
      BY <1>2, <1>8, <2>2 DEF InTime
    <3>2. ledsBusy' = 0 /\ Room(x.duration) \in Nat
      BY <1>2, <1>3, <3>1, PacketFacts
    <3>3. QED
      BY <1>8, <3>1, <3>2
  <2>3. QED
    BY <1>2, <1>7, <2>1, <2>2 DEF InTime
<1>9. InTime(Soonest)'
  <2>1. PICK n \in Nat, m \in Nat : n = Soonest /\ m = Soonest'
    BY <1>4
  <2>2. InTime(m)'
    BY <1>1, <1>4, <1>8, <2>1
  <2>3. QED
    BY <2>1, <2>2 DEF InTime
<1>10. ASSUME NEW q \in packets' PROVE InTime(q.left)'
  <2>1. PICK p \in packets : p.left \in Nat /\ q.left = p.left - 1 /\ q.left \in Nat
    BY <1>5
  <2>2. QED
    BY <1>1, <1>8, <2>1
<1>11. Spaced'
  <2>1. ASSUME NEW q \in packets'
        PROVE  Soonest' >= q.left + Room(q.packet.duration)
    <3>1. PICK p \in packets : /\ p.left \in Nat /\ p.packet \in Udp!Packet
                               /\ q.left = p.left - 1 /\ q.packet = p.packet
      BY <1>5
    <3> DEFINE room == Room(p.packet.duration)
    <3>2. Soonest >= p.left + room /\ room \in Nat /\ Room(q.packet.duration) = room
      BY <1>1, <3>1, PacketFacts DEF Spaced
    <3> HIDE DEF room
    <3>3. Soonest' >= (p.left - 1) + room
      BY <1>4, <3>1, <3>2
    <3>4. QED
      BY <3>1, <3>2, <3>3
  <2>2. ASSUME NEW q \in packets', NEW r \in packets', q # r
        PROVE  Apart(q, r) \/ Apart(r, q)
    <3>1. PICK p \in packets : /\ p.left \in Nat /\ p.packet \in Udp!Packet
                               /\ q = [p EXCEPT !.left = @ - 1]
                               /\ q.left = p.left - 1 /\ q.packet = p.packet
      BY <1>5
    <3>2. PICK o \in packets : /\ o.left \in Nat /\ o.packet \in Udp!Packet
                               /\ r = [o EXCEPT !.left = @ - 1]
                               /\ r.left = o.left - 1 /\ r.packet = o.packet
      BY <1>5
    <3>3. p # o
      BY <2>2, <3>1, <3>2
    <3>4. Apart(p, o) \/ Apart(o, p)
      BY <1>1, <3>3 DEF Spaced
    <3>5. Room(p.packet.duration) \in Nat /\ Room(o.packet.duration) \in Nat
      BY <3>1, <3>2, PacketFacts
    <3>6. QED
      BY <3>1, <3>2, <3>4, <3>5 DEF Apart
  <2>3. QED
    BY <2>1, <2>2 DEF Spaced, Apart
<1>12. thrown' = FALSE /\ OneWaits'
  BY <1>1, <1>2 DEF OneWaits
<1>13. QED
  BY <1>6, <1>9, <1>10, <1>11, <1>12 DEF UdpSafe

LEMMA UdpStep ==
  ASSUME Udp!Steady, UdpSafe, [Udp!Next]_(Udp!vars)
  PROVE  UdpSafe'
<1>1. CASE UNCHANGED Udp!vars
  <2>1. UNCHANGED <<now, sentAt, dataLength, packets, socket, pending, ledsBusy, shown, arrived,
                    thrown, hostDone, nodeDone>>
    BY <1>1 DEF Udp!vars, Udp!host, Udp!node
  <2>2. UdpTypes' /\ OneWaits' /\ thrown' = FALSE
    BY <2>1 DEF UdpSafe, UdpTypes, OneWaits
  <2>3. Soonest' = Soonest
    BY <2>1 DEF Soonest, Udp!LastFrame
  <2>4. InTime(Soonest)' /\ \A p \in packets' : InTime(p.left)'
    BY <2>1, <2>3 DEF UdpSafe, InTime, Waits
  <2>5. Spaced'
    BY <2>1, <2>3 DEF UdpSafe, Spaced, Apart
  <2>6. QED
    BY <2>2, <2>4, <2>5 DEF UdpSafe
<1>2. QED
  BY <1>1, HostStep, NodeStep, TickStep, ArriveStep DEF Udp!Next

LEMMA UdpIsEnough ==
  ASSUME UdpSafe
  PROVE  Udp!TypeOK /\ Udp!ShortWait /\ NoneThrownAway
<1>1. Udp!NoneThrownAway
  BY DEF UdpSafe, Udp!NoneThrownAway
<1>2. Udp!ShortWait
  <2> SUFFICES ASSUME pending # Udp!None PROVE ledsBusy <= 1
    BY DEF Udp!ShortWait
  <2>1. pending \in Udp!Packet /\ Waits(pending)
    BY DEF UdpSafe, UdpTypes, Waits
  <2>2. QED
    BY <2>1 DEF UdpSafe, InTime
<1>3. Udp!TypeOK
  <2>1. UdpTypes /\ OneWaits /\ thrown = FALSE
    BY DEF UdpSafe
  <2>2. Udp!ToSet(sentAt) \subseteq 0 .. UdpTime
    <3>1. sentAt \in Seq(0 .. UdpTime)
      BY <2>1 DEF UdpTypes
    <3>2. \A i \in DOMAIN sentAt : sentAt[i] \in 0 .. UdpTime
      <4>1. DOMAIN sentAt = 1 .. Len(sentAt)
        BY <3>1
      <4>2. QED
        BY <3>1, <4>1, ElementOfSeq, Zenon
    <3>3. QED
      BY <3>2 DEF Udp!ToSet
  <2>3. Udp!ToSet(socket) \subseteq Udp!Packet
    BY <2>1 DEF OneWaits, Udp!ToSet
  <2>4. \A p \in packets : p.packet \in Udp!Packet /\ p.left \in Nat
    BY <2>1, LeftFacts
  <2>5. QED
    BY <2>1, <2>2, <2>3, <2>4 DEF UdpTypes, Udp!TypeOK
<1>4. QED
  BY <1>1, <1>2, <1>3 DEF NoneThrownAway

-----------------------------------------------------------------------------
(* LED strips on the ESP32: how far the fills are ahead of the hardware.   *)

LEMMA RmtNames ==
  /\ Rmt!Max(Strips) \in Nat /\ Strips = 0 .. Rmt!Max(Strips)
  /\ Rmt!Max(Lengths) \in Nat /\ Lengths \subseteq 1 .. Rmt!Max(Lengths)
  /\ MaxLate \in 0 .. 2
BY LinksAssumption DEF Rmt!RmtAssumption, Rmt!PerFill

LEMMA LengthIsPositive == \A l \in Lengths : l \in Nat \ {0}
BY RmtNames

LEMMA StripIsNatural == \A c \in Strips : c \in Nat
BY RmtNames

(* The first byte that n fills do not write, and where they point then.    *)
Reach(n, l) == IF 3 * n <= l THEN 3 * n ELSE l
Pointer(n, l) ==
  IF 3 * n < l THEN (3 * n) % 8 ELSE ((l % 8) + n) - ((l + 2) \div 3) + 1

(* The slot of a byte, counted from 0.                                     *)
Cell(c, i) == 8 * c + (i % 8)

(* What lies in the block of a channel that has sent s bytes, after n      *)
(* fills: the bytes that are not sent yet, and the end mark behind the     *)
(* last.                                                                   *)
BlockReady(c, t, s, n) ==
  /\ t.position = Reach(n, t.length) /\ t.ptr = Pointer(n, t.length)
  /\ \A i \in s .. t.position - 1 : t.mem[Cell(c, i)] = <<t.frame, i + 1>>
  /\ t.position = t.length => t.mem[Cell(c, t.length)] = <<>>

Fill == [mem : [Rmt!Memory -> Rmt!Bytes \cup {<<>>}], frame : {0, 1}, length : Lengths,
         position : Nat, ptr : Nat]

(* The fills that a channel has had: two before it starts and one for      *)
(* every interrupt that is done.                                           *)
Fills(c) == IF next[c] THEN 1 + (Len(out[c]) \div 3) ELSE 2 + (Len(out[c]) \div 3)

Sending(c) ==
  /\ Rmt!Transmission(c) \in Fill
  /\ Len(out[c]) <= length[c]
  /\ next[c] => Len(out[c]) >= 3
  /\ BlockReady(c, Rmt!Transmission(c), Len(out[c]), Fills(c))
  /\ ~running[c] => Len(out[c]) = length[c]

RmtTypes ==
  /\ mem \in [Rmt!Memory -> Rmt!Bytes \cup {<<>>}]
  /\ active \in [Strips -> BOOLEAN] /\ running \in [Strips -> BOOLEAN]
  /\ next \in [Strips -> BOOLEAN] /\ done \in [Strips -> BOOLEAN]
  /\ frame \in [Strips -> {0, 1}] /\ length \in [Strips -> Lengths \cup {0}]
  /\ position \in [Strips -> Nat] /\ ptr \in [Strips -> Nat]
  /\ out \in [Strips -> Seq(Rmt!Bytes)]

OutInOrder(c) == \A i \in 1 .. Len(out[c]) : out[c][i] = <<frame[c], i>>

Within(c) == Len(out[c]) <= length[c] /\ position[c] <= length[c] /\ ptr[c] <= 8

RmtSafe ==
  /\ RmtTypes
  /\ \A c \in Strips : Within(c)
  /\ \A c \in Strips : active[c] => Sending(c)
  /\ \A c \in Strips : ~active[c] => ~running[c] /\ ~done[c] /\ ~next[c]
  /\ \A c \in Strips : done[c] => ~running[c]
  /\ \A c \in Strips : OutInOrder(c)

-----------------------------------------------------------------------------
(* The arithmetic of a block.                                              *)

LEMMA SameSlot ==
  ASSUME NEW i \in Nat, NEW j \in Nat, i % 8 = j % 8, i < j + 8, j < i + 8
  PROVE  i = j
OBVIOUS

(* Which of the bytes that a fill writes at p goes to the slot of byte i.  *)
LEMMA NthOfSlot ==
  ASSUME NEW p \in Nat, NEW i \in Nat, i >= p, i < p + 8
  PROVE  ((i % 8) - (p % 8)) % 8 = i - p
OBVIOUS

LEMMA NthOfEarlier ==
  ASSUME NEW p \in Nat, NEW i \in Nat, i < p, p <= i + 3
  PROVE  ((i % 8) - (p % 8)) % 8 = (i - p) + 8
OBVIOUS

LEMMA CellInMemory ==
  ASSUME NEW c \in Strips, NEW i \in Nat
  PROVE  /\ Cell(c, i) \in Rmt!Memory
         /\ Cell(c, i) - 8 * c = i % 8 /\ i % 8 \in 0 .. 7
<1>1. c \in Nat /\ Rmt!Max(Strips) \in Nat /\ c <= Rmt!Max(Strips)
  BY RmtNames
<1>2. i % 8 \in 0 .. 7
  OBVIOUS
<1>3. QED
  BY <1>1, <1>2 DEF Cell, Rmt!Memory, Rmt!Slots, Rmt!PerFill

LEMMA CellsApart ==
  ASSUME NEW c \in Strips, NEW d \in Strips, c # d, NEW i \in Nat,
         NEW a \in 8 * c .. 8 * c + 7
  PROVE  Cell(d, i) # a
<1>1. c \in Nat /\ d \in Nat
  BY StripIsNatural
<1>2. i % 8 \in 0 .. 7
  OBVIOUS
<1>3. QED
  BY <1>1, <1>2 DEF Cell

-----------------------------------------------------------------------------
(* One fill.                                                               *)

(* How far a fill may be ahead, and that its end mark lies in the block.   *)
Due(s, n, l) ==
  /\ s \in Nat /\ n \in Nat /\ l \in Nat \ {0}
  /\ 3 * n <= s + 3 /\ n + 1 <= 2 + (l \div 3)
  /\ (l % 8) + (IF l % 3 = 0 THEN 3 ELSE 2) <= 8

LEMMA EndStaysInBlock ==
  ASSUME NEW s, NEW n, NEW l, Due(s, n, l), 3 * (n + 1) >= l
  PROVE  /\ 3 * n >= l => Pointer(n, l) \in 1 .. 7
         /\ Pointer(n + 1, l) \in 1 .. 8
BY DEF Due, Pointer

LEMMA LeastOfTwo ==
  ASSUME NEW a \in Nat, NEW b \in Nat
  PROVE  Rmt!Min({a, b}) = IF a <= b THEN a ELSE b
<1>1. CASE a <= b
  BY <1>1 DEF Rmt!Min
<1>2. CASE b < a
  BY <1>2 DEF Rmt!Min
<1>3. QED
  BY <1>1, <1>2

LEMMA FillEnds ==
  ASSUME NEW c \in Strips, NEW t \in Fill, NEW s, NEW n, Due(s, n, t.length), BlockReady(c, t, s, n)
  PROVE  Rmt!FillTill(t) = Reach(n + 1, t.length)
<1>1. Rmt!FillTill(t) = IF t.position + 3 <= t.length THEN t.position + 3 ELSE t.length
  BY LeastOfTwo, LengthIsPositive DEF Rmt!FillTill, Rmt!PerFill, Fill
<1>2. QED
  BY <1>1 DEF Reach, BlockReady, Due

(* The slots of the channel's own block get the next bytes, and the others *)
(* are left alone.                                                         *)
FillsSlot(c, t, a) ==
  /\ a - 8 * c \in 0 .. 8 - 1
  /\ (((a - 8 * c) - t.ptr) % 8) + 1 <= Rmt!FillTill(t) - t.position
WithData(c, t) ==
  [a \in Rmt!Memory |->
     IF FillsSlot(c, t, a)
     THEN <<t.frame, t.position + ((((a - 8 * c) - t.ptr) % 8) + 1)>> ELSE t.mem[a]]

EndAt(t) ==
  IF Rmt!FillTill(t) - t.position = 0 THEN t.ptr
  ELSE (t.ptr + (Rmt!FillTill(t) - t.position)) % 8

LEMMA FillIs ==
  ASSUME NEW c, NEW t
  PROVE  Rmt!FillNext(c, t) =
           [t EXCEPT !.position = Rmt!FillTill(t),
                     !.ptr = IF Rmt!FillTill(t) = t.length THEN EndAt(t) + 1 ELSE EndAt(t),
                     !.mem = IF Rmt!FillTill(t) = t.length
                             THEN [WithData(c, t) EXCEPT ![8 * c + EndAt(t)] = <<>>]
                             ELSE WithData(c, t)]
BY DEF Rmt!FillNext, Rmt!Block, Rmt!Slots, Rmt!End, EndAt, WithData, FillsSlot

LEMMA FillParts ==
  ASSUME NEW c \in Strips, NEW t \in Fill
  PROVE  /\ Rmt!FillNext(c, t).frame = t.frame /\ Rmt!FillNext(c, t).length = t.length
         /\ Rmt!FillNext(c, t).position = Rmt!FillTill(t)
         /\ Rmt!FillNext(c, t).ptr =
              IF Rmt!FillTill(t) = t.length THEN EndAt(t) + 1 ELSE EndAt(t)
         /\ Rmt!FillNext(c, t).mem =
              IF Rmt!FillTill(t) = t.length
              THEN [WithData(c, t) EXCEPT ![8 * c + EndAt(t)] = <<>>] ELSE WithData(c, t)
         /\ Rmt!FillNext(c, t) =
              [mem |-> Rmt!FillNext(c, t).mem, frame |-> t.frame, length |-> t.length,
               position |-> Rmt!FillNext(c, t).position, ptr |-> Rmt!FillNext(c, t).ptr]
  BY FillIs DEF Fill

LEMMA FillTypes == 
  ASSUME NEW t \in Fill
  PROVE  /\ t.position \in Nat /\ t.ptr \in Nat /\ t.length \in Nat \ {0}
         /\ t.length <= Rmt!Max(Lengths) /\ t.frame \in {0, 1}
         /\ t.mem \in [Rmt!Memory -> Rmt!Bytes \cup {<<>>}]
<1>1. t.length \in 1 .. Rmt!Max(Lengths) /\ Rmt!Max(Lengths) \in Nat
  BY RmtNames DEF Fill
<1>2. QED
  BY <1>1 DEF Fill

LEMMA DataTypes ==
  ASSUME NEW c \in Strips, NEW t \in Fill, Rmt!FillTill(t) \in Nat, Rmt!FillTill(t) <= t.length
  PROVE  WithData(c, t) \in [Rmt!Memory -> Rmt!Bytes \cup {<<>>}]
<1> SUFFICES ASSUME NEW a \in Rmt!Memory, FillsSlot(c, t, a)
             PROVE  <<t.frame, t.position + ((((a - 8 * c) - t.ptr) % 8) + 1)>> \in Rmt!Bytes
  BY FillTypes DEF WithData
<1>1. a \in Int /\ c \in Int
  BY RmtNames DEF Rmt!Memory, Rmt!Slots, Rmt!PerFill
<1>2. PICK k \in Nat : k = ((a - 8 * c) - t.ptr) % 8
  BY <1>1, FillTypes
<1>3. k + 1 <= Rmt!FillTill(t) - t.position
  BY <1>2 DEF FillsSlot
<1>4. t.position + (k + 1) \in 1 .. Rmt!Max(Lengths)
  BY <1>3, FillTypes, RmtNames
<1>5. QED
  BY <1>2, <1>4, FillTypes DEF Rmt!Bytes, Rmt!Frame

LEMMA DataAt ==
  ASSUME NEW c \in Strips, NEW t \in Fill, t.ptr = t.position % 8,
         Rmt!FillTill(t) - t.position \in 0 .. 3, NEW i \in Nat
  PROVE  /\ i >= t.position /\ i < Rmt!FillTill(t) =>
              WithData(c, t)[Cell(c, i)] = <<t.frame, i + 1>>
         /\ i < t.position /\ t.position <= i + 3 =>
              WithData(c, t)[Cell(c, i)] = t.mem[Cell(c, i)]
<1>0. t.position \in Nat /\ Rmt!FillTill(t) \in Nat
  <2>1. t.position \in Nat /\ t.length \in Nat
    BY FillTypes
  <2>2. QED
    BY <2>1, LeastOfTwo DEF Rmt!FillTill, Rmt!PerFill
<1>1. /\ Cell(c, i) \in Rmt!Memory /\ Cell(c, i) - 8 * c = i % 8
      /\ i % 8 \in 0 .. 8 - 1
  BY CellInMemory
<1>2. ASSUME i >= t.position, i < Rmt!FillTill(t)
      PROVE  WithData(c, t)[Cell(c, i)] = <<t.frame, i + 1>>
  <2>0. i < t.position + 8
    BY <1>0, <1>2
  <2>1. ((i % 8) - (t.position % 8)) % 8 = i - t.position
    BY <1>0, <1>2, <2>0, NthOfSlot
  <2>2. FillsSlot(c, t, Cell(c, i))
    BY <1>0, <1>1, <1>2, <2>1 DEF FillsSlot
  <2>3. t.position + ((i - t.position) + 1) = i + 1
    BY <1>0
  <2>4. QED
    BY <1>1, <2>1, <2>2, <2>3 DEF WithData
<1>3. ASSUME i < t.position, t.position <= i + 3
      PROVE  WithData(c, t)[Cell(c, i)] = t.mem[Cell(c, i)]
  <2>1. ((i % 8) - (t.position % 8)) % 8 = (i - t.position) + 8
    BY <1>0, <1>3, NthOfEarlier
  <2>2. ~FillsSlot(c, t, Cell(c, i))
    BY SMTT(30), <1>0, <1>1, <1>3, <2>1 DEF FillsSlot
  <2>3. QED
    BY <1>1, <2>2 DEF WithData
<1>4. QED
  BY <1>2, <1>3

LEMMA DataElsewhere ==
  ASSUME NEW c \in Strips, NEW t \in Fill, NEW a \in Rmt!Memory, a \notin 8 * c .. 8 * c + 7
  PROVE  WithData(c, t)[a] = t.mem[a]
<1>1. a \in Int /\ c \in Int
  BY RmtNames DEF Rmt!Memory, Rmt!Slots, Rmt!PerFill
<1>2. ~FillsSlot(c, t, a)
  BY <1>1 DEF FillsSlot
<1>3. QED
  BY <1>2 DEF WithData

(* Nothing to fill in: only an end mark is written.                        *)
LEMMA NoData ==
  ASSUME NEW c \in Strips, NEW t \in Fill, Rmt!FillTill(t) = t.position
  PROVE  WithData(c, t) = t.mem
<1> SUFFICES ASSUME NEW a \in Rmt!Memory PROVE ~FillsSlot(c, t, a)
  BY FillTypes DEF WithData
<1>1. a \in Int /\ c \in Int /\ t.ptr \in Int /\ t.position \in Int
  BY RmtNames, FillTypes DEF Rmt!Memory, Rmt!Slots, Rmt!PerFill
<1>2. QED
  BY <1>1 DEF FillsSlot

Untouched(c, m, w) == \A a \in Rmt!Memory : a \notin 8 * c .. 8 * c + 7 => w[a] = m[a]

(* The first slot of an end mark, that of byte l, and the ones behind it.  *)
LEMMA EndMarkAt ==
  ASSUME NEW l \in Nat, NEW n \in Nat, 3 * n >= l, Pointer(n, l) \in 1 .. 7
  PROVE  \A i \in Nat : i <= l /\ 3 * n <= i + 3 => i % 8 # Pointer(n, l)
BY DEF Pointer

LEMMA PointerMoves ==
  ASSUME NEW l \in Nat, NEW n \in Nat
  PROVE  /\ 3 * n >= l => Pointer(n + 1, l) = Pointer(n, l) + 1
         /\ 3 * n < l => Pointer(n, l) = (3 * n) % 8
         /\ 3 * n < l /\ 3 * (n + 1) >= l => Pointer(n + 1, l) = (l % 8) + 1
<1>1. ~(3 * (n + 1) < l) => Pointer(n + 1, l) = ((l % 8) + (n + 1)) - ((l + 2) \div 3) + 1
  BY DEF Pointer
<1>2. l % 8 \in Nat /\ (l + 2) \div 3 \in Nat
  OBVIOUS
<1>3. CASE 3 * n >= l
  <2>1. Pointer(n, l) = ((l % 8) + n) - ((l + 2) \div 3) + 1
    BY <1>3 DEF Pointer
  <2>2. ~(3 * (n + 1) < l)
    BY <1>3
  <2>3. QED
    BY <1>1, <1>2, <1>3, <2>1, <2>2
<1>4. CASE 3 * n < l
  <2>1. Pointer(n, l) = (3 * n) % 8
    BY <1>4 DEF Pointer
  <2>2. ASSUME 3 * (n + 1) >= l PROVE Pointer(n + 1, l) = (l % 8) + 1
    <3>1. (l + 2) \div 3 = n + 1
      BY <1>4, <2>2
    <3>2. QED
      BY <1>1, <1>2, <2>2, <3>1
  <2>3. QED
    BY <1>4, <2>1, <2>2
<1>5. QED
  BY <1>3, <1>4

LEMMA FillOnlyEnds ==
  ASSUME NEW c \in Strips, NEW t \in Fill, NEW s, NEW n,
         Due(s, n, t.length), BlockReady(c, t, s, n), 3 * n >= t.length
  PROVE  /\ Rmt!FillNext(c, t) \in Fill /\ BlockReady(c, Rmt!FillNext(c, t), s, n + 1)
         /\ Untouched(c, t.mem, Rmt!FillNext(c, t).mem)
<1> DEFINE u == Rmt!FillNext(c, t)
<1>0. s \in Nat /\ n \in Nat /\ t.length \in Nat \ {0} /\ 3 * n <= s + 3
  BY DEF Due
<1>1. t.position = t.length /\ t.ptr = Pointer(n, t.length)
  BY <1>0 DEF BlockReady, Reach
<1>2. Reach(n + 1, t.length) = t.length
  BY <1>0 DEF Reach
<1>3. Rmt!FillTill(t) = t.length
  BY <1>2, FillEnds
<1>4. EndAt(t) = t.ptr
  BY <1>0, <1>1, <1>3 DEF EndAt
<1>5. t.ptr \in 1 .. 7
  BY <1>0, <1>1, EndStaysInBlock
<1>6. /\ u.frame = t.frame /\ u.length = t.length /\ u.position = t.length
      /\ u.ptr = t.ptr + 1 /\ u.mem = [t.mem EXCEPT ![8 * c + t.ptr] = <<>>]
      /\ u = [mem |-> u.mem, frame |-> t.frame, length |-> t.length,
              position |-> u.position, ptr |-> u.ptr]
  BY <1>1, <1>3, <1>4, FillParts, NoData
<1> HIDE DEF u
<1>7. t.mem \in [Rmt!Memory -> Rmt!Bytes \cup {<<>>}] /\ c \in Nat
  BY FillTypes, StripIsNatural
<1>8. u \in Fill
  <2>1. u.mem \in [Rmt!Memory -> Rmt!Bytes \cup {<<>>}]
    BY <1>6, <1>7
  <2>2. t.frame \in {0, 1} /\ t.length \in Lengths
    BY DEF Fill
  <2>3. u.position \in Nat /\ u.ptr \in Nat
    BY <1>0, <1>5, <1>6
  <2>4. QED
    BY <1>6, <2>1, <2>2, <2>3 DEF Fill
<1>9. \A a \in Rmt!Memory : a # 8 * c + t.ptr => u.mem[a] = t.mem[a]
  BY <1>6, <1>7
<1>10. \A i \in Nat : i <= t.length /\ s <= i => u.mem[Cell(c, i)] = t.mem[Cell(c, i)]
  <2> SUFFICES ASSUME NEW i \in Nat, i <= t.length, s <= i
               PROVE  Cell(c, i) # 8 * c + t.ptr
    BY <1>9, CellInMemory
  <2>1. 3 * n <= i + 3
    BY <1>0
  <2>2. i % 8 # t.ptr
    BY <1>0, <1>1, <1>5, <2>1, EndMarkAt
  <2>3. i % 8 \in 0 .. 7
    OBVIOUS
  <2>4. QED
    BY <1>5, <1>7, <2>2, <2>3 DEF Cell
<1>11. BlockReady(c, u, s, n + 1)
  <2>1. u.ptr = Pointer(n + 1, t.length)
    BY <1>0, <1>1, <1>6, PointerMoves
  <2>2. \A i \in s .. t.length - 1 : u.mem[Cell(c, i)] = <<t.frame, i + 1>>
    <3>1. \A i \in s .. t.length - 1 : t.mem[Cell(c, i)] = <<t.frame, i + 1>>
      BY <1>1 DEF BlockReady
    <3>2. \A i \in s .. t.length - 1 : i \in Nat /\ i <= t.length /\ s <= i
      BY <1>0
    <3>3. QED
      BY <1>10, <3>1, <3>2
  <2>3. t.mem[Cell(c, t.length)] = <<>>
    BY <1>1 DEF BlockReady
  <2>4. u.mem[Cell(c, t.length)] = <<>>
    <3>1. Cell(c, t.length) \in Rmt!Memory
      BY <1>0, CellInMemory
    <3>2. QED
      BY <1>6, <1>7, <2>3, <3>1
  <2>5. QED
    BY <1>2, <1>6, <2>1, <2>2, <2>4 DEF BlockReady
<1>12. Untouched(c, t.mem, u.mem)
  <2>1. 8 * c + t.ptr \in 8 * c .. 8 * c + 7
    BY <1>5, <1>7
  <2>2. QED
    BY <1>9, <2>1 DEF Untouched
<1>13. QED
  BY <1>8, <1>11, <1>12 DEF u

LEMMA FillData ==
  ASSUME NEW c \in Strips, NEW t \in Fill, NEW s, NEW n,
         Due(s, n, t.length), BlockReady(c, t, s, n), 3 * n < t.length
  PROVE  /\ Rmt!FillNext(c, t) \in Fill /\ BlockReady(c, Rmt!FillNext(c, t), s, n + 1)
         /\ Untouched(c, t.mem, Rmt!FillNext(c, t).mem)
<1> DEFINE u == Rmt!FillNext(c, t)
           till == Reach(n + 1, t.length)
<1>0. s \in Nat /\ n \in Nat /\ t.length \in Nat \ {0} /\ 3 * n <= s + 3
  BY DEF Due
<1>1. t.position = 3 * n /\ t.ptr = t.position % 8
  <2>1. t.position = 3 * n
    BY <1>0 DEF BlockReady, Reach
  <2>2. t.ptr = (3 * n) % 8
    BY <1>0, PointerMoves DEF BlockReady
  <2>3. QED
    BY <2>1, <2>2
<1>2. /\ till \in Nat /\ till - t.position \in 1 .. 3 /\ till <= t.length
      /\ till = t.length <=> 3 * (n + 1) >= t.length
      /\ till # t.length => till = 3 * (n + 1)
  BY <1>0, <1>1 DEF Reach
<1>3. Rmt!FillTill(t) = till
  BY FillEnds
<1> HIDE DEF till
<1>4. EndAt(t) = till % 8
  <2>1. t.position \in Nat /\ till = t.position + (till - t.position)
    BY <1>0, <1>1, <1>2
  <2>2. PICK m \in 1 .. 3 : m = till - t.position
    BY <1>2
  <2>3. EndAt(t) = ((t.position % 8) + m) % 8
    BY <1>1, <1>3, <2>2 DEF EndAt
  <2>4. ((t.position % 8) + m) % 8 = (t.position + m) % 8
    BY <2>1
  <2>5. QED
    BY <2>1, <2>2, <2>3, <2>4
<1>5. /\ u.frame = t.frame /\ u.length = t.length /\ u.position = till
      /\ u.ptr = IF till = t.length THEN (till % 8) + 1 ELSE till % 8
      /\ u.mem = IF till = t.length THEN [WithData(c, t) EXCEPT ![8 * c + (till % 8)] = <<>>]
                 ELSE WithData(c, t)
      /\ u = [mem |-> u.mem, frame |-> t.frame, length |-> t.length,
              position |-> u.position, ptr |-> u.ptr]
  BY <1>3, <1>4, FillParts
<1> HIDE DEF u
<1>6. WithData(c, t) \in [Rmt!Memory -> Rmt!Bytes \cup {<<>>}] /\ c \in Nat
  BY <1>2, <1>3, DataTypes, StripIsNatural
<1>7. till % 8 \in 0 .. 7
  BY <1>2
<1>8. u \in Fill
  <2>1. u.mem \in [Rmt!Memory -> Rmt!Bytes \cup {<<>>}]
    BY <1>5, <1>6
  <2>2. t.frame \in {0, 1} /\ t.length \in Lengths
    BY DEF Fill
  <2>3. u.position \in Nat /\ u.ptr \in Nat
    BY <1>2, <1>5, <1>7
  <2>4. QED
    BY <1>5, <2>1, <2>2, <2>3 DEF Fill
<1>9. \A i \in s .. till - 1 : WithData(c, t)[Cell(c, i)] = <<t.frame, i + 1>>
  <2> SUFFICES ASSUME NEW i \in s .. till - 1
               PROVE  WithData(c, t)[Cell(c, i)] = <<t.frame, i + 1>>
    OBVIOUS
  <2>0. i \in Nat /\ s <= i /\ i < till /\ t.position \in Nat
    BY <1>0, <1>1, <1>2
  <2>1. Rmt!FillTill(t) - t.position \in 0 .. 3
    BY <1>2, <1>3
  <2>2. CASE i >= t.position
    BY <1>1, <1>3, <2>0, <2>1, <2>2, DataAt
  <2>3. CASE i < t.position
    <3>1. t.position <= i + 3
      BY <1>0, <1>1, <2>0
    <3>2. WithData(c, t)[Cell(c, i)] = t.mem[Cell(c, i)]
      BY <1>1, <2>0, <2>1, <2>3, <3>1, DataAt
    <3>3. i \in s .. t.position - 1
      BY <1>0, <2>0, <2>3
    <3>4. QED
      BY <3>2, <3>3 DEF BlockReady
  <2>4. QED
    BY <2>0, <2>2, <2>3
<1>10. \A i \in s .. till - 1 : u.mem[Cell(c, i)] = <<t.frame, i + 1>>
  <2> SUFFICES ASSUME NEW i \in s .. till - 1
               PROVE  Cell(c, i) # 8 * c + (till % 8) /\ Cell(c, i) \in Rmt!Memory
    BY <1>5, <1>6, <1>9
  <2>0. i \in Nat /\ i < till /\ till < i + 8
    BY <1>0, <1>1, <1>2
  <2>1. i % 8 # till % 8
    BY <1>2, <2>0, SameSlot
  <2>2. i % 8 \in 0 .. 7
    BY <2>0
  <2>3. Cell(c, i) # 8 * c + (till % 8)
    BY <1>6, <1>7, <2>1, <2>2 DEF Cell
  <2>4. QED
    BY <2>0, <2>3, CellInMemory
<1>11. BlockReady(c, u, s, n + 1)
  <2>1. u.ptr = Pointer(n + 1, t.length)
    <3>1. CASE till = t.length
      BY <1>0, <1>2, <1>5, <3>1, PointerMoves
    <3>2. CASE till # t.length
      <4>1. till = 3 * (n + 1) /\ 3 * (n + 1) < t.length
        BY <1>0, <1>2, <3>2
      <4>2. Pointer(n + 1, t.length) = (3 * (n + 1)) % 8
        BY <4>1 DEF Pointer
      <4>3. QED
        BY <1>5, <3>2, <4>1, <4>2
    <3>3. QED
      BY <3>1, <3>2
  <2>2. till = t.length => u.mem[Cell(c, t.length)] = <<>>
    <3>1. Cell(c, t.length) \in Rmt!Memory
      BY <1>0, CellInMemory
    <3>2. QED
      BY <1>5, <1>6, <3>1 DEF Cell
  <2>3. u.position = Reach(n + 1, t.length)
    BY <1>5 DEF till
  <2>4. QED
    BY <1>5, <1>10, <2>1, <2>2, <2>3 DEF BlockReady
<1>12. Untouched(c, t.mem, u.mem)
  <2> SUFFICES ASSUME NEW a \in Rmt!Memory, a \notin 8 * c .. 8 * c + 7
               PROVE  u.mem[a] = t.mem[a]
    BY DEF Untouched
  <2>1. a # 8 * c + (till % 8)
    BY <1>6, <1>7
  <2>2. WithData(c, t)[a] = t.mem[a]
    BY DataElsewhere
  <2>3. QED
    BY <1>5, <1>6, <2>1, <2>2
<1>13. QED
  BY <1>8, <1>11, <1>12 DEF u

(* A fill that is due goes as far as it should, and stays in its block.    *)
LEMMA FillOnce ==
  ASSUME NEW c \in Strips, NEW t \in Fill, NEW s, NEW n,
         Due(s, n, t.length), BlockReady(c, t, s, n)
  PROVE  /\ Rmt!FillNext(c, t) \in Fill /\ BlockReady(c, Rmt!FillNext(c, t), s, n + 1)
         /\ Rmt!FillNext(c, t).frame = t.frame /\ Rmt!FillNext(c, t).length = t.length
         /\ Untouched(c, t.mem, Rmt!FillNext(c, t).mem)
<1>1. 3 * n < t.length \/ 3 * n >= t.length
  BY DEF Due
<1>2. QED
  BY <1>1, FillOnlyEnds, FillData, FillParts

-----------------------------------------------------------------------------
(* The channels.                                                           *)

LEMMA RmtInit == Init => RmtSafe
<1> SUFFICES ASSUME Init PROVE RmtSafe
  OBVIOUS
<1> DEFINE N == [c \in Strips |-> FALSE]
           Z == [c \in Strips |-> 0]
<1>1. /\ mem = [a \in Rmt!Memory |-> <<>>]
      /\ frame = Z /\ length = Z /\ position = Z /\ ptr = Z
      /\ out = [c \in Strips |-> <<>>]
      /\ active = N /\ running = N /\ next = N /\ done = N
  BY DEF Init, Rmt!Init, Rmt!End
<1>2. /\ mem \in [Rmt!Memory -> Rmt!Bytes \cup {<<>>}]
      /\ N \in [Strips -> BOOLEAN]
      /\ Z \in [Strips -> {0, 1}] /\ Z \in [Strips -> Lengths \cup {0}]
      /\ Z \in [Strips -> Nat] /\ out \in [Strips -> Seq(Rmt!Bytes)]
  BY <1>1
<1>3. RmtTypes
  BY <1>1, <1>2 DEF RmtTypes
<1>4. \A c \in Strips : OutInOrder(c)
  BY <1>1 DEF OutInOrder
<1>5. \A c \in Strips : Within(c)
  BY <1>1 DEF Within
<1>6. QED
  BY <1>1, <1>3, <1>4, <1>5 DEF RmtSafe

(* A channel that is not touched stays as it was, whatever another channel *)
(* fills in.                                                               *)
LEMMA Neighbours ==
  ASSUME RmtTypes, NEW c \in Strips, NEW d \in Strips, c # d, Sending(d),
         Untouched(c, mem, mem'), mem' \in [Rmt!Memory -> Rmt!Bytes \cup {<<>>}],
         frame'[d] = frame[d], length'[d] = length[d], position'[d] = position[d],
         ptr'[d] = ptr[d], out'[d] = out[d], next'[d] = next[d], running'[d] = running[d]
  PROVE  Sending(d)'
<1>1. \A i \in Nat : mem'[Cell(d, i)] = mem[Cell(d, i)]
  BY CellsApart, CellInMemory DEF Untouched
<1>2. Rmt!Transmission(d) \in Fill /\ Len(out[d]) \in Nat /\ length[d] \in Nat /\ position[d] \in Nat
  BY FillTypes DEF Sending, Rmt!Transmission, RmtTypes
<1>3. Rmt!Transmission(d)' \in Fill
  BY <1>2 DEF Rmt!Transmission, Fill
<1>4. BlockReady(d, Rmt!Transmission(d), Len(out[d]), Fills(d))'
  <2>1. Fills(d)' = Fills(d)
    BY DEF Fills
  <2>2. QED
    BY <1>1, <1>2, <2>1 DEF Sending, BlockReady, Rmt!Transmission
<1>5. QED
  BY <1>3, <1>4 DEF Sending

LEMMA FillsFacts ==
  ASSUME NEW c \in Strips, Len(out[c]) \in Nat
  PROVE  Fills(c) \in Nat /\ 3 * Fills(c) > Len(out[c])
<1>1. \A s \in Nat : s \div 3 \in Nat /\ 3 * (1 + (s \div 3)) > s
  OBVIOUS
<1>2. PICK q \in Nat : q = Len(out[c]) \div 3
  BY <1>1
<1>3. 3 * (1 + q) > Len(out[c])
  BY <1>1, <1>2
<1>4. Fills(c) = 1 + q \/ Fills(c) = 2 + q
  BY <1>2 DEF Fills
<1>5. PICK n : n = Fills(c)
  OBVIOUS
<1>6. n \in Nat /\ 3 * n > Len(out[c])
  <2> HIDE <1>2
  <2>1. n = 1 + q \/ n = 2 + q
    BY <1>4, <1>5
  <2>2. QED
    BY <1>3, <2>1
<1>7. QED
  BY <1>5, <1>6

(* The hardware is never ahead: the slot it reads holds the next byte, or  *)
(* the end mark behind the last.                                           *)
LEMMA SlotIsNext ==
  ASSUME RmtTypes, NEW c \in Strips, Sending(c)
  PROVE  /\ Len(out[c]) \in Nat /\ length[c] \in Nat \ {0}
         /\ Len(out[c]) < length[c] => Rmt!Slot(c) = <<frame[c], Len(out[c]) + 1>>
         /\ Len(out[c]) = length[c] => Rmt!Slot(c) = <<>>
<1>1. out[c] \in Seq(Rmt!Bytes) /\ Len(out[c]) \in Nat
  BY DEF RmtTypes
<1>2. /\ Rmt!Transmission(c).length = length[c] /\ Rmt!Transmission(c).position = position[c]
      /\ Rmt!Transmission(c).mem = mem /\ Rmt!Transmission(c).frame = frame[c]
  BY DEF Rmt!Transmission
<1>3. length[c] \in Nat \ {0}
  BY <1>2, FillTypes DEF Sending
<1>4. Rmt!Slot(c) = mem[Cell(c, Len(out[c]))]
  BY DEF Rmt!Slot, Rmt!Block, Rmt!Slots, Cell
<1>5. /\ position[c] = Reach(Fills(c), length[c])
      /\ \A i \in Len(out[c]) .. position[c] - 1 : mem[Cell(c, i)] = <<frame[c], i + 1>>
      /\ position[c] = length[c] => mem[Cell(c, length[c])] = <<>>
  BY <1>2 DEF Sending, BlockReady
<1>6. Fills(c) \in Nat /\ 3 * Fills(c) > Len(out[c])
  BY <1>1, FillsFacts
<1>7. CASE Len(out[c]) < length[c]
  <2>1. position[c] > Len(out[c]) /\ position[c] \in Nat
    BY <1>1, <1>3, <1>5, <1>6, <1>7 DEF Reach
  <2>2. Len(out[c]) \in Len(out[c]) .. position[c] - 1
    BY <1>1, <2>1
  <2>3. QED
    BY <1>1, <1>3, <1>4, <1>5, <1>7, <2>2
<1>8. CASE Len(out[c]) = length[c]
  <2>1. position[c] = length[c]
    BY <1>1, <1>3, <1>5, <1>6, <1>8 DEF Reach
  <2>2. QED
    BY <1>1, <1>3, <1>4, <1>5, <1>8, <2>1
<1>9. QED
  BY <1>1, <1>3, <1>7, <1>8

LEMMA EndIsNoByte == \A f, i : <<f, i>> # <<>>
OBVIOUS

FitsBlock(l) == (l % 8) + (IF l % 3 = 0 THEN 3 ELSE 2) <= 8

LEMMA EndsHaveRoom == ASSUME Rmt!EndsFit, NEW l \in Lengths PROVE FitsBlock(l)
BY DEF Rmt!EndsFit, Rmt!Ends, Rmt!Slots, Rmt!PerFill, FitsBlock

LEMMA Bounds ==
  ASSUME NEW l \in Nat \ {0}, FitsBlock(l), NEW s \in Nat, s <= l, NEW n,
         n = 1 + (s \div 3) \/ n = 2 + (s \div 3)
  PROVE  Reach(n, l) <= l /\ Pointer(n, l) <= 8
<1>1. s \div 3 \in Nat /\ l \div 3 \in Nat /\ s \div 3 <= l \div 3 /\ 3 * (s \div 3) <= s
  OBVIOUS
<1>2. n \in Nat
  BY <1>1
<1>3. Reach(n, l) <= l
  BY <1>2 DEF Reach
<1>4. CASE 3 * n < l
  <2>1. (3 * n) % 8 <= 7
    BY <1>2
  <2>2. QED
    BY <1>2, <1>3, <1>4, <2>1, PointerMoves
<1>5. CASE 3 * n >= l
  <2>1. PICK m \in Nat : n = m + 1 /\ (m = s \div 3 \/ m = 1 + (s \div 3))
    BY <1>1
  <2>2. 3 * m <= s + 3 /\ m + 1 <= 2 + (l \div 3)
    BY <1>1, <2>1
  <2>3. Due(s, m, l)
    BY <2>1, <2>2 DEF Due, FitsBlock
  <2>4. Pointer(m + 1, l) \in 1 .. 8
    BY <1>5, <2>1, <2>3, EndStaysInBlock
  <2>5. QED
    BY <1>3, <2>1, <2>4
<1>6. QED
  BY <1>2, <1>4, <1>5

(* A step that fills in for one channel, and leaves the others alone.      *)
LEMMA Fitting ==
  ASSUME Rmt!EndsFit, RmtSafe, NEW c \in Strips, Sending(c)', active'[c],
         OutInOrder(c)', done'[c] => ~running'[c],
         RmtTypes', Untouched(c, mem, mem'),
         \A d \in Strips \ {c} :
           /\ active'[d] = active[d] /\ frame'[d] = frame[d] /\ length'[d] = length[d]
           /\ position'[d] = position[d] /\ ptr'[d] = ptr[d] /\ out'[d] = out[d]
           /\ next'[d] = next[d] /\ running'[d] = running[d] /\ done'[d] = done[d]
  PROVE  RmtSafe'
<1>1. mem' \in [Rmt!Memory -> Rmt!Bytes \cup {<<>>}]
  BY DEF RmtTypes
<1>2. ASSUME NEW d \in Strips, d # c, active[d] PROVE Sending(d)'
  BY <1>1, <1>2, Neighbours DEF RmtSafe
<1>3. \A d \in Strips : active'[d] => Sending(d)'
  BY <1>2
<1>4. \A d \in Strips : OutInOrder(d)'
  <2> SUFFICES ASSUME NEW d \in Strips, d # c PROVE OutInOrder(d)'
    OBVIOUS
  <2>1. QED
    BY DEF RmtSafe, OutInOrder
<1>5. \A d \in Strips : ~active'[d] => ~running'[d] /\ ~done'[d] /\ ~next'[d]
  BY DEF RmtSafe
<1>6. \A d \in Strips : done'[d] => ~running'[d]
  BY DEF RmtSafe
<1>7. Within(c)'
  <2>1. /\ Len(out'[c]) \in Nat /\ length'[c] \in Lengths /\ Len(out'[c]) <= length'[c]
        /\ position'[c] = Reach(Fills(c)', length'[c]) /\ ptr'[c] = Pointer(Fills(c)', length'[c])
    BY DEF RmtTypes, Sending, BlockReady, Rmt!Transmission, Fill
  <2>2. length'[c] \in Nat \ {0} /\ FitsBlock(length'[c])
    BY <2>1, EndsHaveRoom, LengthIsPositive
  <2>3. Fills(c)' = 1 + (Len(out'[c]) \div 3) \/ Fills(c)' = 2 + (Len(out'[c]) \div 3)
    BY DEF Fills
  <2>4. position'[c] <= length'[c] /\ ptr'[c] <= 8
    BY <2>1, <2>2, <2>3, Bounds
  <2>5. QED
    BY <2>1, <2>4 DEF Within
<1>8. \A d \in Strips : Within(d)'
  BY <1>7 DEF RmtSafe, Within
<1>9. QED
  BY <1>3, <1>4, <1>5, <1>6, <1>8 DEF RmtSafe

-----------------------------------------------------------------------------
(* The steps of a channel.                                                 *)

LEMMA ProcessStep ==
  ASSUME Rmt!EndsFit, RmtSafe, NEW c \in Strips, Rmt!Process(c)
  PROVE  RmtSafe'
<1>0. RmtTypes /\ c \in Nat
  BY StripIsNatural DEF RmtSafe
<1>1. ~active[c] /\ ~running[c] /\ ~done[c] /\ ~next[c]
  BY DEF Rmt!Process, RmtSafe
<1> DEFINE T(l) == [mem |-> mem, frame |-> 1 - frame[c], length |-> l, position |-> 0, ptr |-> 0]
<1>2. PICK l \in Lengths :
        /\ length' = [length EXCEPT ![c] = l]
        /\ Rmt!Filled(c, Rmt!FillNext(c, Rmt!FillNext(c, T(l))))
  BY DEF Rmt!Process, Rmt!StartAt
<1>3. /\ frame' = [frame EXCEPT ![c] = 1 - frame[c]]
      /\ active' = [active EXCEPT ![c] = TRUE] /\ running' = [running EXCEPT ![c] = TRUE]
      /\ out' = [out EXCEPT ![c] = <<>>] /\ next' = next /\ done' = done
  BY DEF Rmt!Process
<1> DEFINE t0 == T(l)
           t1 == Rmt!FillNext(c, t0)
           t2 == Rmt!FillNext(c, t1)
<1>4. l \in Nat \ {0} /\ FitsBlock(l)
  BY EndsHaveRoom, LengthIsPositive
<1>5. Due(0, 0, l) /\ Due(0, 1, l)
  <2>1. l \div 3 \in Nat
    BY <1>4
  <2>2. QED
    BY <1>4, <2>1 DEF Due, FitsBlock
<1>6. t0 \in Fill /\ BlockReady(c, t0, 0, 0)
  <2>1. frame[c] \in {0, 1} /\ 1 - frame[c] \in {0, 1}
    BY <1>0 DEF RmtTypes
  <2>2. t0 \in Fill
    BY <1>0, <2>1 DEF RmtTypes, Fill
  <2>3. Reach(0, l) = 0 /\ Pointer(0, l) = 0
    BY <1>4 DEF Reach, Pointer
  <2>4. QED
    BY <1>4, <2>2, <2>3 DEF BlockReady
<1>7. t0.mem = mem /\ t0.frame = 1 - frame[c] /\ t0.length = l
  OBVIOUS
<1> HIDE DEF t0
<1>8. /\ t1 \in Fill /\ BlockReady(c, t1, 0, 1) /\ t1.frame = 1 - frame[c] /\ t1.length = l
      /\ Untouched(c, mem, t1.mem)
  BY <1>5, <1>6, <1>7, FillOnce
<1> HIDE DEF t1
<1>9. /\ t2 \in Fill /\ BlockReady(c, t2, 0, 2) /\ t2.frame = 1 - frame[c] /\ t2.length = l
      /\ Untouched(c, t1.mem, t2.mem)
  <2>1. BlockReady(c, t2, 0, 1 + 1)
    BY <1>5, <1>8, FillOnce
  <2>2. QED
    BY <1>5, <1>8, <2>1, FillOnce
<1>10. /\ mem' = t2.mem /\ position' = [position EXCEPT ![c] = t2.position]
       /\ ptr' = [ptr EXCEPT ![c] = t2.ptr]
  BY <1>2 DEF Rmt!Filled, t0, t1, t2
<1>11. t2 = [mem |-> t2.mem, frame |-> t2.frame, length |-> t2.length,
             position |-> t2.position, ptr |-> t2.ptr]
  BY <1>8, <1>9, FillParts
<1> HIDE DEF t2
<1>12. RmtTypes'
  <2>1. t2.mem \in [Rmt!Memory -> Rmt!Bytes \cup {<<>>}] /\ t2.position \in Nat /\ t2.ptr \in Nat
    BY <1>9, FillTypes
  <2>2. 1 - frame[c] \in {0, 1}
    BY <1>0 DEF RmtTypes
  <2>3. out' \in [Strips -> Seq(Rmt!Bytes)]
    BY <1>0, <1>3 DEF RmtTypes
  <2>4. frame' \in [Strips -> {0, 1}] /\ length' \in [Strips -> Lengths \cup {0}]
    BY <1>0, <1>2, <1>3, <2>2 DEF RmtTypes
  <2>5. position' \in [Strips -> Nat] /\ ptr' \in [Strips -> Nat]
    BY <1>0, <1>10, <2>1 DEF RmtTypes
  <2>6. QED
    BY <1>0, <1>3, <1>10, <2>1, <2>3, <2>4, <2>5 DEF RmtTypes
<1>13. /\ Rmt!Transmission(c)' = t2 /\ out'[c] = <<>> /\ Fills(c)' = 2 /\ running'[c] /\ ~next'[c]
       /\ length'[c] = l
  <2>1. /\ frame'[c] = 1 - frame[c] /\ length'[c] = l /\ position'[c] = t2.position
        /\ ptr'[c] = t2.ptr /\ out'[c] = <<>> /\ running'[c]
    BY <1>0, <1>2, <1>3, <1>10 DEF RmtTypes
  <2>2. Rmt!Transmission(c)' = t2
    BY <1>9, <1>10, <1>11, <2>1 DEF Rmt!Transmission
  <2>3. Fills(c)' = 2
    <3>1. ~next'[c]
      BY <1>1, <1>3
    <3>2. Len(out'[c]) = 0
      BY <2>1
    <3>3. Fills(c)' = 2 + (0 \div 3)
      BY <3>1, <3>2 DEF Fills
    <3>4. QED
      BY <3>3
  <2>4. QED
    BY <1>1, <1>3, <2>1, <2>2, <2>3
<1>14. Sending(c)'
  BY <1>4, <1>9, <1>13 DEF Sending
<1>15. Untouched(c, mem, mem')
  BY <1>8, <1>9, <1>10 DEF Untouched
<1>16. OutInOrder(c)'
  BY <1>13 DEF OutInOrder
<1>17. active'[c] /\ (done'[c] => ~running'[c])
  BY <1>0, <1>1, <1>3 DEF RmtTypes
<1>18. QED
  BY <1>0, <1>2, <1>3, <1>10, <1>12, <1>14, <1>15, <1>16, <1>17, Fitting DEF RmtTypes

LEMMA InterruptStep ==
  ASSUME Rmt!EndsFit, RmtSafe, NEW c \in Strips, Rmt!Interrupt(c)
  PROVE  RmtSafe'
<1>0. RmtTypes /\ active[c] /\ next[c] /\ Sending(c)
  BY DEF RmtSafe, Rmt!Interrupt
<1> DEFINE t == Rmt!Transmission(c)
           u == Rmt!FillNext(c, t)
           S == Len(out[c])
<1>1. /\ next' = [next EXCEPT ![c] = FALSE]
      /\ mem' = u.mem /\ position' = [position EXCEPT ![c] = u.position]
      /\ ptr' = [ptr EXCEPT ![c] = u.ptr]
      /\ active' = active /\ frame' = frame /\ length' = length /\ running' = running
      /\ out' = out /\ done' = done
  BY DEF Rmt!Interrupt, Rmt!Filled
<1>2. t \in Fill /\ t.length = length[c] /\ t.frame = frame[c] /\ t.mem = mem
  BY <1>0 DEF Sending, Rmt!Transmission
<1>3. length[c] \in Lengths /\ length[c] \in Nat \ {0} /\ FitsBlock(length[c])
  BY <1>2, EndsHaveRoom, LengthIsPositive DEF Fill
<1>4. S \in Nat /\ S <= length[c] /\ BlockReady(c, t, S, Fills(c))
  BY <1>0 DEF Sending, RmtTypes
<1>5. Fills(c) = 1 + (S \div 3)
  BY <1>0 DEF Fills
<1> HIDE DEF t, S
<1>6. Due(S, Fills(c), length[c])
  <2>1. S \div 3 \in Nat /\ 3 * (1 + (S \div 3)) <= S + 3
    BY <1>4
  <2>2. S \div 3 <= length[c] \div 3
    BY <1>3, <1>4
  <2>3. length[c] \div 3 \in Nat
    BY <1>3
  <2>4. QED
    BY <1>3, <1>4, <1>5, <2>1, <2>2, <2>3 DEF Due, FitsBlock
<1>7. /\ u \in Fill /\ BlockReady(c, u, S, Fills(c) + 1) /\ u.frame = frame[c]
      /\ u.length = length[c] /\ Untouched(c, mem, u.mem)
  BY <1>2, <1>4, <1>6, FillOnce
<1>8. u = [mem |-> u.mem, frame |-> u.frame, length |-> u.length,
           position |-> u.position, ptr |-> u.ptr]
  BY <1>2, <1>7, FillParts
<1> HIDE DEF u
<1>9. RmtTypes'
  <2>1. u.mem \in [Rmt!Memory -> Rmt!Bytes \cup {<<>>}] /\ u.position \in Nat /\ u.ptr \in Nat
    BY <1>7, FillTypes
  <2>2. position' \in [Strips -> Nat] /\ ptr' \in [Strips -> Nat]
    BY <1>0, <1>1, <2>1 DEF RmtTypes
  <2>3. next' \in [Strips -> BOOLEAN]
    BY <1>0, <1>1 DEF RmtTypes
  <2>4. QED
    BY <1>0, <1>1, <2>1, <2>2, <2>3 DEF RmtTypes
<1>10. Rmt!Transmission(c)' = u /\ ~next'[c] /\ Fills(c)' = Fills(c) + 1
  <2>1. position'[c] = u.position /\ ptr'[c] = u.ptr /\ ~next'[c]
    BY <1>0, <1>1 DEF RmtTypes
  <2>2. Rmt!Transmission(c)' = u
    BY <1>1, <1>7, <1>8, <2>1 DEF Rmt!Transmission
  <2>3. Fills(c)' = 2 + (S \div 3)
    BY <1>1, <2>1 DEF Fills, S
  <2>4. S \div 3 \in Nat
    BY <1>4
  <2>5. QED
    BY <1>5, <2>1, <2>2, <2>3, <2>4
<1>11. Sending(c)'
  <2>1. BlockReady(c, Rmt!Transmission(c), Len(out[c]), Fills(c))'
    BY <1>1, <1>7, <1>10 DEF S
  <2>2. QED
    BY <1>0, <1>1, <1>7, <1>10, <2>1 DEF Sending
<1>12. Untouched(c, mem, mem')
  BY <1>1, <1>7
<1>13. OutInOrder(c)' /\ (done'[c] => ~running'[c]) /\ active'[c]
  BY <1>0, <1>1 DEF RmtSafe, OutInOrder
<1>14. QED
  BY <1>0, <1>1, <1>9, <1>11, <1>12, <1>13, Fitting DEF RmtTypes

LEMMA InterruptDoneStep ==
  ASSUME RmtSafe, NEW c \in Strips, Rmt!InterruptDone(c)
  PROVE  RmtSafe'
<1>1. /\ active[c] /\ ~next[c] /\ done[c]
      /\ done' = [done EXCEPT ![c] = FALSE] /\ active' = [active EXCEPT ![c] = FALSE]
      /\ UNCHANGED <<mem, frame, length, position, ptr, running, out, next>>
  BY DEF Rmt!InterruptDone
<1>2. RmtTypes /\ ~running[c]
  BY <1>1 DEF RmtSafe
<1>3. RmtTypes'
  BY <1>1, <1>2 DEF RmtTypes
<1>4. \A d \in Strips : active'[d] => Sending(d)'
  <2> SUFFICES ASSUME NEW d \in Strips, active'[d] PROVE Sending(d)'
    OBVIOUS
  <2>1. active[d]
    BY <1>1, <1>2 DEF RmtTypes
  <2>2. Sending(d)
    BY <2>1 DEF RmtSafe
  <2>3. Rmt!Transmission(d)' = Rmt!Transmission(d) /\ Fills(d)' = Fills(d)
    BY <1>1 DEF Rmt!Transmission, Fills
  <2>4. QED
    BY <1>1, <2>2, <2>3 DEF Sending, BlockReady
<1>5. \A d \in Strips : OutInOrder(d)'
  BY <1>1 DEF OutInOrder, RmtSafe
<1>6. \A d \in Strips : ~active'[d] => ~running'[d] /\ ~done'[d] /\ ~next'[d]
  BY <1>1, <1>2 DEF RmtSafe, RmtTypes
<1>7. \A d \in Strips : done'[d] => ~running'[d]
  BY <1>1, <1>2 DEF RmtSafe, RmtTypes
<1>8. \A d \in Strips : Within(d)'
  BY <1>1 DEF RmtSafe, Within
<1>9. QED
  BY <1>3, <1>4, <1>5, <1>6, <1>7, <1>8 DEF RmtSafe

(* A step that leaves the memory and the contexts alone.                   *)
LEMMA WireOnly ==
  ASSUME Rmt!EndsFit, RmtSafe, NEW c \in Strips, UNCHANGED <<mem, active, frame, length, position, ptr>>,
         active[c] => Sending(c)', OutInOrder(c)', RmtTypes', active[c],
         done'[c] => ~running'[c],
         \A d \in Strips \ {c} :
           out'[d] = out[d] /\ next'[d] = next[d] /\ running'[d] = running[d] /\ done'[d] = done[d]
  PROVE  RmtSafe'
<1>1. Sending(c)' /\ active'[c] /\ OutInOrder(c)' /\ RmtTypes' /\ (done'[c] => ~running'[c])
  OBVIOUS
<1>2. Untouched(c, mem, mem')
  BY DEF Untouched
<1>3. \A d \in Strips \ {c} :
        /\ active'[d] = active[d] /\ frame'[d] = frame[d] /\ length'[d] = length[d]
        /\ position'[d] = position[d] /\ ptr'[d] = ptr[d] /\ out'[d] = out[d]
        /\ next'[d] = next[d] /\ running'[d] = running[d] /\ done'[d] = done[d]
  OBVIOUS
<1>4. QED
  BY <1>1, <1>2, <1>3, Fitting

LEMMA SendByteStep ==
  ASSUME Rmt!EndsFit, RmtSafe, NEW c \in Strips, Rmt!SendByte(c)
  PROVE  RmtSafe'
<1>0. RmtTypes /\ running[c] /\ active[c] /\ Sending(c) /\ ~done[c]
  BY DEF RmtSafe, Rmt!SendByte
<1> DEFINE S == Len(out[c])
<1>1. /\ Rmt!Slot(c) # <<>> /\ (next[c] => S % 3 < MaxLate)
      /\ out' = [out EXCEPT ![c] = Append(out[c], Rmt!Slot(c))]
      /\ next' = [next EXCEPT ![c] = next[c] \/ (S + 1) % 3 = 0]
      /\ UNCHANGED <<mem, active, frame, length, position, ptr, running, done>>
  BY DEF Rmt!SendByte, Rmt!PerFill, Rmt!End, Rmt!context
<1>2. /\ S \in Nat /\ length[c] \in Nat \ {0} /\ S < length[c]
      /\ Rmt!Slot(c) = <<frame[c], S + 1>>
  <2>1. S \in Nat /\ length[c] \in Nat \ {0} /\ S <= length[c]
    BY <1>0, SlotIsNext DEF Sending
  <2>2. S < length[c]
    BY <1>0, <1>1, <2>1, SlotIsNext
  <2>3. QED
    BY <1>0, <2>1, <2>2, SlotIsNext
<1>3. Rmt!Slot(c) \in Rmt!Bytes
  <2>1. length[c] \in 1 .. Rmt!Max(Lengths) /\ Rmt!Max(Lengths) \in Nat
    BY <1>0, RmtNames DEF Sending, Rmt!Transmission, Fill
  <2>2. S + 1 \in 1 .. Rmt!Max(Lengths)
    BY <1>2, <2>1
  <2>3. frame[c] \in {0, 1}
    BY <1>0 DEF RmtTypes
  <2>4. QED
    BY <1>2, <2>2, <2>3 DEF Rmt!Bytes, Rmt!Frame
<1>4. /\ out[c] \in Seq(Rmt!Bytes) /\ out'[c] = Append(out[c], Rmt!Slot(c))
      /\ out' \in [Strips -> Seq(Rmt!Bytes)]
  <2>1. out \in [Strips -> Seq(Rmt!Bytes)]
    BY <1>0 DEF RmtTypes
  <2>2. Append(out[c], Rmt!Slot(c)) \in Seq(Rmt!Bytes)
    BY <1>3, <2>1
  <2>3. QED
    BY <1>1, <2>1, <2>2
<1>5. /\ Len(out'[c]) = S + 1
      /\ \A i \in 1 .. S : out'[c][i] = out[c][i]
      /\ out'[c][S + 1] = Rmt!Slot(c)
  BY <1>3, <1>4
<1>6. RmtTypes'
  <2>1. next' \in [Strips -> BOOLEAN]
    BY <1>0, <1>1 DEF RmtTypes
  <2>2. QED
    BY <1>0, <1>1, <1>4, <2>1 DEF RmtTypes
<1>7. next'[c] <=> next[c] \/ (S + 1) % 3 = 0
  BY <1>0, <1>1 DEF RmtTypes
<1> HIDE DEF S
<1>8. (next[c] => S >= 3) /\ (next'[c] => S + 1 >= 3)
  <2>1. next[c] => S >= 3
    BY <1>0 DEF Sending, S
  <2>2. (S + 1) % 3 = 0 => S + 1 >= 3
    BY <1>2
  <2>3. QED
    BY <1>2, <1>7, <2>1, <2>2
<1>9. Fills(c)' = Fills(c)
  <2>1. Fills(c)' = IF next'[c] THEN 1 + ((S + 1) \div 3) ELSE 2 + ((S + 1) \div 3)
    BY <1>5 DEF Fills
  <2>2. Fills(c) = IF next[c] THEN 1 + (S \div 3) ELSE 2 + (S \div 3)
    BY DEF Fills, S
  <2>3. CASE (S + 1) % 3 = 0
    <3>1. S % 3 = 2 /\ (S + 1) \div 3 = (S \div 3) + 1
      BY <1>2, <2>3
    <3>2. ~next[c]
      <4>1. MaxLate \in 0 .. 2
        BY RmtNames
      <4>2. ~(S % 3 < MaxLate)
        BY <3>1, <4>1
      <4>3. next[c] => S % 3 < MaxLate
        BY <1>1 DEF S
      <4>4. QED
        BY <4>2, <4>3
    <3>3. S \div 3 \in Nat
      BY <1>2
    <3>4. QED
      BY <1>7, <2>1, <2>2, <2>3, <3>1, <3>2, <3>3
  <2>4. CASE (S + 1) % 3 # 0
    <3>1. (S + 1) \div 3 = S \div 3
      BY <1>2, <2>4
    <3>2. next'[c] <=> next[c]
      BY <1>7, <2>4
    <3>3. QED
      BY <2>1, <2>2, <3>1, <3>2
  <2>5. QED
    BY <2>3, <2>4
<1>10. Sending(c)'
  <2>1. Rmt!Transmission(c)' = Rmt!Transmission(c)
    BY <1>1 DEF Rmt!Transmission
  <2>2. \A i \in S + 1 .. position[c] - 1 : i \in S .. position[c] - 1
    <3>1. position[c] \in Nat
      BY <1>0 DEF RmtTypes
    <3>2. QED
      BY <1>2, <3>1
  <2>3. BlockReady(c, Rmt!Transmission(c), S, Fills(c)) /\ Rmt!Transmission(c).position = position[c]
    BY <1>0 DEF Sending, S, Rmt!Transmission
  <2>4. BlockReady(c, Rmt!Transmission(c), S + 1, Fills(c))
    BY <2>2, <2>3 DEF BlockReady
  <2>5. BlockReady(c, Rmt!Transmission(c), Len(out[c]), Fills(c))'
    BY <1>5, <1>9, <2>1, <2>4
  <2>6. Len(out'[c]) <= length'[c] /\ (next'[c] => Len(out'[c]) >= 3)
    BY <1>1, <1>2, <1>5, <1>8
  <2>7. running'[c] /\ Rmt!Transmission(c)' \in Fill
    BY <1>0, <1>1, <2>1 DEF Sending
  <2>8. QED
    BY <2>5, <2>6, <2>7 DEF Sending
<1>11. OutInOrder(c)'
  <2> SUFFICES ASSUME NEW i \in 1 .. S + 1 PROVE out'[c][i] = <<frame[c], i>>
    BY <1>1, <1>5 DEF OutInOrder
  <2>1. CASE i = S + 1
    BY <1>2, <1>5, <2>1
  <2>2. CASE i \in 1 .. S
    <3>1. out[c][i] = <<frame[c], i>>
      BY <2>2 DEF RmtSafe, OutInOrder, S
    <3>2. QED
      BY <1>5, <2>2, <3>1
  <2>3. QED
    BY <1>2, <2>1, <2>2
<1>12. QED
  BY <1>0, <1>1, <1>6, <1>10, <1>11, WireOnly DEF RmtTypes

LEMMA MeetEndStep ==
  ASSUME Rmt!EndsFit, RmtSafe, NEW c \in Strips, Rmt!MeetEnd(c)
  PROVE  RmtSafe'
<1>0. RmtTypes /\ running[c] /\ active[c] /\ Sending(c)
  BY DEF RmtSafe, Rmt!MeetEnd
<1>1. /\ Rmt!Slot(c) = <<>>
      /\ running' = [running EXCEPT ![c] = FALSE] /\ done' = [done EXCEPT ![c] = TRUE]
      /\ UNCHANGED <<mem, active, frame, length, position, ptr, out, next>>
  BY DEF Rmt!MeetEnd, Rmt!End, Rmt!context
<1>2. Len(out[c]) = length[c]
  <2>1. Len(out[c]) \in Nat /\ length[c] \in Nat \ {0} /\ Len(out[c]) <= length[c]
    BY <1>0, SlotIsNext DEF Sending
  <2>2. ~(Len(out[c]) < length[c])
    BY <1>0, <1>1, SlotIsNext, EndIsNoByte
  <2>3. QED
    BY <2>1, <2>2
<1>3. RmtTypes'
  BY <1>0, <1>1 DEF RmtTypes
<1>4. Rmt!Transmission(c)' = Rmt!Transmission(c) /\ Fills(c)' = Fills(c)
  BY <1>1 DEF Rmt!Transmission, Fills
<1>5. Sending(c)'
  <2>1. BlockReady(c, Rmt!Transmission(c), Len(out[c]), Fills(c))'
    BY <1>0, <1>1, <1>4 DEF Sending
  <2>2. QED
    BY <1>0, <1>1, <1>2, <1>4, <2>1 DEF Sending
<1>6. OutInOrder(c)' /\ (done'[c] => ~running'[c])
  BY <1>0, <1>1 DEF OutInOrder, RmtSafe, RmtTypes
<1>7. QED
  BY <1>0, <1>1, <1>3, <1>5, <1>6, WireOnly DEF RmtTypes

LEMMA RmtStep ==
  ASSUME Rmt!EndsFit, RmtSafe, [Rmt!Next]_(Rmt!vars)
  PROVE  RmtSafe'
<1>1. CASE UNCHANGED Rmt!vars
  <2>1. UNCHANGED <<mem, active, frame, length, position, ptr, running, out, next, done>>
    BY <1>1 DEF Rmt!vars, Rmt!context, Rmt!hardware
  <2>2. RmtTypes'
    BY <2>1 DEF RmtSafe, RmtTypes
  <2>3. \A c \in Strips : Rmt!Transmission(c)' = Rmt!Transmission(c) /\ Fills(c)' = Fills(c)
    BY <2>1 DEF Rmt!Transmission, Fills
  <2>4. \A c \in Strips : active'[c] => Sending(c)'
    BY <2>1, <2>3 DEF RmtSafe, Sending, BlockReady
  <2>5. \A c \in Strips : OutInOrder(c)'
    BY <2>1 DEF RmtSafe, OutInOrder
  <2>6. \A c \in Strips : Within(c)'
    BY <2>1 DEF RmtSafe, Within
  <2>7. QED
    BY <2>1, <2>2, <2>4, <2>5, <2>6 DEF RmtSafe
<1>2. QED
  BY <1>1, ProcessStep, InterruptStep, InterruptDoneStep, SendByteStep, MeetEndStep
     DEF Rmt!Next, Rmt!Work

LEMMA RmtIsEnough ==
  ASSUME RmtSafe
  PROVE  Rmt!TypeOK /\ SendsItsFrame
<1>1. RmtTypes
  BY DEF RmtSafe
<1>2. \A c \in Strips : /\ out[c] \in Seq(Rmt!Bytes) /\ DOMAIN out[c] = 1 .. Len(out[c])
                        /\ Len(out[c]) \in Nat
  BY <1>1 DEF RmtTypes
<1>3. SendsItsFrame
  <2> SUFFICES ASSUME NEW c \in Strips
               PROVE  /\ \A i \in DOMAIN out[c] : out[c][i] = <<frame[c], i>>
                      /\ active[c] /\ ~running[c] => Len(out[c]) = length[c]
    BY DEF SendsItsFrame, Rmt!SendsItsFrame
  <2>1. \A i \in DOMAIN out[c] : out[c][i] = <<frame[c], i>>
    BY <1>2 DEF RmtSafe, OutInOrder
  <2>2. active[c] /\ ~running[c] => Len(out[c]) = length[c]
    BY DEF RmtSafe, Sending
  <2>3. QED
    BY <2>1, <2>2
<1>4. \A c \in Strips : length[c] \in Nat
  BY <1>1, LengthIsPositive DEF RmtTypes
<1>5. \A c \in Strips : position[c] \in 0 .. length[c]
  BY <1>1, <1>4 DEF RmtSafe, Within, RmtTypes
<1>6. ptr \in [Strips -> 0 .. Rmt!Slots + Rmt!PerFill]
  BY <1>1 DEF RmtSafe, Within, RmtTypes, Rmt!Slots, Rmt!PerFill
<1>7. \A c \in Strips : Len(out[c]) <= length[c]
  BY DEF RmtSafe, Within
<1>8. mem \in [Rmt!Memory -> Rmt!Bytes \cup {Rmt!End}]
  BY <1>1 DEF RmtTypes, Rmt!End
<1>9. QED
  BY <1>1, <1>3, <1>5, <1>6, <1>7, <1>8 DEF RmtTypes, Rmt!TypeOK, Rmt!Frame

-----------------------------------------------------------------------------
(* The links side by side: a step of the program is a step of the link     *)
(* that is used, and all the others stand still.                           *)

LinksSafe ==
  /\ LineFollows /\ EspFollows /\ DinSafe /\ DmxInSafe
  /\ Udp!Steady => UdpSafe
  /\ Rmt!EndsFit => RmtSafe

(* DMX, the outputs of the ESP32 and serial MIDI always, LEDs over the     *)
(* network when all packets take the same time, LED strips when the end    *)
(* marks fit.                                                              *)
IsProved ==
  \/ link \in {"dmxIn", "dmxOut", "esp", "din"}
  \/ link = "udp" /\ Udp!Steady
  \/ link = "rmt" /\ Rmt!EndsFit

LEMMA LinksSafeInit == Init => LinksSafe
<1> SUFFICES ASSUME Init PROVE LinksSafe
  OBVIOUS
<1>1. LineFollows
  BY LineInit
<1>2. EspFollows
  BY EspInit
<1>3. DinSafe
  BY DinSafeInit
<1>4. DmxInSafe
  BY DmxInInit
<1>5. UdpSafe
  BY UdpInit
<1>6. RmtSafe
  BY RmtInit
<1>7. QED
  BY <1>1, <1>2, <1>3, <1>4, <1>5, <1>6 DEF LinksSafe

LEMMA LinksSafeStep ==
  ASSUME LinksSafe, [Next]_vars
  PROVE  LinksSafe'
<1> USE DEF Next, vars, InUdp, InRmt, InDmxIn, InDmxOut, InEsp, InDin
<1>1. [DmxOut!Next]_(DmxOut!vars)
  BY DEF DmxOut!vars, DmxOut!threadVars, dmxOutVars
<1>2. [Esp!Next]_(Esp!vars)
  BY DEF Esp!vars, Esp!taskVars, espVars
<1>3. [Din!Next]_(Din!vars)
  BY DEF Din!vars, Din!port, dinVars
<1>4. [DmxIn!Next]_(DmxIn!vars)
  BY DEF DmxIn!vars, DmxIn!wireVars, DmxIn!taskVars, DmxIn!inputVars, DmxIn!lossVars, dmxInVars
<1>5. LineFollows'
  BY <1>1, LineStep DEF LinksSafe
<1>6. EspFollows'
  BY <1>2, EspStep DEF LinksSafe
<1>7. DinSafe'
  BY <1>3, DinSafeStep DEF LinksSafe
<1>8. DmxInSafe'
  BY <1>4, DmxInStep DEF LinksSafe
<1>9. [Udp!Next]_(Udp!vars)
  BY DEF Udp!vars, Udp!host, Udp!node, udpVars
<1>10. Udp!Steady => UdpSafe'
  BY <1>9, UdpStep DEF LinksSafe
<1>11. [Rmt!Next]_(Rmt!vars)
  BY DEF Rmt!vars, Rmt!context, Rmt!hardware, rmtVars
<1>12. Rmt!EndsFit => RmtSafe'
  BY <1>11, RmtStep DEF LinksSafe
<1>13. QED
  BY <1>5, <1>6, <1>7, <1>8, <1>10, <1>12 DEF LinksSafe

(* A line or a chip that has ended without an error holds what was written *)
(* last and no frame of the chip is made of two (DMXOutput, the outputs of *)
(* the ESP32, refused transactions included); a frame that is received     *)
(* over DMX is shifted only if a break threw some of it away and mixed     *)
(* with an older one only if the task missed some of it, with any number   *)
(* of events in the queue of the driver (uart_event_task); a serial port   *)
(* keeps one clock for its sender, two if the callbacks came before the    *)
(* sender, and serves who registered while it is heard (MidiDevice and     *)
(* TempoMidi of the ESP32); a frame that came over the network waits for a *)
(* tick at most (UDPInput, NeopixelOutput).                                *)
THEOREM LinksAreSafe == Spec => [](IsProved => LinksInv)
<1>1. LinksSafe => (IsProved => LinksInv)
  <2> SUFFICES ASSUME LinksSafe, IsProved PROVE LinksInv
    OBVIOUS
  <2>1. CASE link = "dmxOut"
    BY <2>1 DEF LinksSafe, LineFollows, LinksInv
  <2>2. CASE link = "esp"
    BY <2>2, EspIsEnough DEF LinksSafe, LinksInv
  <2>3. CASE link = "din"
    BY <2>3, DinSafeIsEnough DEF LinksSafe, LinksInv
  <2>4. CASE link = "dmxIn"
    BY <2>4, DmxInIsEnough DEF LinksSafe, LinksInv
  <2>5. CASE link = "udp" /\ Udp!Steady
    BY <2>5, UdpIsEnough DEF LinksSafe, LinksInv
  <2>6. CASE link = "rmt" /\ Rmt!EndsFit
    BY <2>6, RmtIsEnough DEF LinksSafe, LinksInv
  <2>7. QED
    BY <2>1, <2>2, <2>3, <2>4, <2>5, <2>6 DEF IsProved
<1>2. LinksSafe /\ [Next]_vars => LinksSafe'
  BY LinksSafeStep
<1>3. QED
  BY <1>1, <1>2, LinksSafeInit, PTL DEF Spec

(* Throttle lets no frame go before the LEDs of the hypernode are free for *)
(* it, so UDPInput never drops one for the next: for all durations and     *)
(* frame rates, with packets that get lost, when every packet takes the    *)
(* same time.                                                              *)
THEOREM NoFrameIsThrownAway ==
  ASSUME Udp!Steady
  PROVE  Spec => []NoneThrownAway
<1>1. LinksSafe => NoneThrownAway
  BY UdpIsEnough DEF LinksSafe
<1>2. LinksSafe /\ [Next]_vars => LinksSafe'
  BY LinksSafeStep
<1>3. QED
  BY <1>1, <1>2, LinksSafeInit, PTL DEF Spec

(* A strip gets exactly the bytes of its frame, in order, though its       *)
(* memory holds eight of them and is filled while it is sent: for any      *)
(* number of channels side by side and all lengths whose end marks fit in  *)
(* the block, when an interrupt is handled before three more bytes went    *)
(* out (NeoPixelsEspLegacyRMT::fillNext, interruptHandler).                *)
THEOREM StripsGetTheirFrames ==
  ASSUME Rmt!EndsFit
  PROVE  Spec => []SendsItsFrame
<1>1. LinksSafe => SendsItsFrame
  BY RmtIsEnough DEF LinksSafe
<1>2. LinksSafe /\ [Next]_vars => LinksSafe'
  BY LinksSafeStep
<1>3. QED
  BY <1>1, <1>2, LinksSafeInit, PTL DEF Spec

=============================================================================
