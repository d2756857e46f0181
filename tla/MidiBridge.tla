----------------------------- MODULE MidiBridge -----------------------------
(***************************************************************************)
(* MIDI devices of a browser, bridged over a websocket: the toolbar button *)
(* and the bridge objects of the page (midiBridge.js), the connection of   *)
(* each of them, and the devices and controllers of the server.            *)
(***************************************************************************)
EXTENDS DeviceOwners, FiniteSetsExt, SequencesExt

CONSTANTS
  Bridge,       (* bridge objects a page makes in its life (bound)         *)
  Plug,         (* devices plugged into the browser's host                 *)
  Known,        (* those with a name the controller factory knows          *)
  MaxId         (* bound on the ids of all bridges together                *)

BridgeAssumption ==
  /\ Known \subseteq Plug /\ MaxId \in Nat
  /\ Bridge \subseteq Nat \ {0} /\ IsFiniteSet(Bridge) /\ IsFiniteSet(Plug)

None == 0
Registered == {"controllers"}

VARIABLES
  ports,        (* per device: which ports the browser has seen so far     *)
  pending,      (* requestMIDIAccess promises of the button                *)
  current,      (* the bridge the button knows                             *)
  stage,        (* per bridge: unborn, asking, connecting, opened, ready   *)
  entries,      (* per bridge: its devices, deviceId |-> <<device, ports>> *)
  enumerator,   (* per bridge: deviceEnumerator                            *)
  link,         (* per bridge: none, up, closed by the page, or lost       *)
  wire,         (* per bridge: messages under way to the server            *)
  devices,      (* the server's: client |-> (deviceId |-> address)         *)
  own

page == <<ports, pending, current, stage, entries, enumerator>>
vars == <<page, link, wire, devices, own>>

Stages == {"unborn", "asking", "connecting", "opened", "ready", "over"}

TypeOK ==
  /\ ports \in [Plug -> {"none", "in", "both"}]
  /\ pending \in 0 .. Cardinality(Bridge) /\ current \in Bridge \cup {None}
  /\ stage \in [Bridge -> Stages] /\ link \in [Bridge -> {"none", "up", "closed", "lost"}]
  /\ \A b \in Bridge : DOMAIN entries[b] \subseteq 1 .. enumerator[b]
  /\ DOMAIN devices \subseteq Bridge /\ own \in Owners

Init ==
  /\ ports \in [Plug -> {"none", "both"}]
  /\ pending = 0 /\ current = None
  /\ stage = [b \in Bridge |-> "unborn"]
  /\ entries = [b \in Bridge |-> <<>>] /\ enumerator = [b \in Bridge |-> 0]
  /\ link = [b \in Bridge |-> "none"] /\ wire = [b \in Bridge |-> <<>>]
  /\ devices = <<>> /\ own = NoOwners

Unborn == {b \in Bridge : stage[b] = "unborn"}

-----------------------------------------------------------------------------
(* The page.                                                               *)

ButtonOn ==
  /\ pending < Cardinality(Unborn)
  /\ pending' = pending + 1
  /\ UNCHANGED <<ports, current, stage, entries, enumerator, link, wire, devices, own>>

(* The promise makes the bridge, whatever the button says by now.          *)
AccessGranted ==
  /\ pending > 0
  /\ \E b \in Unborn : current' = b /\ stage' = [stage EXCEPT ![b] = "asking"]
  /\ pending' = pending - 1
  /\ UNCHANGED <<ports, entries, enumerator, link, wire, devices, own>>

(* initialize, when the permission is there.                               *)
Initialize(b) ==
  /\ stage[b] = "asking"
  /\ stage' = [stage EXCEPT ![b] = "connecting"]
  /\ UNCHANGED <<ports, pending, current, entries, enumerator, link, wire, devices, own>>

(* The server's connectionHandler, then onopen of the page.                *)
Open(b) ==
  /\ stage[b] = "connecting"
  /\ stage' = [stage EXCEPT ![b] = "opened"]
  /\ link' = [link EXCEPT ![b] = "up"]
  /\ devices' = [c \in DOMAIN devices \cup {b} |-> IF c = b THEN <<>> ELSE devices[c]]
  /\ UNCHANGED <<ports, pending, current, entries, enumerator, wire, own>>

Send(b, msgs) == IF link[b] = "up" THEN wire[b] \o msgs ELSE wire[b]
Msg(type, id, p) == [type |-> type, id |-> id, device |-> p]

(* Wrong on purpose: an entry whose ports changed is told as new only.     *)
NoGoodbye(b, gone) == <<>>

LastId(b) == enumerator[b]

Goodbyes(b, gone) ==
  LET ids == SetToSeq(gone)
  IN  [i \in DOMAIN ids |-> Msg("disconnected", ids[i], entries[b][ids[i]][1])]

(* createPairs of the bridges L: entries that are still right stay, new    *)
(* ones are announced, then the marked ones are deleted.                   *)
CreatePairs(L, seen) ==
  LET wanted  == {<<p, seen[p]>> : p \in {q \in Plug : seen[q] # "none"}}
      new(b)  == SetToSeq(wanted \ {entries[b][id] : id \in DOMAIN entries[b]})
      gone(b) == {id \in DOMAIN entries[b] : entries[b][id] \notin wanted}
      last(b) == LastId(b) + Len(new(b))
      hellos(b) == [i \in DOMAIN new(b) |-> Msg("connected", LastId(b) + i, new(b)[i][1])]
  IN  /\ MapThenSumSet(LAMBDA b : IF b \in L THEN last(b) ELSE enumerator[b], Bridge) <= MaxId
      /\ enumerator' = [b \in Bridge |-> IF b \in L THEN last(b) ELSE enumerator[b]]
      /\ entries' = [b \in Bridge |-> IF b \notin L THEN entries[b] ELSE
           [id \in (DOMAIN entries[b] \ gone(b)) \cup (LastId(b) + 1 .. last(b)) |->
              IF id \in LastId(b) + 1 .. last(b) THEN new(b)[id - LastId(b)]
                                             ELSE entries[b][id]]]
      /\ wire' = [b \in Bridge |-> IF b \notin L THEN wire[b]
                                   ELSE Send(b, hellos(b) \o Goodbyes(b, gone(b)))]

OnMIDISuccess(b) ==
  /\ stage[b] = "opened"
  /\ stage' = [stage EXCEPT ![b] = "ready"]
  /\ CreatePairs({b}, ports)
  /\ UNCHANGED <<ports, pending, current, link, devices, own>>

(* The browser reports one port at a time, the input first, and all the    *)
(* bridges that listen pair all over again.                                *)
PortEvent ==
  /\ \E p \in Plug, s \in {"none", "in", "both"} :
       /\ s # ports[p] /\ (s = "both" => ports[p] = "in")
       /\ ports' = [ports EXCEPT ![p] = s]
  /\ CreatePairs({b \in Bridge : stage[b] = "ready"}, ports')
  /\ UNCHANGED <<pending, current, stage, link, devices, own>>

(* destroy: before the socket exists nothing is closed, and initialize     *)
(* goes on later; before the access is there the promise finds no socket.  *)
ButtonOff ==
  /\ current # None
  /\ current' = None
  /\ LET b == current IN
       IF stage[b] = "asking"
       THEN UNCHANGED <<stage, entries, link, wire>>
       ELSE /\ stage' = [stage EXCEPT ![b] = "over"]
            /\ wire' = [wire EXCEPT ![b] = Send(b, Goodbyes(b, DOMAIN entries[b]))]
            /\ entries' = [entries EXCEPT ![b] = <<>>]
            /\ link' = [link EXCEPT ![b] = IF @ = "up" THEN "closed" ELSE @]
  /\ UNCHANGED <<ports, pending, enumerator, devices, own>>

(* The connection breaks and takes what is under way with it.              *)
Break(b) ==
  /\ link[b] = "up"
  /\ link' = [link EXCEPT ![b] = "lost"]
  /\ \E n \in 0 .. Len(wire[b]) : wire' = [wire EXCEPT ![b] = SubSeq(@, 1, n)]
  /\ UNCHANGED <<page, devices, own>>

-----------------------------------------------------------------------------
(* The server.                                                             *)

(* createDevice, at any free address: addresses are used again.  insert    *)
(* keeps what the map has for this id.                                     *)
CreateDevice(b, m) ==
  \E d \in Address \ own.alive :
    /\ devices' = [devices EXCEPT ![b] =
         [id \in DOMAIN @ \cup {m.id} |-> IF id \in DOMAIN @ THEN @[id] ELSE d]]
    /\ own' = Created(Allocate(own, {d}), {d}, IF m.device \in Known THEN {d} ELSE {},
                      Registered)

Release(o, D) == Delete(Destroyed(o, D, Registered), D)

DeleteDevice(b, m) ==
  IF m.id \in DOMAIN devices[b]
  THEN /\ own' = Release(own, {devices[b][m.id]})
       /\ devices' = [devices EXCEPT ![b] = [id \in DOMAIN @ \ {m.id} |-> @[id]]]
  ELSE UNCHANGED <<own, devices>>

Handler(b) ==
  /\ b \in DOMAIN devices /\ wire[b] # <<>>
  /\ LET m == Head(wire[b]) IN
       IF m.type = "connected" THEN CreateDevice(b, m) ELSE DeleteDevice(b, m)
  /\ wire' = [wire EXCEPT ![b] = Tail(@)]
  /\ UNCHANGED <<page, link>>

DeleteClient(b) ==
  /\ own' = Release(own, {devices[b][id] : id \in DOMAIN devices[b]})
  /\ devices' = [c \in DOMAIN devices \ {b} |-> devices[c]]

(* Wrong on purpose: only a page that says goodbye is noticed.             *)
NoticesClose(b) ==
  /\ b \in DOMAIN devices /\ wire[b] = <<>> /\ link[b] = "closed"
  /\ DeleteClient(b)
  /\ UNCHANGED <<page, link, wire>>

DisconnectionHandler(b) ==
  /\ b \in DOMAIN devices /\ wire[b] = <<>> /\ link[b] \in {"closed", "lost"}
  /\ DeleteClient(b)
  /\ UNCHANGED <<page, link, wire>>

Server(b) == Handler(b) \/ DisconnectionHandler(b)

Next ==
  \/ ButtonOn \/ AccessGranted \/ ButtonOff \/ PortEvent
  \/ \E b \in Bridge :
       Initialize(b) \/ Open(b) \/ OnMIDISuccess(b) \/ Break(b) \/ Server(b)

Spec == Init /\ [][Next]_vars

(* The server handles what arrives.                                        *)
FairSpec == Spec /\ \A b \in Bridge : WF_vars(Server(b))

-----------------------------------------------------------------------------
(* Properties.                                                             *)

OpenDevices == UNION {{devices[b][id] : id \in DOMAIN devices[b]} : b \in DOMAIN devices}

(* However buttons, ports and connections come and go, the hub holds no    *)
(* pointer to a device that is gone.                                       *)
NoDangling == NoneDangling(own)

(* Every device that was allocated belongs to a connected page and to one  *)
(* id of it: nothing leaks and no id is taken twice.                       *)
NoneLeaks ==
  /\ own.alive = OpenDevices
  /\ \A b, c \in DOMAIN devices : \A id \in DOMAIN devices[b], jd \in DOMAIN devices[c] :
       devices[b][id] = devices[c][jd] => b = c /\ id = jd

(* Once a connection has delivered what was sent, the server has the       *)
(* devices the page has, with a controller for each known one.             *)
ServerMirrorsPage ==
  \A b \in DOMAIN devices :
    link[b] = "up" /\ wire[b] = <<>> =>
      /\ DOMAIN devices[b] = DOMAIN entries[b]
      /\ \A id \in DOMAIN devices[b] :
           devices[b][id] \in own.hub <=> entries[b][id][1] \in Known

(* A page that is gone, properly or not, is forgotten with all its devices.*)
GoneIsForgotten ==
  \A b \in Bridge : link[b] \in {"closed", "lost"} ~> b \notin DOMAIN devices

=============================================================================
