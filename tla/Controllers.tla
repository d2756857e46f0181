----------------------------- MODULE Controllers ----------------------------
(***************************************************************************)
(* What the hub meets at its edges: operations that come from threads of   *)
(* their own (hub), MIDI devices of the host (native) and the way their    *)
(* ports are paired (ports), MIDI devices of a browser (bridge), and the   *)
(* controller pages (page).  One of them is looked at, the others stay as  *)
(* they were created.                                                      *)
(***************************************************************************)
EXTENDS Integers, Sequences

CONSTANTS
  Threads, Buttons, SetSlots, Dimmers, NSlots, FlashSlots, Releasing, Forced, Levels,
  Plug, Known, NativeAddress, OneAtATime,
  Names, NamePairs, MaxPorts,
  Bridge, BridgePlug, BridgeKnown, BridgeAddress, MaxId,
  Pages, MaxColumns, PageSlots, OtherThread, MaxSessions, MaxInbox

VARIABLES
  edge,         (* the one that is looked at                               *)
  activated, dim, lamp, fader, held, op,
  plugged, changed, count, rebuilding, opened, registered, own, greeted,
  ins, outs, inList, outList, paired,
  ports, pending, current, stage, entries, enumerator, link, wire, devices, bridged,
  session, slots, status, column, visible, open, inbox, known, shown, broken

threadVars == <<activated, dim, lamp, fader, held, op>>
nativeVars == <<plugged, changed, count, rebuilding, opened, registered, own, greeted>>
portVars == <<ins, outs, inList, outList, paired>>
bridgeVars == <<ports, pending, current, stage, entries, enumerator, link, wire,
                devices, bridged>>
pageVars == <<session, slots, status, column, visible, open, inbox, known, shown, broken>>
vars == <<edge, threadVars, nativeVars, portVars, bridgeVars, pageVars>>

Hub == INSTANCE HubThreads
Native == INSTANCE NativeMidi WITH Address <- NativeAddress, devices <- opened
Ports == INSTANCE MidiPorts WITH devices <- paired
Bridges == INSTANCE MidiBridge
             WITH Plug <- BridgePlug, Known <- BridgeKnown, Address <- BridgeAddress,
                  own <- bridged
Page == INSTANCE ControllerPage WITH Slots <- PageSlots, hub <- slots

ASSUME ControllersAssumption ==
  /\ Hub!ThreadsAssumption /\ Native!NativeAssumption /\ Ports!PortsAssumption
  /\ Bridges!BridgeAssumption /\ Page!PageAssumption

Init ==
  /\ edge \in {"hub", "native", "ports", "bridge", "page"}
  /\ Hub!Init /\ Native!Init /\ Ports!Init /\ Bridges!Init /\ Page!Init
  /\ edge # "native" => plugged = {}
  /\ edge # "ports" => ins = <<>> /\ outs = <<>>
  /\ edge # "bridge" => \A p \in BridgePlug : ports[p] = "none"
  /\ edge # "page" => slots = CHOOSE h \in Page!Hubs : TRUE

InHub ==
  edge = "hub" /\ UNCHANGED <<edge, nativeVars, portVars, bridgeVars, pageVars>>
InNative ==
  edge = "native" /\ UNCHANGED <<edge, threadVars, portVars, bridgeVars, pageVars>>
InPorts ==
  edge = "ports" /\ UNCHANGED <<edge, threadVars, nativeVars, bridgeVars, pageVars>>
InBridge ==
  edge = "bridge" /\ UNCHANGED <<edge, threadVars, nativeVars, portVars, pageVars>>
InPage ==
  edge = "page" /\ UNCHANGED <<edge, threadVars, nativeVars, portVars, bridgeVars>>

Next ==
  \/ InHub /\ Hub!Next
  \/ InNative /\ Native!Next
  \/ InPorts /\ Ports!Next
  \/ InBridge /\ Bridges!Next
  \/ InPage /\ Page!Next

(* The midi thread polls for ever, start() finishes, and the server        *)
(* handles what arrives.                                                   *)
Handles ==
  \/ InNative /\ Native!Poll
  \/ InBridge /\ \E b \in Bridge : Bridges!Server(b)

Setup == InNative /\ (Native!SetupMidi \/ Native!SetupTempo)

Spec == Init /\ [][Next]_vars /\ WF_vars(Handles) /\ WF_vars(Setup)

-----------------------------------------------------------------------------
(* Properties.                                                             *)

(* A hub without a lock: a slot that only one thread writes flashes as     *)
(* long as one of its buttons is held and no longer (FLASH does not come   *)
(* back by a late store), and a fader that only one thread moves shows     *)
(* what the hub has, whatever the other threads do in between.             *)
NoStuckFlash ==
  edge = "hub" =>
    Hub!TypeOK /\ Hub!NoStuckFlash /\ Hub!HeldIsOn /\ Hub!FaderSettles

(* However devices, buttons of the page and connections come and go, and   *)
(* though new devices get the addresses of old ones, nobody is left with a *)
(* pointer to a device or a clock that is gone.                            *)
NoDangling ==
  /\ edge = "native" => Native!NoDangling
  /\ edge = "bridge" => Bridges!NoDangling

(* Every device of the host is opened once and has what it is opened for:  *)
(* no port is opened twice, none is forgotten, no device gets the output   *)
(* of another name while both lists have the same order; it has one        *)
(* controller if its name is known, and one clock, and both listen.        *)
OpenIsServed ==
  /\ edge = "native" => Native!TypeOK /\ Native!OpenIsServed
  /\ edge = "ports" =>
       Ports!NoPortTwice /\ Ports!EveryPortOpened /\ Ports!PairsOfEqualLists

(* Every bridged device belongs to a connected page and to one id of it,   *)
(* and once a connection has delivered what was sent the server has the    *)
(* devices the page has, with a controller for each known one.             *)
ServerMirrorsPage ==
  edge = "bridge" => Bridges!TypeOK /\ Bridges!NoneLeaks /\ Bridges!ServerMirrorsPage

(* "This resets and rebuilds the internal state of the client so           *)
(* everything is guaranteed to be in sync with the new version"            *)
(* (controller.js): an open page that heard everything shows the slots     *)
(* there are, as they are, and never met a slot that its arrays skip.      *)
InSync ==
  edge = "page" => Page!TypeOK /\ Page!InSync /\ Page!NoHole

(* When nobody plugs any more, the open devices are the plugged ones; a    *)
(* page that is gone, with a goodbye or without, is forgotten with all its *)
(* devices.                                                                *)
DevicesSettle == Native!PluggedGetsOpened /\ Bridges!GoneIsForgotten

=============================================================================
