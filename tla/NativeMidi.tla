----------------------------- MODULE NativeMidi -----------------------------
(***************************************************************************)
(* MIDI devices plugged into the host: the thread that polls the number of *)
(* ports and rebuilds all devices when it changes, the main thread that    *)
(* registers its callbacks meanwhile, and what the callbacks build.        *)
(***************************************************************************)
EXTENDS DeviceOwners, FiniteSets, Functions

CONSTANTS
  Plug,         (* physical devices                                        *)
  Known,        (* those with a name the controller factory knows          *)
  OneAtATime    (* at most one is (un)plugged between two polls            *)

NativeAssumption ==
  Known \subseteq Plug /\ OneAtATime \in BOOLEAN /\ IsFiniteSet(Plug)

VARIABLES
  plugged,      (* devices plugged in now                                  *)
  changed,      (* how many changed since the last poll, at most 1 counted *)
  count,        (* number of ports at the last poll                        *)
  rebuilding,   (* the midi thread is between the count and the names      *)
  devices,      (* MidiUnix::devices: plug |-> address, for those opened   *)
  registered,   (* callbacks registered so far                             *)
  own,          (* what Hyperion keeps                                     *)
  greeted       (* history: the callbacks each open device was created for *)

vars == <<plugged, changed, count, rebuilding, devices, registered, own, greeted>>

TypeOK ==
  /\ plugged \subseteq Plug /\ changed \in BOOLEAN
  /\ count \in 0 .. Cardinality(Plug) /\ rebuilding \in BOOLEAN
  /\ DOMAIN devices \subseteq Plug /\ Range(devices) = own.alive
  /\ registered \subseteq Callbacks /\ own \in Owners
  /\ DOMAIN greeted = DOMAIN devices

Init ==
  /\ plugged \in SUBSET Plug /\ changed = FALSE
  /\ count = 0 /\ rebuilding = FALSE
  /\ devices = <<>> /\ registered = {} /\ own = NoOwners /\ greeted = <<>>

PlugOrUnplug ==
  /\ OneAtATime => ~changed
  /\ \E p \in Plug : plugged' = IF p \in plugged THEN plugged \ {p} ELSE plugged \cup {p}
  /\ changed' = TRUE
  /\ UNCHANGED <<count, rebuilding, devices, registered, own, greeted>>

(* start(): setup_midi comes first, setup_tempo last; the midi thread runs *)
(* since the first of them asked for Midi::getInstance.                    *)
SetupMidi ==
  /\ registered = {}
  /\ registered' = {"controllers"}
  /\ UNCHANGED <<plugged, changed, count, rebuilding, devices, own, greeted>>

SetupTempo ==
  /\ registered = {"controllers"}
  /\ registered' = Callbacks
  /\ UNCHANGED <<plugged, changed, count, rebuilding, devices, own, greeted>>

PollCount ==
  /\ ~rebuilding
  /\ count' = Cardinality(plugged)
  /\ rebuilding' = (count' # count)
  /\ changed' = FALSE
  /\ UNCHANGED <<plugged, devices, registered, own, greeted>>

(* Wrong on purpose: devices are deleted before the callbacks hear of it.  *)
DeleteThenTell(o) ==
  Destroyed(Delete(o, Range(devices)), Range(devices), registered)

DestroyAll(o) ==
  Delete(Destroyed(o, Range(devices), registered), Range(devices))

CreateAll(o, opened) ==
  Created(Allocate(o, Range(opened)), Range(opened),
          {opened[p] : p \in DOMAIN opened \cap Known}, registered)

(* Everything is torn down and built again from the names, which are read  *)
(* after the count: as many of them as were counted, and are still there.  *)
(* A new device may get any free address.                                  *)
Rebuild ==
  /\ rebuilding
  /\ \E names \in SUBSET plugged :
       /\ Cardinality(names) = IF count < Cardinality(plugged) THEN count
                               ELSE Cardinality(plugged)
       /\ devices' \in {f \in [names -> Address] : IsInjective(f)}
  /\ own' = CreateAll(DestroyAll(own), devices')
  /\ greeted' = [p \in DOMAIN devices' |-> registered]
  /\ rebuilding' = FALSE
  /\ UNCHANGED <<plugged, changed, count, registered>>

Poll == PollCount \/ Rebuild
Next == PlugOrUnplug \/ SetupMidi \/ SetupTempo \/ Poll

Spec == Init /\ [][Next]_vars

(* The midi thread polls for ever and start() finishes.                    *)
FairSpec == Spec /\ WF_vars(Poll) /\ WF_vars(SetupMidi) /\ WF_vars(SetupTempo)

-----------------------------------------------------------------------------
(* Properties.                                                             *)

(* A rebuild leaves no pointer behind, although callbacks are registered   *)
(* while devices exist and new devices get the addresses of old ones.      *)
NoDangling == NoneDangling(own)

(* Every open device has what it was created for: one controller if its    *)
(* name is known, one clock, each listening; no old entry is in the way.   *)
OpenIsServed ==
  \A p \in DOMAIN devices :
    LET d == devices[p] IN
      /\ d \in own.hub <=> p \in Known /\ "controllers" \in greeted[p]
      /\ d \in own.clocks <=> "clocks" \in greeted[p]
      /\ own.listeners[d] = (IF d \in own.hub THEN {"controller"} ELSE {})
                              \cup (IF d \in own.clocks THEN {"clock"} ELSE {})

(* When nobody plugs any more, the open devices are the plugged ones.      *)
PluggedGetsOpened ==
  \A S \in SUBSET Plug : <>[](plugged = S) => <>[](DOMAIN devices = S)

=============================================================================
