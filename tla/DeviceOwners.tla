---------------------------- MODULE DeviceOwners ----------------------------
(***************************************************************************)
(* What Hyperion keeps per MIDI device: the controller in midiControllers  *)
(* and the clock in midiClockTempos, with the places that hold pointers to *)
(* them (the hub, the tempo and the listeners of the device).  Devices are *)
(* named by their addresses, which are used again after a delete.          *)
(***************************************************************************)
EXTENDS Integers, Sequences

CONSTANT Address

Callbacks == {"controllers", "clocks"}

NoOwners ==
  [alive |-> {},                              (* allocated devices         *)
   controllers |-> {},                        (* keys of midiControllers   *)
   hub |-> {},                                (* devices whose controller  *)
                                              (* is subscribed to the hub  *)
   clocks |-> {},                             (* keys of midiClockTempos   *)
   sources |-> [d \in Address |-> 0],         (* clocks the tempo asks     *)
   listeners |-> [d \in Address |-> {}],
   misused |-> FALSE]                         (* a deleted device was used *)

Owners ==
  [alive : SUBSET Address, controllers : SUBSET Address, hub : SUBSET Address,
   clocks : SUBSET Address, sources : [Address -> 0 .. 2],
   listeners : [Address -> SUBSET {"controller", "clock"}], misused : BOOLEAN]

(* The same happens to every device of a set: devices share nothing, so    *)
(* that it does not matter which of them is the first.                     *)
Allocate(o, D) ==
  [o EXCEPT !.alive = @ \cup D,
            !.listeners = [d \in Address |-> IF d \in D THEN {} ELSE @[d]]]

Delete(o, D) ==
  [o EXCEPT !.alive = @ \ D,
            !.listeners = [d \in Address |-> IF d \in D THEN {} ELSE @[d]]]

Listen(o, D, l) ==
  [o EXCEPT !.listeners = [d \in Address |-> IF d \in D THEN @[d] \cup {l} ELSE @[d]],
            !.misused = @ \/ ~(D \subseteq o.alive)]

Unlisten(o, D, l) ==
  [o EXCEPT !.listeners = [d \in Address |-> IF d \in D THEN @[d] \ {l} ELSE @[d]],
            !.misused = @ \/ ~(D \subseteq o.alive)]

(* The factory makes a controller for a name it knows, which subscribes    *)
(* and listens; insert keeps what the map already has for that address, so *)
(* that the new controller is destroyed at once.                           *)
ControllerCreated(o, D, known) ==
  LET made == (D \cap known) \ o.controllers
  IN  Listen([o EXCEPT !.controllers = @ \cup D, !.hub = @ \cup made], made, "controller")

(* Wrong on purpose: an entry that has no controller is not erased.        *)
ControllerForgotten(o, D) ==
  Unlisten([o EXCEPT !.controllers = @ \ (D \cap o.hub), !.hub = @ \ D],
           D \cap o.hub, "controller")

(* Erasing the entry destroys the controller, which says goodbye to both.  *)
ControllerDestroyed(o, D) ==
  Unlisten([o EXCEPT !.controllers = @ \ D, !.hub = @ \ D], D \cap o.hub, "controller")

ClockCreated(o, D) ==
  Listen([o EXCEPT !.clocks = @ \cup D,
                   !.sources = [d \in Address |-> IF d \in D THEN @[d] + 1 ELSE @[d]]],
         D, "clock")

(* A device that came before the callback has no clock: operator[] makes   *)
(* a null entry, and only the device is asked, to forget a null listener.  *)
(* A clock that was made twice still listens: only one of them is in the   *)
(* map.                                                                    *)
ClockDestroyed(o, D) ==
  LET twice == {d \in D : o.sources[d] = 2}
      gone  == [o EXCEPT !.clocks = @ \ D,
                         !.sources = [d \in Address |-> IF d \in D \cap o.clocks THEN @[d] - 1
                                                                              ELSE @[d]],
                         !.misused = @ \/ ~(twice \subseteq o.alive)]
  IN  Unlisten(gone, D \ twice, "clock")

(* The callbacks are called in the order of their registration.            *)
Created(o, D, known, registered) ==
  LET c == IF "controllers" \in registered THEN ControllerCreated(o, D, known) ELSE o
  IN  IF "clocks" \in registered THEN ClockCreated(c, D) ELSE c

Destroyed(o, D, registered) ==
  LET c == IF "controllers" \in registered THEN ControllerDestroyed(o, D) ELSE o
  IN  IF "clocks" \in registered THEN ClockDestroyed(c, D) ELSE c

(* Nobody holds a pointer to a device or a clock that is gone: the hub     *)
(* announces to, and the tempo asks, only what is there.                   *)
NoneDangling(o) ==
  /\ ~o.misused
  /\ o.hub \cup o.controllers \cup o.clocks \subseteq o.alive
  /\ \A d \in Address : o.sources[d] = IF d \in o.clocks THEN 1 ELSE 0

=============================================================================
