----------------------------- MODULE HubThreads -----------------------------
(***************************************************************************)
(* The control hub without the assumption that its operations are atomic.  *)
(* The web server, the MIDI callbacks and the tempo task call it from      *)
(* threads of their own and it takes no lock, so an operation reads,       *)
(* stores and tells in separate steps.  One column, and one subscribed     *)
(* controller, suffice to tell the orders of these steps apart.            *)
(***************************************************************************)
EXTENDS Integers, FiniteSets

CONSTANTS
  Threads,
  Buttons,      (* per thread: the slots it presses and releases           *)
  SetSlots,     (* per thread: the slots it sets and clears directly       *)
  Dimmers,      (* the threads that move the column's dimmer               *)
  NSlots,       (* slots of the column                                     *)
  FlashSlots,   (* those with Slot::flash                                  *)
  Releasing,    (* those with Slot::releaseColumn                          *)
  Forced,       (* Column::forcedSelection                                 *)
  Levels        (* dimmer values in use                                    *)

DEFAULT  == "DEFAULT"
FLASH    == "FLASH"
SEQUENCE == "SEQUENCE"
Flags    == {DEFAULT, FLASH, SEQUENCE}
Slots    == 0 .. NSlots - 1

ThreadsAssumption ==
  /\ NSlots \in Nat
  /\ Buttons \in [Threads -> SUBSET Slots] /\ SetSlots \in [Threads -> SUBSET Slots]
  /\ Dimmers \subseteq Threads
  /\ FlashSlots \subseteq Slots /\ Releasing \subseteq Slots
  /\ Forced \in BOOLEAN
  /\ Levels \subseteq 0 .. 255 /\ 255 \in Levels

VARIABLES
  activated,    (* Slot::activated                                         *)
  dim,          (* Column::dim                                             *)
  lamp,         (* what the controller was last told about each slot       *)
  fader,        (* what the controller was last told about the dimmer      *)
  held,         (* per thread: the buttons that are physically down        *)
  op            (* per thread: the operation it is in, and how far         *)

vars == <<activated, dim, lamp, fader, held, op>>

Op == [stage : {"loop"}, call : {"press"},
       slot : Slots, new : SUBSET Flags, next : Slots]
      \cup [stage : {"store", "tell"}, call : {"press", "release", "set"},
            slot : Slots, new : SUBSET Flags, next : 0 .. NSlots]
      \cup [stage : {"storeDim", "tellDim"}, value : Levels]
Idle == [stage |-> "idle"]

TypeOK ==
  /\ activated \in [Slots -> SUBSET Flags]
  /\ dim \in Levels
  /\ lamp \in [Slots -> SUBSET Flags]
  /\ fader \in Levels
  /\ held \in [Threads -> SUBSET Slots]
  /\ op \in [Threads -> {Idle} \cup Op]

Init ==
  /\ activated = [s \in Slots |-> {}]
  /\ dim = 255
  /\ lamp = [s \in Slots |-> {}]
  /\ fader = 255
  /\ held = [t \in Threads |-> {}]
  /\ op = [t \in Threads |-> Idle]

-----------------------------------------------------------------------------
(* The first step of an operation: read, compute, perhaps return early.    *)

Free(t) == op[t] = Idle

Enter(t, stage, call, s, new) ==
  op' = [op EXCEPT ![t] =
           [stage |-> stage, call |-> call, slot |-> s, new |-> new, next |-> 0]]

PressedFlags(s) ==
  LET old == activated[s]
  IN  IF s \in FlashSlots THEN old \cup {FLASH}
      ELSE IF DEFAULT \in old THEN old \ {DEFAULT} ELSE old \cup {DEFAULT}

Selected == {s \in Slots : DEFAULT \in activated[s]}

(* The early returns: no change, or a forced selection that would be lost. *)
PressRefused(s) ==
  \/ PressedFlags(s) = activated[s]
  \/ DEFAULT \notin PressedFlags(s) /\ Forced /\ Cardinality(Selected) = 1

ButtonPressed(t, s) ==
  /\ Free(t) /\ s \notin held[t]
  /\ held' = [held EXCEPT ![t] = @ \cup {s}]
  /\ IF PressRefused(s) THEN UNCHANGED op
     ELSE Enter(t, IF s \in Releasing THEN "loop" ELSE "store", "press", s, PressedFlags(s))
  /\ UNCHANGED <<activated, dim, lamp, fader>>

(* Wrong on purpose: the flag is not taken out of what is stored.          *)
ReleasedKeepsFlash(t, s) ==
  /\ Free(t) /\ s \in held[t]
  /\ held' = [held EXCEPT ![t] = @ \ {s}]
  /\ IF s \in FlashSlots /\ FLASH \in activated[s]
     THEN Enter(t, "store", "release", s, activated[s])
     ELSE UNCHANGED op
  /\ UNCHANGED <<activated, dim, lamp, fader>>

ButtonReleased(t, s) ==
  /\ Free(t) /\ s \in held[t]
  /\ held' = [held EXCEPT ![t] = @ \ {s}]
  /\ IF s \in FlashSlots /\ FLASH \in activated[s]
     THEN Enter(t, "store", "release", s, activated[s] \ {FLASH})
     ELSE UNCHANGED op
  /\ UNCHANGED <<activated, dim, lamp, fader>>

SetSlotActive(t, s, active) ==
  LET new == IF active THEN activated[s] \cup {SEQUENCE} ELSE activated[s] \ {SEQUENCE}
  IN  /\ Free(t)
      /\ new # activated[s]
      /\ Enter(t, "store", "set", s, new)
      /\ UNCHANGED <<activated, dim, lamp, fader, held>>

Dim(t, v) ==
  /\ Free(t)
  /\ dim # v
  /\ op' = [op EXCEPT ![t] = [stage |-> "storeDim", value |-> v]]
  /\ UNCHANGED <<activated, dim, lamp, fader, held>>

-----------------------------------------------------------------------------
(* The following steps.                                                    *)

(* One round of the release loop: a selected slot is cleared and told off. *)
ReleaseLoop(t) ==
  /\ op[t].stage = "loop"
  /\ LET n == op[t].next
     IN  IF DEFAULT \in activated[n]
         THEN /\ activated' = [activated EXCEPT ![n] = @ \ {DEFAULT}]
              /\ lamp' = [lamp EXCEPT ![n] = {}]
         ELSE UNCHANGED <<activated, lamp>>
  /\ op' = [op EXCEPT ![t].next = @ + 1,
                      ![t].stage = IF op[t].next = NSlots - 1 THEN "store" ELSE "loop"]
  /\ UNCHANGED <<dim, fader, held>>

(* A press and a set store what they computed; a release clears its bit in *)
(* the byte as it read it, or in the byte as it is, as the build has it.   *)
Store(t) ==
  /\ op[t].stage = "store"
  /\ LET s == op[t].slot
     IN  \E new \in {op[t].new} \cup
                    (IF op[t].call = "release" THEN {activated[s] \ {FLASH}} ELSE {}) :
           activated' = [activated EXCEPT ![s] = new]
  /\ op' = [op EXCEPT ![t].stage = "tell"]
  /\ UNCHANGED <<dim, lamp, fader, held>>

(* A release tells "off"; the others tell what the slot holds by now.      *)
Tell(t) ==
  /\ op[t].stage = "tell"
  /\ LET s == op[t].slot
     IN  lamp' = [lamp EXCEPT ![s] = IF op[t].call = "release" THEN {} ELSE activated[s]]
  /\ op' = [op EXCEPT ![t] = Idle]
  /\ UNCHANGED <<activated, dim, fader, held>>

StoreDim(t) ==
  /\ op[t].stage = "storeDim"
  /\ dim' = op[t].value
  /\ op' = [op EXCEPT ![t].stage = "tellDim"]
  /\ UNCHANGED <<activated, lamp, fader, held>>

TellDim(t) ==
  /\ op[t].stage = "tellDim"
  /\ fader' = op[t].value
  /\ op' = [op EXCEPT ![t] = Idle]
  /\ UNCHANGED <<activated, dim, lamp, held>>

Next ==
  \E t \in Threads :
    \/ \E s \in Buttons[t] : ButtonPressed(t, s) \/ ButtonReleased(t, s)
    \/ \E s \in SetSlots[t], active \in BOOLEAN : SetSlotActive(t, s, active)
    \/ t \in Dimmers /\ \E v \in Levels : Dim(t, v)
    \/ ReleaseLoop(t) \/ Store(t) \/ Tell(t) \/ StoreDim(t) \/ TellDim(t)

Spec == Init /\ [][Next]_vars

-----------------------------------------------------------------------------
(* Properties.                                                             *)

Quiet == \A t \in Threads : Free(t)

(* The slots that thread t may write.  The release loop writes slots that  *)
(* are selected, which a flash slot never is.                              *)
WrittenBy(t) ==
  Buttons[t] \cup SetSlots[t]
    \cup (IF Buttons[t] \cap Releasing = {} THEN {} ELSE Slots \ FlashSlots)

(* A slot that is flashed by hand stops flashing when no button of it is   *)
(* down any more: FLASH does not come back by a late store of a flags byte *)
(* that was read before the release, provided that no two threads write    *)
(* the same slot.                                                          *)
Unshared(s) == \A t, u \in Threads : s \in WrittenBy(t) \cap WrittenBy(u) => t = u

NoStuckFlash ==
  \A s \in FlashSlots :
    Quiet /\ Unshared(s) /\ FLASH \in activated[s] => \E t \in Threads : s \in held[t]

(* A press is not lost: a flash button of a slot that no other thread      *)
(* writes has its FLASH as long as it is held.  (A forced selection may    *)
(* refuse the press.)                                                      *)
HeldIsOn ==
  \A t \in Threads, s \in FlashSlots :
    Quiet /\ ~Forced /\ Unshared(s) /\ s \in held[t] => FLASH \in activated[s]

(* With one thread for the dimmer, the fader of the controller agrees with *)
(* the hub once that thread is done, whatever the other threads do.        *)
FaderSettles ==
  (\A t, u \in Dimmers : t = u) /\ Quiet => fader = dim

=============================================================================
