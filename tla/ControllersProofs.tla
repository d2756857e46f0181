-------------------------- MODULE ControllersProofs --------------------------
(***************************************************************************)
(* Proofs about the edges of the hub: what threads that share the hub      *)
(* without a lock leave behind, for any number of threads and slots, what  *)
(* controller pages show, for any number of pages, columns and slots, and  *)
(* who owns what of the MIDI devices of the host and of the browsers, for  *)
(* any number of devices, ports, bridges and addresses.                    *)
(***************************************************************************)
EXTENDS Controllers, FiniteSetTheorems, SequenceTheorems, WellFoundedInduction, TLAPS

-----------------------------------------------------------------------------
(* Types and ownership.                                                    *)

HubStep == [Hub!Next]_(Hub!vars)

(* What thread t does to slot s and has not stored yet.                    *)
Pending(t, call, s) ==
  op[t].stage \in {"loop", "store"} /\ op[t].call = call /\ op[t].slot = s

(* Threads press, set and dim what is theirs.                              *)
Owned ==
  \A t \in Threads :
    /\ held[t] \subseteq Buttons[t]
    /\ op[t].stage \in {"loop", "store", "tell"} =>
         op[t].slot \in (IF op[t].call = "set" THEN SetSlots[t] ELSE Buttons[t])
    /\ op[t].stage \in {"storeDim", "tellDim"} => t \in Dimmers

LEMMA HubConstants ==
  /\ NSlots \in Nat
  /\ Buttons \in [Threads -> SUBSET Hub!Slots] /\ SetSlots \in [Threads -> SUBSET Hub!Slots]
  /\ Dimmers \subseteq Threads
  /\ 255 \in Levels
BY ControllersAssumption DEF Hub!ThreadsAssumption

LEMMA HubInitTypes == Hub!Init => Hub!TypeOK /\ Owned
BY HubConstants DEF Hub!Init, Hub!TypeOK, Owned, Hub!Idle

(* The flags an operation computes are flags.                              *)
LEMMA NewFlags ==
  ASSUME Hub!TypeOK, NEW s \in Hub!Slots
  PROVE  /\ Hub!PressedFlags(s) \in SUBSET Hub!Flags
         /\ activated[s] \cup {Hub!SEQUENCE} \in SUBSET Hub!Flags
         /\ \A F : activated[s] \ F \in SUBSET Hub!Flags
BY DEF Hub!TypeOK, Hub!PressedFlags, Hub!Flags, Hub!FLASH, Hub!DEFAULT, Hub!SEQUENCE

(* Entering an operation.                                                  *)
LEMMA Entered ==
  ASSUME Hub!TypeOK, Owned, NEW t \in Threads, NEW s \in Hub!Slots,
         NEW new \in SUBSET Hub!Flags,
         NEW call \in {"press", "release", "set"},
         NEW stage0 \in {"loop", "store"}, stage0 = "loop" => call = "press",
         s \in (IF call = "set" THEN SetSlots[t] ELSE Buttons[t]),
         Hub!Enter(t, stage0, call, s, new)
  PROVE  /\ op' \in [Threads -> {Hub!Idle} \cup Hub!Op]
         /\ op'[t].stage \in {"loop", "store"} /\ op'[t].call = call /\ op'[t].slot = s
         /\ op'[t].new = new
         /\ \A u \in Threads \ {t} : op'[u] = op[u]
<1> DEFINE entry == [stage |-> stage0, call |-> call, slot |-> s, new |-> new, next |-> 0]
<1>1. 0 \in Hub!Slots /\ 0 \in 0 .. NSlots
  BY HubConstants DEF Hub!Slots
<1>2. entry \in Hub!Op
  BY <1>1 DEF Hub!Op
<1>3. op' = [op EXCEPT ![t] = entry]
  BY DEF Hub!Enter
<1>4. QED
  BY <1>2, <1>3 DEF Hub!TypeOK

(* A press, a release or a set of a free thread either changes nothing but *)
(* the button, or becomes pending.                                         *)
LEMMA PressedEffect ==
  ASSUME Hub!TypeOK, Owned, NEW t \in Threads, NEW s \in Buttons[t], Hub!ButtonPressed(t, s)
  PROVE  /\ op' \in [Threads -> {Hub!Idle} \cup Hub!Op]
         /\ \A u \in Threads \ {t} : op'[u] = op[u]
         /\ \/ Hub!PressRefused(s) /\ op' = op
            \/ Pending(t, "press", s)' /\ op'[t].new = Hub!PressedFlags(s)
<1>1. s \in Hub!Slots
  BY HubConstants
<1>2. CASE Hub!PressRefused(s)
  BY <1>2 DEF Hub!ButtonPressed, Hub!TypeOK
<1>3. CASE ~Hub!PressRefused(s)
  <2>1. Hub!Enter(t, IF s \in Releasing THEN "loop" ELSE "store", "press", s,
                  Hub!PressedFlags(s))
    BY <1>3 DEF Hub!ButtonPressed
  <2>2. QED
    BY <1>1, <2>1, NewFlags, Entered DEF Pending
<1>4. QED
  BY <1>2, <1>3

LEMMA ReleasedEffect ==
  ASSUME Hub!TypeOK, Owned, NEW t \in Threads, NEW s \in Buttons[t], Hub!ButtonReleased(t, s)
  PROVE  /\ op' \in [Threads -> {Hub!Idle} \cup Hub!Op]
         /\ \A u \in Threads \ {t} : op'[u] = op[u]
         /\ IF s \in FlashSlots /\ Hub!FLASH \in activated[s]
            THEN Pending(t, "release", s)' /\ op'[t].new = activated[s] \ {Hub!FLASH}
            ELSE op' = op
<1>1. s \in Hub!Slots
  BY HubConstants
<1>2. CASE s \in FlashSlots /\ Hub!FLASH \in activated[s]
  <2>1. Hub!Enter(t, "store", "release", s, activated[s] \ {Hub!FLASH})
    BY <1>2 DEF Hub!ButtonReleased
  <2>2. QED
    BY <1>1, <1>2, <2>1, NewFlags, Entered DEF Pending
<1>3. CASE ~(s \in FlashSlots /\ Hub!FLASH \in activated[s])
  BY <1>3 DEF Hub!ButtonReleased, Hub!TypeOK
<1>4. QED
  BY <1>2, <1>3

LEMMA SetEffect ==
  ASSUME Hub!TypeOK, Owned, NEW t \in Threads, NEW s \in SetSlots[t], NEW on \in BOOLEAN,
         Hub!SetSlotActive(t, s, on)
  PROVE  /\ op' \in [Threads -> {Hub!Idle} \cup Hub!Op]
         /\ \A u \in Threads \ {t} : op'[u] = op[u]
         /\ Pending(t, "set", s)'
         /\ Hub!FLASH \in op'[t].new <=> Hub!FLASH \in activated[s]
<1> DEFINE new == IF on THEN activated[s] \cup {Hub!SEQUENCE} ELSE activated[s] \ {Hub!SEQUENCE}
<1>1. s \in Hub!Slots
  BY HubConstants
<1>2. new \in SUBSET Hub!Flags
  BY <1>1, NewFlags
<1>3. Hub!Enter(t, "store", "set", s, new)
  BY DEF Hub!SetSlotActive
<1>4. Hub!FLASH \in new <=> Hub!FLASH \in activated[s]
  BY DEF Hub!FLASH, Hub!SEQUENCE
<1> HIDE DEF new
<1>5. QED
  BY <1>1, <1>2, <1>3, <1>4, Entered DEF Pending

(* The steps that follow: a store changes one slot, by what was computed   *)
(* or by taking FLASH out of what is there.                                *)
LEMMA LoopEffect ==
  ASSUME Hub!TypeOK, Owned, NEW t \in Threads, Hub!ReleaseLoop(t)
  PROVE  /\ op' \in [Threads -> {Hub!Idle} \cup Hub!Op]
         /\ activated' \in [Hub!Slots -> SUBSET Hub!Flags]
         /\ lamp' \in [Hub!Slots -> SUBSET Hub!Flags]
         /\ \A u \in Threads \ {t} : op'[u] = op[u]
         /\ \A s \in Hub!Slots : Hub!FLASH \in activated'[s] <=> Hub!FLASH \in activated[s]
         /\ op[t].stage = "loop" /\ op'[t].stage \in {"loop", "store"}
         /\ op'[t].call = op[t].call /\ op'[t].slot = op[t].slot /\ op'[t].new = op[t].new
<1> DEFINE stage0 == IF op[t].next = NSlots - 1 THEN "store" ELSE "loop"
<1> DEFINE entry == [op[t] EXCEPT !.next = @ + 1, !.stage = stage0]
<1>1. op[t] \in [stage : {"loop"}, call : {"press"}, slot : Hub!Slots,
                 new : SUBSET Hub!Flags, next : Hub!Slots]
  BY DEF Hub!ReleaseLoop, Hub!TypeOK, Hub!Op, Hub!Idle
<1>2. entry.stage = stage0 /\ entry.call = op[t].call /\ entry.slot = op[t].slot
      /\ entry.new = op[t].new /\ entry.next = op[t].next + 1
  BY <1>1
<1>3. op[t].next + 1 \in 0 .. NSlots
      /\ (op[t].next # NSlots - 1 => op[t].next + 1 \in Hub!Slots)
  BY <1>1, HubConstants DEF Hub!Slots
<1>4. entry \in Hub!Op
  <2>1. CASE op[t].next = NSlots - 1
    BY <1>1, <1>3, <2>1 DEF Hub!Op
  <2>2. CASE op[t].next # NSlots - 1
    BY <1>1, <1>3, <2>2 DEF Hub!Op
  <2>3. QED
    BY <2>1, <2>2
<1>5. op' = [op EXCEPT ![t] = entry]
  BY DEF Hub!ReleaseLoop, Hub!TypeOK
<1> HIDE DEF entry
<1>6. op' \in [Threads -> {Hub!Idle} \cup Hub!Op] /\ op'[t] = entry
      /\ \A u \in Threads \ {t} : op'[u] = op[u]
  BY <1>4, <1>5 DEF Hub!TypeOK
<1>7. /\ activated' \in [Hub!Slots -> SUBSET Hub!Flags]
      /\ lamp' \in [Hub!Slots -> SUBSET Hub!Flags]
      /\ \A s \in Hub!Slots : Hub!FLASH \in activated'[s] <=> Hub!FLASH \in activated[s]
  <2>1. op[t].next \in Hub!Slots
    BY <1>1
  <2>2. CASE Hub!DEFAULT \in activated[op[t].next]
    BY <2>1, <2>2 DEF Hub!ReleaseLoop, Hub!TypeOK, Hub!FLASH, Hub!DEFAULT
  <2>3. CASE Hub!DEFAULT \notin activated[op[t].next]
    BY <2>3 DEF Hub!ReleaseLoop, Hub!TypeOK
  <2>4. QED
    BY <2>2, <2>3
<1>8. QED
  BY <1>1, <1>2, <1>6, <1>7

LEMMA StoreEffect ==
  ASSUME Hub!TypeOK, Owned, NEW t \in Threads, Hub!Store(t)
  PROVE  /\ op' \in [Threads -> {Hub!Idle} \cup Hub!Op]
         /\ activated' \in [Hub!Slots -> SUBSET Hub!Flags]
         /\ \A u \in Threads \ {t} : op'[u] = op[u]
         /\ op[t].stage = "store" /\ op[t].slot \in Hub!Slots
         /\ op[t].call \in {"press", "release", "set"}
         /\ op'[t].stage = "tell" /\ op'[t].call = op[t].call /\ op'[t].slot = op[t].slot
         /\ \A s \in Hub!Slots \ {op[t].slot} : activated'[s] = activated[s]
         /\ \/ activated'[op[t].slot] = op[t].new
            \/ op[t].call = "release" /\ Hub!FLASH \notin activated'[op[t].slot]
<1>1. op[t] \in [stage : {"store", "tell"}, call : {"press", "release", "set"},
                 slot : Hub!Slots, new : SUBSET Hub!Flags, next : 0 .. NSlots]
  BY DEF Hub!Store, Hub!TypeOK, Hub!Op, Hub!Idle
<1> DEFINE entry == [op[t] EXCEPT !.stage = "tell"]
<1>2. entry \in Hub!Op /\ entry.stage = "tell" /\ entry.call = op[t].call
      /\ entry.slot = op[t].slot
  BY <1>1 DEF Hub!Op
<1>3. op' = [op EXCEPT ![t] = entry]
  BY DEF Hub!Store
<1> HIDE DEF entry
<1>4. op' \in [Threads -> {Hub!Idle} \cup Hub!Op] /\ op'[t] = entry
      /\ \A u \in Threads \ {t} : op'[u] = op[u]
  BY <1>2, <1>3 DEF Hub!TypeOK
<1>5. PICK new \in {op[t].new} \cup
               (IF op[t].call = "release" THEN {activated[op[t].slot] \ {Hub!FLASH}} ELSE {}) :
        activated' = [activated EXCEPT ![op[t].slot] = new]
  BY DEF Hub!Store
<1>6. new \in SUBSET Hub!Flags
  BY <1>1, <1>5, NewFlags
<1>7. QED
  BY <1>1, <1>2, <1>4, <1>5, <1>6 DEF Hub!Store, Hub!TypeOK

LEMMA TellEffect ==
  ASSUME Hub!TypeOK, Owned, NEW t \in Threads, Hub!Tell(t)
  PROVE  /\ op' \in [Threads -> {Hub!Idle} \cup Hub!Op]
         /\ lamp' \in [Hub!Slots -> SUBSET Hub!Flags]
         /\ \A u \in Threads \ {t} : op'[u] = op[u]
         /\ op[t].stage = "tell" /\ op'[t] = Hub!Idle
<1>1. op[t] \in [stage : {"store", "tell"}, call : {"press", "release", "set"},
                 slot : Hub!Slots, new : SUBSET Hub!Flags, next : 0 .. NSlots]
  BY DEF Hub!Tell, Hub!TypeOK, Hub!Op, Hub!Idle
<1>2. activated[op[t].slot] \in SUBSET Hub!Flags
  BY <1>1 DEF Hub!TypeOK
<1>3. QED
  BY <1>1, <1>2 DEF Hub!Tell, Hub!TypeOK

LEMMA DimEffect ==
  ASSUME Hub!TypeOK, NEW t \in Threads,
         \/ \E v \in Levels : Hub!Dim(t, v)
         \/ Hub!StoreDim(t) \/ Hub!TellDim(t)
  PROVE  /\ op' \in [Threads -> {Hub!Idle} \cup Hub!Op]
         /\ dim' \in Levels /\ fader' \in Levels
         /\ \A u \in Threads \ {t} : op'[u] = op[u]
         /\ op'[t].stage \in {"idle", "storeDim", "tellDim"}
         /\ op[t].stage \in {"idle", "storeDim", "tellDim"}
<1>1. CASE \E v \in Levels : Hub!Dim(t, v)
  BY <1>1 DEF Hub!Dim, Hub!TypeOK, Hub!Op, Hub!Free, Hub!Idle
<1>2. ASSUME Hub!StoreDim(t) \/ Hub!TellDim(t)
      PROVE  op[t] \in [stage : {"storeDim", "tellDim"}, value : Levels]
  BY <1>2 DEF Hub!StoreDim, Hub!TellDim, Hub!TypeOK, Hub!Op, Hub!Idle
<1>3. CASE Hub!StoreDim(t)
  <2>1. [op[t] EXCEPT !.stage = "tellDim"] \in Hub!Op
        /\ [op[t] EXCEPT !.stage = "tellDim"].stage = "tellDim"
    BY <1>2, <1>3 DEF Hub!Op
  <2>2. QED
    BY <1>2, <1>3, <2>1 DEF Hub!StoreDim, Hub!TypeOK
<1>4. CASE Hub!TellDim(t)
  BY <1>2, <1>4 DEF Hub!TellDim, Hub!TypeOK, Hub!Idle
<1>5. QED
  BY <1>1, <1>3, <1>4

(* The steps of a thread, as the following proofs split them.              *)
LEMMA HubCases ==
  ASSUME Hub!Next
  PROVE  \E t \in Threads :
           \/ \E s \in Buttons[t] : Hub!ButtonPressed(t, s)
           \/ \E s \in Buttons[t] : Hub!ButtonReleased(t, s)
           \/ \E s \in SetSlots[t], on \in BOOLEAN : Hub!SetSlotActive(t, s, on)
           \/ Hub!ReleaseLoop(t) \/ Hub!Store(t) \/ Hub!Tell(t)
           \/ t \in Dimmers /\ \E v \in Levels : Hub!Dim(t, v)
           \/ Hub!StoreDim(t) \/ Hub!TellDim(t)
BY DEF Hub!Next

HubTypes == Hub!TypeOK /\ Owned

LEMMA HubTypesStep == HubTypes /\ HubStep => HubTypes'
<1> SUFFICES ASSUME HubTypes, HubStep PROVE HubTypes'
  OBVIOUS
<1>1. Hub!TypeOK /\ Owned
  BY DEF HubTypes
<1>2. CASE UNCHANGED Hub!vars
  BY <1>1, <1>2 DEF HubTypes, Hub!TypeOK, Owned, Hub!vars
<1>3. ASSUME NEW t \in Threads, NEW s \in Buttons[t], Hub!ButtonPressed(t, s)
      PROVE  HubTypes'
  <2>1. held' = [held EXCEPT ![t] = @ \cup {s}] /\ UNCHANGED <<activated, dim, lamp, fader>>
    BY <1>3 DEF Hub!ButtonPressed
  <2>2. held' \in [Threads -> SUBSET Hub!Slots]
    BY <1>1, <2>1, HubConstants DEF Hub!TypeOK
  <2>3. Hub!TypeOK'
    BY <1>1, <1>3, <2>1, <2>2, PressedEffect DEF Hub!TypeOK
  <2>4. \A u \in Threads : held'[u] \subseteq Buttons[u]
    BY <1>1, <2>1 DEF Hub!TypeOK, Owned
  <2>5. Owned'
    BY <1>1, <1>3, <2>4, PressedEffect DEF Owned, Pending
  <2>6. QED
    BY <2>3, <2>5 DEF HubTypes
<1>4. ASSUME NEW t \in Threads, NEW s \in Buttons[t], Hub!ButtonReleased(t, s)
      PROVE  HubTypes'
  <2>1. held' = [held EXCEPT ![t] = @ \ {s}] /\ UNCHANGED <<activated, dim, lamp, fader>>
    BY <1>4 DEF Hub!ButtonReleased
  <2>2. held' \in [Threads -> SUBSET Hub!Slots]
    BY <1>1, <2>1 DEF Hub!TypeOK
  <2>3. Hub!TypeOK'
    BY <1>1, <1>4, <2>1, <2>2, ReleasedEffect DEF Hub!TypeOK
  <2>4. \A u \in Threads : held'[u] \subseteq Buttons[u]
    BY <1>1, <2>1 DEF Hub!TypeOK, Owned
  <2>5. Owned'
    BY <1>1, <1>4, <2>4, ReleasedEffect DEF Owned, Pending
  <2>6. QED
    BY <2>3, <2>5 DEF HubTypes
<1>5. ASSUME NEW t \in Threads, NEW s \in SetSlots[t], NEW on \in BOOLEAN,
             Hub!SetSlotActive(t, s, on)
      PROVE  HubTypes'
  <2>1. UNCHANGED <<activated, dim, lamp, fader, held>>
    BY <1>5 DEF Hub!SetSlotActive
  <2>2. Hub!TypeOK'
    BY <1>1, <1>5, <2>1, SetEffect DEF Hub!TypeOK
  <2>3. Owned'
    BY <1>1, <1>5, <2>1, SetEffect DEF Owned, Pending
  <2>4. QED
    BY <2>2, <2>3 DEF HubTypes
<1>6. ASSUME NEW t \in Threads, Hub!ReleaseLoop(t)
      PROVE  HubTypes'
  <2>1. UNCHANGED <<dim, fader, held>>
    BY <1>6 DEF Hub!ReleaseLoop
  <2>2. Hub!TypeOK'
    BY <1>1, <1>6, <2>1, LoopEffect DEF Hub!TypeOK
  <2>3. Owned'
    BY <1>1, <1>6, <2>1, LoopEffect DEF Owned
  <2>4. QED
    BY <2>2, <2>3 DEF HubTypes
<1>7. ASSUME NEW t \in Threads, Hub!Store(t)
      PROVE  HubTypes'
  <2>1. UNCHANGED <<dim, lamp, fader, held>>
    BY <1>7 DEF Hub!Store
  <2>2. Hub!TypeOK'
    BY <1>1, <1>7, <2>1, StoreEffect DEF Hub!TypeOK
  <2>3. Owned'
    BY <1>1, <1>7, <2>1, StoreEffect DEF Owned
  <2>4. QED
    BY <2>2, <2>3 DEF HubTypes
<1>8. ASSUME NEW t \in Threads, Hub!Tell(t)
      PROVE  HubTypes'
  <2>1. UNCHANGED <<activated, dim, fader, held>>
    BY <1>8 DEF Hub!Tell
  <2>2. Hub!TypeOK'
    BY <1>1, <1>8, <2>1, TellEffect DEF Hub!TypeOK
  <2>3. Owned'
    BY <1>1, <1>8, <2>1, TellEffect DEF Owned, Hub!Idle
  <2>4. QED
    BY <2>2, <2>3 DEF HubTypes
<1>9. ASSUME NEW t \in Threads,
             \/ t \in Dimmers /\ \E v \in Levels : Hub!Dim(t, v)
             \/ Hub!StoreDim(t) \/ Hub!TellDim(t)
      PROVE  HubTypes'
  <2>1. UNCHANGED <<activated, lamp, held>>
    BY <1>9 DEF Hub!Dim, Hub!StoreDim, Hub!TellDim
  <2>2. Hub!TypeOK'
    BY <1>1, <1>9, <2>1, DimEffect DEF Hub!TypeOK
  <2>3. op'[t].stage \in {"storeDim", "tellDim"} => t \in Dimmers
    BY <1>1, <1>9 DEF Owned, Hub!Dim, Hub!StoreDim, Hub!TellDim, Hub!Idle, Hub!TypeOK
  <2>4. Owned'
    BY <1>1, <1>9, <2>1, <2>3, DimEffect DEF Owned
  <2>5. QED
    BY <2>2, <2>4 DEF HubTypes
<1>10. QED
  BY <1>2, <1>3, <1>4, <1>5, <1>6, <1>7, <1>8, <1>9, HubCases DEF HubStep

-----------------------------------------------------------------------------
(* Flashing.                                                               *)

(* The FLASH of a slot is there for a button that is down, or is about to  *)
(* be taken away; what is about to be stored brings it for a button that   *)
(* is down.                                                                *)
FlashOf(s) ==
  /\ Hub!FLASH \in activated[s] =>
       \E t \in Threads : s \in held[t] \/ Pending(t, "release", s)
  /\ \A t \in Threads :
       /\ (Pending(t, "press", s) \/ Pending(t, "set", s)) /\ Hub!FLASH \in op[t].new =>
            s \in held[t]
       /\ Pending(t, "release", s) => Hub!FLASH \notin op[t].new

FlashIsHeld == \A s \in FlashSlots : Hub!Unshared(s) => FlashOf(s)

(* A button that is down has its FLASH, or is about to store it, unless a  *)
(* forced selection refused the press.                                     *)
HeldOf(s) ==
  \A t \in Threads :
    /\ s \in held[t] => Hub!FLASH \in activated[s] \/ Pending(t, "press", s)
    /\ Pending(t, "press", s) => Hub!FLASH \in op[t].new
    /\ Pending(t, "set", s) /\ s \in held[t] => Hub!FLASH \in op[t].new
    /\ Pending(t, "release", s) => s \notin held[t]

HeldHasFlash == ~Forced => \A s \in FlashSlots : Hub!Unshared(s) => HeldOf(s)

FlashInv == HubTypes /\ FlashIsHeld /\ HeldHasFlash

LEMMA FlashInit == Hub!Init => FlashInv
BY HubInitTypes, HubConstants, ControllersAssumption
DEF Hub!Init, FlashInv, HubTypes, FlashIsHeld, FlashOf, HeldHasFlash, HeldOf, Pending,
    Hub!Idle, Hub!ThreadsAssumption

(* All that is done to an unshared slot is done by one thread.             *)
LEMMA OneWriter ==
  ASSUME Owned, NEW s \in Hub!Slots, Hub!Unshared(s), NEW t \in Threads, NEW u \in Threads,
         s \in Buttons[t] \cup SetSlots[t], s \in Buttons[u] \cup SetSlots[u]
  PROVE  t = u
BY DEF Hub!Unshared, Hub!WrittenBy

LEMMA WhoWrites ==
  ASSUME Owned, NEW t \in Threads, NEW s
  PROVE  /\ s \in held[t] => s \in Buttons[t]
         /\ op[t].stage \in {"loop", "store", "tell"} =>
              op[t].slot \in Buttons[t] \cup SetSlots[t]
         /\ \A call : Pending(t, call, s) => s \in Buttons[t] \cup SetSlots[t]
BY DEF Owned, Pending

LEMMA FreeIsNotPending ==
  ASSUME NEW t, NEW call, NEW s, Hub!Free(t)
  PROVE  ~Pending(t, call, s)
BY DEF Hub!Free, Hub!Idle, Pending

(* A press of the slot or of another one.                                  *)
LEMMA FlashPressed ==
  ASSUME FlashInv, NEW t \in Threads, NEW p \in Buttons[t], Hub!ButtonPressed(t, p),
         NEW s \in FlashSlots, Hub!Unshared(s)
  PROVE  FlashOf(s)' /\ (~Forced => HeldOf(s)')
<1>1. Hub!TypeOK /\ Owned /\ FlashOf(s) /\ (~Forced => HeldOf(s)) /\ s \in Hub!Slots
  BY ControllersAssumption DEF FlashInv, HubTypes, FlashIsHeld, HeldHasFlash, Hub!ThreadsAssumption
<1>2. /\ held' = [held EXCEPT ![t] = @ \cup {p}] /\ activated' = activated /\ Hub!Free(t)
      /\ \A u \in Threads \ {t} : op'[u] = op[u]
      /\ \/ Hub!PressRefused(p) /\ op' = op
         \/ Pending(t, "press", p)' /\ op'[t].new = Hub!PressedFlags(p)
  BY <1>1, PressedEffect DEF Hub!ButtonPressed
<1>3. /\ \A u \in Threads \ {t} : held'[u] = held[u]
      /\ held'[t] = held[t] \cup {p}
  BY <1>1, <1>2 DEF Hub!TypeOK
<1>4. \A call : ~Pending(t, call, s)
  BY <1>2, FreeIsNotPending
<1>5. FlashOf(s)'
  BY SMTT(30), <1>1, <1>2, <1>3, <1>4 DEF FlashOf, Pending
<1>6. ASSUME ~Forced PROVE HeldOf(s)'
  <2>1. CASE p = s
    <3>1. Hub!PressedFlags(s) = activated[s] \cup {Hub!FLASH}
      BY DEF Hub!PressedFlags
    <3>2. Hub!PressRefused(s) => Hub!FLASH \in activated[s]
      BY <1>6, <3>1 DEF Hub!PressRefused
    <3>3. QED
      BY <1>1, <1>2, <1>3, <1>4, <1>6, <2>1, <3>1, <3>2 DEF HeldOf, Pending
  <2>2. CASE p # s
    BY <1>1, <1>2, <1>3, <1>4, <1>6, <2>2 DEF HeldOf, Pending
  <2>3. QED
    BY <2>1, <2>2
<1>7. QED
  BY <1>5, <1>6

LEMMA FlashReleased ==
  ASSUME FlashInv, NEW t \in Threads, NEW p \in Buttons[t], Hub!ButtonReleased(t, p),
         NEW s \in FlashSlots, Hub!Unshared(s)
  PROVE  FlashOf(s)' /\ (~Forced => HeldOf(s)')
<1>1. Hub!TypeOK /\ Owned /\ FlashOf(s) /\ (~Forced => HeldOf(s)) /\ s \in Hub!Slots
  BY ControllersAssumption DEF FlashInv, HubTypes, FlashIsHeld, HeldHasFlash, Hub!ThreadsAssumption
<1>2. /\ held' = [held EXCEPT ![t] = @ \ {p}] /\ activated' = activated /\ Hub!Free(t)
      /\ \A u \in Threads \ {t} : op'[u] = op[u]
      /\ IF p \in FlashSlots /\ Hub!FLASH \in activated[p]
         THEN Pending(t, "release", p)' /\ op'[t].new = activated[p] \ {Hub!FLASH}
         ELSE op' = op
  BY <1>1, ReleasedEffect DEF Hub!ButtonReleased
<1>3. /\ \A u \in Threads \ {t} : held'[u] = held[u]
      /\ held'[t] = held[t] \ {p}
  BY <1>1, <1>2 DEF Hub!TypeOK
<1>4. \A call : ~Pending(t, call, s)
  BY <1>2, FreeIsNotPending
<1>5. CASE p = s
  <2>1. CASE Hub!FLASH \in activated[s]
    <3>1. Pending(t, "release", s)' /\ op'[t].new = activated[s] \ {Hub!FLASH}
      BY <1>2, <1>5, <2>1
    <3>2. \A call : Pending(t, call, s)' => call = "release"
      BY <3>1 DEF Pending
    <3>3. QED
      BY <1>1, <1>2, <1>3, <1>4, <1>5, <3>1, <3>2 DEF FlashOf, HeldOf, Pending
  <2>2. CASE Hub!FLASH \notin activated[s]
    <3>1. op' = op
      BY <1>2, <1>5, <2>2
    <3>2. QED
      BY <1>1, <1>2, <1>3, <1>4, <1>5, <2>2, <3>1 DEF FlashOf, HeldOf, Pending
  <2>3. QED
    BY <2>1, <2>2
<1>6. CASE p # s
  <2>1. \A call : ~Pending(t, call, s)'
    BY <1>2, <1>4, <1>6 DEF Pending
  <2>2. QED
    BY <1>1, <1>2, <1>3, <1>4, <1>6, <2>1 DEF FlashOf, HeldOf, Pending
<1>7. QED
  BY <1>5, <1>6

LEMMA FlashSet ==
  ASSUME FlashInv, NEW t \in Threads, NEW p \in SetSlots[t], NEW on \in BOOLEAN,
         Hub!SetSlotActive(t, p, on), NEW s \in FlashSlots, Hub!Unshared(s)
  PROVE  FlashOf(s)' /\ (~Forced => HeldOf(s)')
<1>1. Hub!TypeOK /\ Owned /\ FlashOf(s) /\ (~Forced => HeldOf(s)) /\ s \in Hub!Slots
  BY ControllersAssumption DEF FlashInv, HubTypes, FlashIsHeld, HeldHasFlash, Hub!ThreadsAssumption
<1>2. /\ UNCHANGED <<activated, held>> /\ Hub!Free(t)
      /\ \A u \in Threads \ {t} : op'[u] = op[u]
      /\ Pending(t, "set", p)'
      /\ Hub!FLASH \in op'[t].new <=> Hub!FLASH \in activated[p]
  BY <1>1, SetEffect DEF Hub!SetSlotActive
<1>3. \A call : ~Pending(t, call, s) /\ (Pending(t, call, s)' => call = "set" /\ p = s)
  BY <1>2, FreeIsNotPending DEF Pending
<1>4. ASSUME p = s, Hub!FLASH \in activated[s]
      PROVE  s \in held[t]
  <2>1. PICK u \in Threads : s \in held[u] \/ Pending(u, "release", s)
    BY <1>1, <1>4 DEF FlashOf
  <2>2. u = t
    BY <1>1, <1>4, <2>1, WhoWrites, OneWriter
  <2>3. QED
    BY <1>3, <2>1, <2>2
<1>5. FlashOf(s)'
  BY <1>1, <1>2, <1>3, <1>4 DEF FlashOf, Pending
<1>6. ASSUME ~Forced PROVE HeldOf(s)'
  BY <1>1, <1>2, <1>3, <1>6 DEF HeldOf, Pending
<1>7. QED
  BY <1>5, <1>6

LEMMA FlashLoop ==
  ASSUME FlashInv, NEW t \in Threads, Hub!ReleaseLoop(t),
         NEW s \in FlashSlots, Hub!Unshared(s)
  PROVE  FlashOf(s)' /\ (~Forced => HeldOf(s)')
<1>1. Hub!TypeOK /\ Owned /\ FlashOf(s) /\ (~Forced => HeldOf(s)) /\ s \in Hub!Slots
  BY ControllersAssumption DEF FlashInv, HubTypes, FlashIsHeld, HeldHasFlash, Hub!ThreadsAssumption
<1>2. held' = held /\ (Hub!FLASH \in activated'[s] <=> Hub!FLASH \in activated[s])
  BY <1>1, LoopEffect DEF Hub!ReleaseLoop
<1>3. \A u \in Threads : /\ op'[u].new = op[u].new
                         /\ \A call : Pending(u, call, s)' <=> Pending(u, call, s)
  <2>1. ASSUME NEW u \in Threads
        PROVE  /\ op'[u].new = op[u].new
               /\ \A call : Pending(u, call, s)' <=> Pending(u, call, s)
    <3>1. CASE u = t
      BY <1>1, <3>1, LoopEffect DEF Pending
    <3>2. CASE u # t
      BY <1>1, <3>2, LoopEffect DEF Pending
    <3>3. QED
      BY <3>1, <3>2
  <2>2. QED
    BY <2>1
<1>4. QED
  BY <1>1, <1>2, <1>3 DEF FlashOf, HeldOf

LEMMA FlashStore ==
  ASSUME FlashInv, NEW t \in Threads, Hub!Store(t),
         NEW s \in FlashSlots, Hub!Unshared(s)
  PROVE  FlashOf(s)' /\ (~Forced => HeldOf(s)')
<1>1. Hub!TypeOK /\ Owned /\ FlashOf(s) /\ (~Forced => HeldOf(s)) /\ s \in Hub!Slots
  BY ControllersAssumption DEF FlashInv, HubTypes, FlashIsHeld, HeldHasFlash, Hub!ThreadsAssumption
<1>2. /\ held' = held
      /\ \A u \in Threads \ {t} : op'[u] = op[u]
      /\ op[t].stage = "store" /\ op[t].call \in {"press", "release", "set"}
      /\ op'[t].stage = "tell"
      /\ s # op[t].slot => activated'[s] = activated[s]
      /\ \/ activated'[op[t].slot] = op[t].new
         \/ op[t].call = "release" /\ Hub!FLASH \notin activated'[op[t].slot]
  BY <1>1, StoreEffect DEF Hub!Store
<1>3. \A call : ~Pending(t, call, s)'
  BY <1>2 DEF Pending
<1>4. CASE op[t].slot # s
  <2>1. \A u \in Threads : \A call : Pending(u, call, s)' <=> Pending(u, call, s)
    BY <1>2, <1>3, <1>4 DEF Pending
  <2>2. \A u \in Threads : \A call : Pending(u, call, s) => op'[u] = op[u]
    BY <1>2, <1>4 DEF Pending
  <2>3. QED
    BY <1>1, <1>2, <1>4, <2>1, <2>2 DEF FlashOf, HeldOf
<1>5. CASE op[t].slot = s
  <2>1. Pending(t, op[t].call, s)
    BY <1>2, <1>5 DEF Pending
  <2>2. \A u \in Threads \ {t} : \A call : ~Pending(u, call, s) /\ ~Pending(u, call, s)'
                                       /\ s \notin held[u]
    <3>1. ASSUME NEW u \in Threads, NEW call, Pending(u, call, s) \/ s \in held[u]
          PROVE  u = t
      BY <1>1, <2>1, <3>1, WhoWrites, OneWriter
    <3>2. QED
      BY <1>2, <3>1 DEF Pending
  <2>3. CASE op[t].call = "release"
    <3>1. Hub!FLASH \notin activated'[s]
      BY <1>1, <1>2, <1>5, <2>1, <2>3 DEF FlashOf
    <3>2. ~Forced => s \notin held[t]
      BY <1>1, <2>1, <2>3 DEF HeldOf
    <3>3. QED
      BY <1>2, <1>3, <2>2, <3>1, <3>2 DEF FlashOf, HeldOf
  <2>4. CASE op[t].call # "release"
    <3>1. activated'[s] = op[t].new
      BY <1>2, <1>5, <2>4
    <3>2. Hub!FLASH \in activated'[s] => s \in held[t]
      BY <1>1, <1>2, <2>1, <2>4, <3>1 DEF FlashOf
    <3>3. ~Forced /\ s \in held[t] => Hub!FLASH \in activated'[s]
      BY <1>1, <1>2, <2>1, <2>4, <3>1 DEF HeldOf
    <3>4. QED
      BY <1>2, <1>3, <2>2, <3>2, <3>3 DEF FlashOf, HeldOf
  <2>5. QED
    BY <2>3, <2>4
<1>6. QED
  BY <1>4, <1>5

(* The steps that store nothing: tell, and the dimmer's.                   *)
LEMMA FlashOther ==
  ASSUME FlashInv, NEW t \in Threads,
         Hub!Tell(t) \/ (\E v \in Levels : Hub!Dim(t, v)) \/ Hub!StoreDim(t) \/ Hub!TellDim(t),
         NEW s \in FlashSlots, Hub!Unshared(s)
  PROVE  FlashOf(s)' /\ (~Forced => HeldOf(s)')
<1>1. Hub!TypeOK /\ Owned /\ FlashOf(s) /\ (~Forced => HeldOf(s))
  BY DEF FlashInv, HubTypes, FlashIsHeld, HeldHasFlash
<1>2. UNCHANGED <<activated, held>>
  BY DEF Hub!Tell, Hub!Dim, Hub!StoreDim, Hub!TellDim
<1>3. /\ \A u \in Threads \ {t} : op'[u] = op[u]
      /\ op[t].stage \notin {"loop", "store"} /\ op'[t].stage \notin {"loop", "store"}
  <2>1. CASE Hub!Tell(t)
    BY <1>1, <2>1, TellEffect DEF Hub!Idle
  <2>2. CASE ~Hub!Tell(t)
    BY <1>1, <2>2, DimEffect
  <2>3. QED
    BY <2>1, <2>2
<1>4. \A u \in Threads : \A call : Pending(u, call, s)' <=> Pending(u, call, s)
  BY <1>3 DEF Pending
<1>5. \A u \in Threads : \A call : Pending(u, call, s) => op'[u] = op[u]
  BY <1>3 DEF Pending
<1>6. QED
  BY <1>1, <1>2, <1>4, <1>5 DEF FlashOf, HeldOf

LEMMA FlashNext == FlashInv /\ HubStep => FlashInv'
<1> SUFFICES ASSUME FlashInv, HubStep PROVE FlashInv'
  OBVIOUS
<1>1. HubTypes'
  BY HubTypesStep DEF FlashInv
<1>2. ASSUME NEW s \in FlashSlots, Hub!Unshared(s)
      PROVE  FlashOf(s)' /\ (~Forced => HeldOf(s)')
  <2>1. CASE UNCHANGED Hub!vars
    <3>1. FlashOf(s) /\ (~Forced => HeldOf(s))
      BY <1>2 DEF FlashInv, FlashIsHeld, HeldHasFlash
    <3>2. QED
      BY <2>1, <3>1 DEF Hub!vars, FlashOf, HeldOf, Pending
  <2>2. CASE Hub!Next
    BY <1>2, <2>2, HubCases, FlashPressed, FlashReleased, FlashSet, FlashLoop, FlashStore, FlashOther
  <2>3. QED
    BY <2>1, <2>2 DEF HubStep
<1>3. FlashIsHeld' /\ HeldHasFlash'
  BY <1>2 DEF FlashIsHeld, HeldHasFlash, Hub!Unshared, Hub!WrittenBy, Hub!Slots
<1>4. QED
  BY <1>1, <1>3 DEF FlashInv

-----------------------------------------------------------------------------
(* The fader.                                                              *)

OneDimmer == \A t, u \in Dimmers : t = u

(* With one thread for the dimmer, what it is about to tell is what it     *)
(* stored, and a fader that is behind is about to be told.                 *)
FaderFollows ==
  OneDimmer =>
    /\ \A t \in Threads : op[t].stage = "tellDim" => op[t].value = dim
    /\ fader # dim => \E t \in Threads : op[t].stage = "tellDim"

LEMMA FaderInit == Hub!Init => FaderFollows
BY DEF Hub!Init, FaderFollows, Hub!Idle

(* A step that is not the dimmer's leaves the dimmer and what is about to  *)
(* be told of it alone.                                                    *)
LEMMA FaderOther ==
  ASSUME HubTypes, FaderFollows, UNCHANGED <<dim, fader>>, NEW t \in Threads,
         \A u \in Threads \ {t} : op'[u] = op[u],
         op[t].stage # "tellDim", op'[t].stage # "tellDim"
  PROVE  FaderFollows'
<1>1. \A u \in Threads : op'[u].stage = "tellDim" <=> op[u].stage = "tellDim"
  OBVIOUS
<1>2. \A u \in Threads : op[u].stage = "tellDim" => op'[u] = op[u]
  OBVIOUS
<1>3. QED
  BY <1>1, <1>2 DEF FaderFollows, OneDimmer

LEMMA FaderStored ==
  ASSUME HubTypes, FaderFollows, NEW t \in Threads, Hub!StoreDim(t)
  PROVE  FaderFollows'
<1>1. op[t] \in [stage : {"storeDim", "tellDim"}, value : Levels]
  BY DEF HubTypes, Hub!StoreDim, Hub!TypeOK, Hub!Op, Hub!Idle
<1> DEFINE entry == [op[t] EXCEPT !.stage = "tellDim"]
<1>2. entry.stage = "tellDim" /\ entry.value = op[t].value
  BY <1>1
<1>3. op' = [op EXCEPT ![t] = entry] /\ dim' = op[t].value
  BY DEF Hub!StoreDim
<1> HIDE DEF entry
<1>4. op'[t] = entry /\ \A u \in Threads \ {t} : op'[u] = op[u]
  BY <1>3 DEF HubTypes, Hub!TypeOK
<1>5. OneDimmer => \A u \in Threads \ {t} : op[u].stage # "tellDim"
  BY DEF HubTypes, Owned, OneDimmer, Hub!StoreDim
<1>6. QED
  BY <1>2, <1>3, <1>4, <1>5 DEF FaderFollows, OneDimmer

LEMMA FaderTold ==
  ASSUME HubTypes, FaderFollows, NEW t \in Threads, Hub!TellDim(t)
  PROVE  FaderFollows'
<1>1. /\ op'[t] = Hub!Idle /\ \A u \in Threads \ {t} : op'[u] = op[u]
      /\ fader' = op[t].value /\ dim' = dim
  BY DEF HubTypes, Hub!TypeOK, Hub!TellDim
<1>2. OneDimmer => op[t].value = dim
  BY DEF FaderFollows, Hub!TellDim
<1>3. Hub!Idle.stage # "tellDim"
  BY DEF Hub!Idle
<1>4. QED
  BY <1>1, <1>2, <1>3 DEF FaderFollows, OneDimmer

LEMMA FaderNext == HubTypes /\ FaderFollows /\ HubStep => FaderFollows'
<1> SUFFICES ASSUME HubTypes, FaderFollows, HubStep PROVE FaderFollows'
  OBVIOUS
<1>1. Hub!TypeOK /\ Owned
  BY DEF HubTypes
<1>2. CASE UNCHANGED Hub!vars
  BY <1>2 DEF Hub!vars, FaderFollows, OneDimmer
<1>3. ASSUME NEW t \in Threads, NEW s \in Buttons[t], Hub!ButtonPressed(t, s)
      PROVE  FaderFollows'
  <2>1. UNCHANGED <<dim, fader>> /\ op[t].stage = "idle"
    BY <1>3 DEF Hub!ButtonPressed, Hub!Free, Hub!Idle
  <2>2. op'[t].stage # "tellDim" /\ \A u \in Threads \ {t} : op'[u] = op[u]
    BY <1>1, <1>3, <2>1, PressedEffect DEF Pending
  <2>3. QED
    BY <2>1, <2>2, FaderOther
<1>4. ASSUME NEW t \in Threads, NEW s \in Buttons[t], Hub!ButtonReleased(t, s)
      PROVE  FaderFollows'
  <2>1. UNCHANGED <<dim, fader>> /\ op[t].stage = "idle"
    BY <1>4 DEF Hub!ButtonReleased, Hub!Free, Hub!Idle
  <2>2. op'[t].stage # "tellDim" /\ \A u \in Threads \ {t} : op'[u] = op[u]
    BY <1>1, <1>4, <2>1, ReleasedEffect DEF Pending
  <2>3. QED
    BY <2>1, <2>2, FaderOther
<1>5. ASSUME NEW t \in Threads, NEW s \in SetSlots[t], NEW on \in BOOLEAN,
             Hub!SetSlotActive(t, s, on)
      PROVE  FaderFollows'
  <2>1. UNCHANGED <<dim, fader>> /\ op[t].stage = "idle"
    BY <1>5 DEF Hub!SetSlotActive, Hub!Free, Hub!Idle
  <2>2. op'[t].stage # "tellDim" /\ \A u \in Threads \ {t} : op'[u] = op[u]
    BY <1>1, <1>5, SetEffect DEF Pending
  <2>3. QED
    BY <2>1, <2>2, FaderOther
<1>6. ASSUME NEW t \in Threads, Hub!ReleaseLoop(t) PROVE FaderFollows'
  <2>1. UNCHANGED <<dim, fader>>
    BY <1>6 DEF Hub!ReleaseLoop
  <2>2. QED
    BY <1>1, <1>6, <2>1, LoopEffect, FaderOther
<1>7. ASSUME NEW t \in Threads, Hub!Store(t) PROVE FaderFollows'
  <2>1. UNCHANGED <<dim, fader>>
    BY <1>7 DEF Hub!Store
  <2>2. QED
    BY <1>1, <1>7, <2>1, StoreEffect, FaderOther
<1>8. ASSUME NEW t \in Threads, Hub!Tell(t) PROVE FaderFollows'
  <2>1. UNCHANGED <<dim, fader>>
    BY <1>8 DEF Hub!Tell
  <2>2. op[t].stage # "tellDim" /\ op'[t].stage # "tellDim"
        /\ \A u \in Threads \ {t} : op'[u] = op[u]
    BY <1>1, <1>8, TellEffect DEF Hub!Idle
  <2>3. QED
    BY <2>1, <2>2, FaderOther
<1>9. ASSUME NEW t \in Threads, NEW v \in Levels, Hub!Dim(t, v) PROVE FaderFollows'
  <2>1. UNCHANGED <<dim, fader>> /\ op[t].stage = "idle"
    BY <1>9 DEF Hub!Dim, Hub!Free, Hub!Idle
  <2>2. op'[t].stage = "storeDim" /\ \A u \in Threads \ {t} : op'[u] = op[u]
    BY <1>1, <1>9 DEF Hub!Dim, Hub!TypeOK
  <2>3. QED
    BY <2>1, <2>2, FaderOther
<1>10. QED
  BY <1>2, <1>3, <1>4, <1>5, <1>6, <1>7, <1>8, <1>9, FaderStored, FaderTold, HubCases
  DEF HubStep

-----------------------------------------------------------------------------
(* The hub in the composition.                                             *)

ThreadsInv == FlashInv /\ FaderFollows

LEMMA ThreadsInvImplies ==
  ThreadsInv => Hub!TypeOK /\ Hub!NoStuckFlash /\ Hub!HeldIsOn /\ Hub!FaderSettles
<1> SUFFICES ASSUME ThreadsInv
             PROVE  Hub!TypeOK /\ Hub!NoStuckFlash /\ Hub!HeldIsOn /\ Hub!FaderSettles
  OBVIOUS
<1>1. Hub!TypeOK /\ FlashIsHeld /\ HeldHasFlash /\ FaderFollows
  BY DEF ThreadsInv, FlashInv, HubTypes
<1>2. Hub!NoStuckFlash
  BY <1>1, FreeIsNotPending DEF FlashIsHeld, FlashOf, Hub!NoStuckFlash, Hub!Quiet
<1>3. Hub!HeldIsOn
  BY <1>1, FreeIsNotPending DEF HeldHasFlash, HeldOf, Hub!HeldIsOn, Hub!Quiet
<1>4. Hub!FaderSettles
  BY <1>1 DEF FaderFollows, OneDimmer, Hub!FaderSettles, Hub!Quiet, Hub!Free, Hub!Idle
<1>5. QED
  BY <1>1, <1>2, <1>3, <1>4

(* A step of the program is a step of the hub or leaves the hub alone.     *)
LEMMA HubSteps == [Next]_vars => HubStep
BY DEF Next, InHub, InNative, InPorts, InBridge, InPage, HubStep, vars, threadVars, Hub!vars

(* Threads that share the hub without a lock leave no slot flashing that   *)
(* nobody holds and lose no press of a slot that only one of them writes,  *)
(* and a fader that one of them moves ends at what the hub has.            *)
THEOREM FlashesAreFreed == Spec => []NoStuckFlash
<1>1. Init => ThreadsInv
  BY FlashInit, FaderInit DEF Init, ThreadsInv
<1>2. ThreadsInv /\ [Next]_vars => ThreadsInv'
  BY HubSteps, FlashNext, FaderNext DEF ThreadsInv, FlashInv
<1>3. ThreadsInv => NoStuckFlash
  BY ThreadsInvImplies DEF NoStuckFlash
<1>4. QED
  BY <1>1, <1>2, <1>3, PTL DEF Spec

-----------------------------------------------------------------------------
(* Remainders.                                                             *)

LEMMA DivMod ==
  ASSUME NEW a \in Int, NEW b \in Nat \ {0}
  PROVE  /\ a \div b \in Int /\ a % b \in Int
         /\ a % b >= 0 /\ a % b < b
         /\ a = b * (a \div b) + (a % b)
<1>1. a \div b \in Int
  OBVIOUS
<1>2. a % b \in 0 .. b - 1
  OBVIOUS
<1>3. a = b * (a \div b) + (a % b)
  OBVIOUS
<1>4. QED
  BY <1>1, <1>2, <1>3

(* A larger quotient outweighs every remainder.                            *)
LEMMA QuotientDecides ==
  ASSUME NEW b \in Nat \ {0}, NEW p \in Int, NEW q \in Int, NEW r \in 0 .. b - 1,
         NEW s \in 0 .. b - 1, p < q
  PROVE  b * p + r < b * q + s
<1>1. b * (q - p) >= b
  <2>1. q - p >= 1
    OBVIOUS
  <2>2. b * (q - p - 1) >= 0
    BY <2>1
  <2>3. b * (q - p) = b * (q - p - 1) + b
    OBVIOUS
  <2>4. b * (q - p - 1) \in Int
    OBVIOUS
  <2>5. QED
    BY <2>2, <2>3, <2>4
<1>2. b * q = b * p + b * (q - p)
  OBVIOUS
<1>3. b * p \in Int /\ b * q \in Int /\ b * (q - p) \in Int
  OBVIOUS
<1>4. QED
  BY <1>1, <1>2, <1>3

LEMMA Quotient ==
  ASSUME NEW b \in Nat \ {0}, NEW q \in Int, NEW r \in 0 .. b - 1
  PROVE  (b * q + r) \div b = q /\ (b * q + r) % b = r
<1> DEFINE a == b * q + r
           p == a \div b
           s == a % b
<1>1. a \in Int
  OBVIOUS
<1>2. p \in Int /\ s \in 0 .. b - 1 /\ a = b * p + s
  BY <1>1, DivMod
<1> HIDE DEF p, s
<1>3. ~(p < q) /\ ~(q < p)
  BY <1>2, QuotientDecides
<1>4. p = q
  BY <1>2, <1>3
<1>5. s = r
  <2>1. b * q \in Int
    OBVIOUS
  <2>2. QED
    BY <1>2, <1>4, <2>1
<1>6. QED
  BY <1>4, <1>5 DEF p, s

-----------------------------------------------------------------------------
(* Pages: the places of the hub in the order of its status.                *)

LEMMA PageConstants ==
  /\ MaxColumns \in Nat \ {0} /\ PageSlots \in Nat \ {0}
  /\ MaxSessions \in Nat \ {0} /\ MaxInbox \in Nat \ {0} /\ OtherThread \in BOOLEAN
BY ControllersAssumption DEF Page!PageAssumption

Grid == DOMAIN slots

Before(q, at) == q[1] < at[1] \/ (q[1] = at[1] /\ q[2] < at[2])

GridOf(n) == (1 .. n) \X (1 .. PageSlots)

LEMMA GridOfHub ==
  ASSUME slots \in Page!Hubs
  PROVE  /\ Page!Columns \in 1 .. MaxColumns /\ Grid = GridOf(Page!Columns)
         /\ slots \in [Grid -> BOOLEAN] /\ Grid \subseteq Page!Places
<1>1. PICK n \in 1 .. MaxColumns : slots \in [GridOf(n) -> BOOLEAN]
  BY DEF Page!Hubs, GridOf
<1>2. Grid = GridOf(n)
  BY <1>1 DEF Grid
<1>3. Page!Columns = n
  <2> DEFINE S == {p[1] : p \in DOMAIN slots}
  <2>1. S = 1 .. n
    <3>1. \A c \in 1 .. n : <<c, 1>> \in DOMAIN slots
      BY <1>2, PageConstants DEF Grid, GridOf
    <3>2. \A c \in 1 .. n : <<c, 1>>[1] = c
      OBVIOUS
    <3>3. \A c \in 1 .. n : c \in S
      BY <3>1, <3>2
    <3>4. \A p \in DOMAIN slots : p[1] \in 1 .. n
      BY <1>2 DEF Grid, GridOf
    <3>5. QED
      BY <3>3, <3>4
  <2>2. n \in S /\ \A x \in S : x <= n
    BY <2>1, PageConstants
  <2>3. \A x \in S : (\A y \in S : x >= y) => x = n
    BY <2>1, <2>2, PageConstants
  <2>4. \A x \in S : (\A y \in S : y <= x) => x = n
    BY <2>1, <2>2, PageConstants
  <2> HIDE DEF S
  <2>5. Page!Max(S) = n
    BY <2>1, <2>2, <2>3, <2>4, PageConstants DEF Page!Max
  <2>6. QED
    BY <2>5 DEF S, Page!Columns
<1>4. Grid \subseteq Page!Places
  BY <1>2, PageConstants DEF GridOf, Page!Places
<1>5. QED
  BY <1>1, <1>2, <1>3, <1>4

LEMMA BeforeOrders ==
  ASSUME NEW n \in Nat, NEW p \in GridOf(n), NEW q \in GridOf(n), NEW r \in GridOf(n)
  PROVE  /\ ~Before(p, p)
         /\ Before(p, q) \/ p = q \/ Before(q, p)
         /\ Before(p, q) /\ Before(q, r) => Before(p, r)
<1>1. /\ p[1] \in Int /\ p[2] \in Int /\ q[1] \in Int /\ q[2] \in Int
      /\ r[1] \in Int /\ r[2] \in Int
  BY PageConstants DEF GridOf
<1>2. p[1] = q[1] /\ p[2] = q[2] => p = q
  BY DEF GridOf
<1>3. QED
  BY <1>1, <1>2 DEF Before

Contents(s) == {s[i] : i \in 1 .. Len(s)}

LEMMA StatusOrderIs ==
  ASSUME NEW n \in Nat \ {0}
  PROVE  LET order == Page!StatusOrder(n) IN
         /\ order \in Seq(GridOf(n)) /\ Len(order) = n * PageSlots
         /\ \A i, j \in 1 .. Len(order) : i < j => Before(order[i], order[j])
         /\ Contents(order) = GridOf(n)
<1> DEFINE S == PageSlots
           order == Page!StatusOrder(n)
           q(i) == (i - 1) \div S
           r(i) == (i - 1) % S
<1>1. S \in Nat \ {0} /\ n * S \in Nat
  BY PageConstants
<1>2. ASSUME NEW i \in 1 .. n * S
      PROVE  /\ q(i) \in 0 .. n - 1 /\ r(i) \in 0 .. S - 1
             /\ i - 1 = S * q(i) + r(i)
  <2>1. q(i) \in Int /\ r(i) \in 0 .. S - 1 /\ i - 1 = S * q(i) + r(i)
    BY <1>1, DivMod
  <2> HIDE DEF q, r, S
  <2>2. ~(n <= q(i))
    <3>1. SUFFICES ASSUME n <= q(i) PROVE FALSE
      OBVIOUS
    <3>2. S * (n - 1) + (S - 1) < S * q(i) + r(i)
      <4>1. n - 1 < q(i) /\ n - 1 \in Int /\ S - 1 \in 0 .. S - 1
        BY <1>1, <2>1, <3>1
      <4>2. QED
        BY <1>1, <2>1, <4>1, QuotientDecides
    <3>3. S * (n - 1) + (S - 1) = n * S - 1
      BY <1>1
    <3>4. QED
      BY <1>1, <2>1, <3>2, <3>3
  <2>3. ~(q(i) < 0)
    <3>1. SUFFICES ASSUME q(i) < 0 PROVE FALSE
      OBVIOUS
    <3>2. S * q(i) + r(i) < S * 0 + 0
      BY <1>1, <2>1, <3>1, QuotientDecides
    <3>3. QED
      BY <1>1, <2>1, <3>2
  <2>4. QED
    BY <2>1, <2>2, <2>3
<1>3. /\ order = [i \in 1 .. n * S |-> <<q(i) + 1, r(i) + 1>>]
      /\ \A i \in 1 .. n * S : <<q(i) + 1, r(i) + 1>> \in GridOf(n)
  <2>1. order = [i \in 1 .. n * S |-> <<q(i) + 1, r(i) + 1>>]
    BY DEF Page!StatusOrder
  <2> HIDE DEF q, r
  <2>2. \A i \in 1 .. n * S : q(i) + 1 \in 1 .. n /\ r(i) + 1 \in 1 .. S
    BY <1>1, <1>2
  <2>3. QED
    BY <2>1, <2>2 DEF GridOf
<1>4. order \in Seq(GridOf(n)) /\ Len(order) = n * S
  <2> HIDE DEF q, r, order, S
  <2>1. QED
    BY <1>1, <1>3
<1>5. ASSUME NEW i \in 1 .. n * S, NEW j \in 1 .. n * S, i < j
      PROVE  Before(order[i], order[j])
  <2> HIDE DEF q, r, order, S
  <2>1. /\ order[i][1] = q(i) + 1 /\ order[i][2] = r(i) + 1
        /\ order[j][1] = q(j) + 1 /\ order[j][2] = r(j) + 1
    BY <1>3
  <2>2. /\ q(i) \in Int /\ r(i) \in 0 .. S - 1 /\ i - 1 = S * q(i) + r(i)
        /\ q(j) \in Int /\ r(j) \in 0 .. S - 1 /\ j - 1 = S * q(j) + r(j)
    BY <1>2
  <2>3. ~(q(j) < q(i))
    <3>1. SUFFICES ASSUME q(j) < q(i) PROVE FALSE
      OBVIOUS
    <3>2. S * q(j) + r(j) < S * q(i) + r(i)
      BY <1>1, <2>2, <3>1, QuotientDecides
    <3>3. QED
      BY <1>1, <1>5, <2>2, <3>2
  <2>4. q(i) = q(j) => r(i) < r(j)
    <3>1. S * q(i) \in Int
      BY <1>1, <2>2
    <3>2. QED
      BY <1>1, <1>5, <2>2, <3>1
  <2>5. QED
    BY <1>1, <2>1, <2>2, <2>3, <2>4 DEF Before
<1>6. ASSUME NEW at \in GridOf(n) PROVE at \in Contents(order)
  <2> DEFINE i == S * (at[1] - 1) + (at[2] - 1) + 1
  <2>1. /\ at[1] \in Int /\ at[2] \in Int
        /\ at[1] - 1 \in 0 .. n - 1 /\ at[2] - 1 \in 0 .. S - 1 /\ at = <<at[1], at[2]>>
    BY PageConstants DEF GridOf
  <2>2. S * (at[1] - 1) \in Nat
    BY <1>1, <2>1
  <2>3. i \in 1 .. n * S
    <3>1. S * (at[1] - 1) + (at[2] - 1) < S * n + 0
      <4>1. at[1] - 1 < n /\ 0 \in 0 .. S - 1
        BY <1>1, <2>1
      <4>2. QED
        BY <1>1, <2>1, <4>1, QuotientDecides
    <3>2. QED
      BY <1>1, <2>1, <2>2, <3>1
  <2>4. i - 1 = S * (at[1] - 1) + (at[2] - 1)
    BY <1>1, <2>1, <2>2
  <2>5. q(i) = at[1] - 1 /\ r(i) = at[2] - 1
    BY <1>1, <2>1, <2>4, Quotient
  <2> HIDE DEF q, r, order, i
  <2>6. order[i] = at
    <3>1. q(i) + 1 = at[1] /\ r(i) + 1 = at[2]
      BY <1>1, <2>1, <2>5
    <3>2. order[i] = <<q(i) + 1, r(i) + 1>>
      BY <1>3, <2>3
    <3>3. QED
      BY <2>1, <3>1, <3>2
  <2>7. QED
    BY <1>4, <2>3, <2>6 DEF Contents
<1>7. Contents(order) \subseteq GridOf(n)
  <2> HIDE DEF order
  <2>1. QED
    BY <1>4, SMT DEF Contents
<1> HIDE DEF order, q, r
<1>8. QED
  BY <1>4, <1>5, <1>6, <1>7 DEF order

-----------------------------------------------------------------------------
(* Pages: a page and the messages under way to it.                         *)

IsFor(m, at) == "place" \in DOMAIN m /\ m.place = at

MessagesOf(n, grid) == {Page!Session(n)} \cup {Page!Active(at, v) : at \in grid, v \in BOOLEAN}

(* When the first n - 1 messages of box are received the page has at.      *)
Heard(has, box, at, n) == at \in has \/ \E j \in 1 .. n - 1 : IsFor(box[j], at)

(* No message meets a page that has not heard of the places before.        *)
InOrder(grid, has, box) ==
  \A i \in 1 .. Len(box), at \in grid, q \in grid :
    IsFor(box[i], at) /\ Before(q, at) => Heard(has, box, q, i)

(* The last the page hears of at is what the hub has.                      *)
Fresh(hub, has, sh, box, at) ==
  \/ /\ at \in has /\ sh[at] = hub[at]
     /\ \A j \in 1 .. Len(box) : ~IsFor(box[j], at)
  \/ \E j \in 1 .. Len(box) :
       /\ IsFor(box[j], at) /\ box[j].active = hub[at]
       /\ \A k \in j + 1 .. Len(box) : ~IsFor(box[k], at)

Prefix(grid, has) ==
  /\ has \subseteq grid
  /\ \A at \in has, q \in grid : Before(q, at) => q \in has

LEMMA MessageKinds ==
  ASSUME NEW n, NEW grid
  PROVE  /\ \A at : "session" \in DOMAIN Page!Session(n) /\ ~IsFor(Page!Session(n), at)
         /\ Page!Session(n).session = n
         /\ \A at, g, v : /\ "session" \notin DOMAIN Page!Active(at, v)
                          /\ IsFor(Page!Active(at, v), g) <=> g = at
                          /\ Page!Active(at, v).place = at
                          /\ Page!Active(at, v).active = v
BY DEF IsFor, Page!Session, Page!Active

LEMMA AppendFacts ==
  ASSUME NEW M, NEW box \in Seq(M), NEW m
  PROVE  /\ Len(Append(box, m)) = Len(box) + 1 /\ Len(box) \in Nat
         /\ \A i \in 1 .. Len(box) : Append(box, m)[i] = box[i]
         /\ Append(box, m)[Len(box) + 1] = m
         /\ m \in M => Append(box, m) \in Seq(M)
<1>1. box \in Seq(M \cup {m}) /\ m \in M \cup {m}
  OBVIOUS
<1>2. QED
  BY <1>1

LEMMA AppendHead ==
  ASSUME NEW M, NEW box \in Seq(M), NEW m
  PROVE  /\ Append(box, m) # <<>>
         /\ box # <<>> => Head(Append(box, m)) = Head(box)
         /\ box = <<>> => Head(Append(box, m)) = m
<1> DEFINE N == M \cup {m}
           long == Append(box, m)
<1>1. box \in Seq(N) /\ m \in N
  OBVIOUS
<1> HIDE DEF N
<1>2. long \in Seq(N) /\ Len(long) = Len(box) + 1 /\ Len(box) \in Nat
  BY <1>1
<1>3. long # <<>> /\ Head(long) = long[1]
  BY <1>2
<1>4. CASE box # <<>>
  <2>1. 1 \in 1 .. Len(box) /\ Head(box) = box[1]
    BY <1>1, <1>4
  <2>2. long[1] = box[1]
    BY <1>1, <2>1
  <2>3. QED
    BY <1>3, <1>4, <2>1, <2>2
<1>5. CASE box = <<>>
  <2>1. Len(box) = 0
    BY <1>5
  <2>2. long[1] = m
    BY <1>1, <2>1
  <2>3. QED
    BY <1>3, <1>5, <2>2
<1>6. QED
  BY <1>4, <1>5

LEMMA AppendInOrder ==
  ASSUME NEW M, NEW box \in Seq(M), NEW m, NEW grid, NEW has, InOrder(grid, has, box),
         \A at, q \in grid : IsFor(m, at) /\ Before(q, at) => Heard(has, box, q, Len(box) + 1)
  PROVE  InOrder(grid, has, Append(box, m))
<1> DEFINE new == Append(box, m)
<1>1. /\ Len(new) = Len(box) + 1 /\ Len(box) \in Nat
      /\ \A i \in 1 .. Len(box) : new[i] = box[i]
      /\ new[Len(box) + 1] = m
  BY AppendFacts
<1> HIDE DEF new
<1>2. ASSUME NEW i \in 1 .. Len(box) + 1, NEW q, Heard(has, box, q, i)
      PROVE  Heard(has, new, q, i)
  <2>1. \A j \in 1 .. i - 1 : new[j] = box[j]
    BY <1>1
  <2>2. QED
    BY <1>2, <2>1 DEF Heard
<1>3. ASSUME NEW i \in 1 .. Len(new), NEW at \in grid, NEW q \in grid,
             IsFor(new[i], at), Before(q, at)
      PROVE  Heard(has, new, q, i)
  <2>1. CASE i <= Len(box)
    <3>1. i \in 1 .. Len(box) /\ i \in 1 .. Len(box) + 1 /\ new[i] = box[i]
      BY <1>1, <2>1
    <3>2. QED
      BY <1>2, <1>3, <3>1 DEF InOrder
  <2>2. CASE i = Len(box) + 1
    BY <1>1, <1>2, <1>3, <2>2
  <2>3. QED
    BY <1>1, <2>1, <2>2
<1>4. QED
  BY <1>3 DEF InOrder, new

LEMMA AppendFresh ==
  ASSUME NEW M, NEW box \in Seq(M), NEW m, NEW has, NEW sh, NEW hub, NEW hub2, NEW at,
         \/ IsFor(m, at) /\ m.active = hub2[at]
         \/ ~IsFor(m, at) /\ hub2[at] = hub[at] /\ Fresh(hub, has, sh, box, at)
  PROVE  Fresh(hub2, has, sh, Append(box, m), at)
<1> DEFINE new == Append(box, m)
<1>1. /\ Len(new) = Len(box) + 1 /\ Len(box) \in Nat
      /\ \A i \in 1 .. Len(box) : new[i] = box[i]
      /\ new[Len(box) + 1] = m
  BY AppendFacts
<1> HIDE DEF new
<1>2. CASE IsFor(m, at) /\ m.active = hub2[at]
  <2>1. Len(box) + 1 \in 1 .. Len(new) /\ (Len(box) + 1) + 1 .. Len(new) = {}
    BY <1>1
  <2>2. QED
    BY <1>1, <1>2, <2>1 DEF Fresh, new
<1>3. CASE ~IsFor(m, at) /\ hub2[at] = hub[at] /\ Fresh(hub, has, sh, box, at)
  <2>1. CASE /\ at \in has /\ sh[at] = hub[at]
             /\ \A j \in 1 .. Len(box) : ~IsFor(box[j], at)
    <3>1. \A j \in 1 .. Len(new) : ~IsFor(new[j], at)
      BY <1>1, <1>3, <2>1
    <3>2. QED
      BY <1>3, <2>1, <3>1 DEF Fresh, new
  <2>2. ASSUME NEW j \in 1 .. Len(box), IsFor(box[j], at), box[j].active = hub[at],
               \A k \in j + 1 .. Len(box) : ~IsFor(box[k], at)
        PROVE  Fresh(hub2, has, sh, new, at)
    <3>1. j \in 1 .. Len(new) /\ new[j] = box[j]
      BY <1>1
    <3>2. \A k \in j + 1 .. Len(new) : ~IsFor(new[k], at)
      BY <1>1, <1>3, <2>2
    <3>3. QED
      BY <1>3, <2>2, <3>1, <3>2 DEF Fresh
  <2>3. QED
    BY <1>3, <2>1, <2>2 DEF Fresh, new
<1>4. QED
  BY <1>2, <1>3

LEMMA FreshIsHeard ==
  ASSUME NEW has, NEW sh, NEW M, NEW box \in Seq(M), NEW hub, NEW at,
         Fresh(hub, has, sh, box, at)
  PROVE  Heard(has, box, at, Len(box) + 1)
<1>1. Len(box) \in Nat /\ (Len(box) + 1) - 1 = Len(box)
  OBVIOUS
<1>2. QED
  BY <1>1 DEF Fresh, Heard

LEMMA TailFacts ==
  ASSUME NEW M, NEW box \in Seq(M), box # <<>>
  PROVE  /\ Len(Tail(box)) = Len(box) - 1 /\ Len(box) \in Nat \ {0} /\ Tail(box) \in Seq(M)
         /\ Head(box) = box[1] /\ Head(box) \in M
         /\ \A i \in 1 .. Len(box) - 1 : Tail(box)[i] = box[i + 1]
OBVIOUS

LEMMA TailInOrder ==
  ASSUME NEW M, NEW box \in Seq(M), box # <<>>, NEW grid, NEW has, NEW has2,
         InOrder(grid, has, box),
         \A at \in grid : at \in has \/ IsFor(Head(box), at) => at \in has2
  PROVE  InOrder(grid, has2, Tail(box))
<1> DEFINE new == Tail(box)
<1>1. /\ Len(new) = Len(box) - 1 /\ Len(box) \in Nat \ {0} /\ Head(box) = box[1]
      /\ \A i \in 1 .. Len(box) - 1 : new[i] = box[i + 1]
  BY TailFacts
<1> HIDE DEF new
<1>2. ASSUME NEW i \in 1 .. Len(new), NEW q \in grid, Heard(has, box, q, i + 1)
      PROVE  Heard(has2, new, q, i)
  <2>1. CASE q \in has
    BY <2>1 DEF Heard
  <2>2. ASSUME NEW j \in 1 .. i, IsFor(box[j], q) PROVE Heard(has2, new, q, i)
    <3>1. CASE j = 1
      BY <1>1, <2>2, <3>1 DEF Heard
    <3>2. CASE j > 1
      <4>1. j - 1 \in 1 .. i - 1 /\ new[j - 1] = box[j]
        BY <1>1, <3>2
      <4>2. QED
        BY <2>2, <4>1 DEF Heard
    <3>3. QED
      BY <3>1, <3>2
  <2>3. (i + 1) - 1 = i
    BY <1>1
  <2>4. QED
    BY <1>2, <2>1, <2>2, <2>3 DEF Heard
<1>3. ASSUME NEW i \in 1 .. Len(new), NEW at \in grid, NEW q \in grid,
             IsFor(new[i], at), Before(q, at)
      PROVE  Heard(has2, new, q, i)
  <2>1. i + 1 \in 1 .. Len(box) /\ new[i] = box[i + 1]
    BY <1>1
  <2>2. Heard(has, box, q, i + 1)
    BY <1>3, <2>1 DEF InOrder
  <2>3. QED
    BY <1>2, <2>2
<1>4. QED
  BY <1>3 DEF InOrder, new

LEMMA TailFresh ==
  ASSUME NEW M, NEW box \in Seq(M), box # <<>>, NEW has, NEW has2, NEW sh, NEW sh2,
         NEW hub, NEW at, Fresh(hub, has, sh, box, at),
         at \in has => at \in has2,
         at \in has /\ ~IsFor(Head(box), at) => sh2[at] = sh[at],
         IsFor(Head(box), at) => at \in has2 /\ sh2[at] = Head(box).active
  PROVE  Fresh(hub, has2, sh2, Tail(box), at)
<1> DEFINE new == Tail(box)
<1>1. /\ Len(new) = Len(box) - 1 /\ Len(box) \in Nat \ {0} /\ Head(box) = box[1]
      /\ \A i \in 1 .. Len(box) - 1 : new[i] = box[i + 1]
  BY TailFacts
<1> HIDE DEF new
<1>2. CASE /\ at \in has /\ sh[at] = hub[at]
           /\ \A j \in 1 .. Len(box) : ~IsFor(box[j], at)
  <2>1. \A j \in 1 .. Len(new) : ~IsFor(new[j], at)
    BY <1>1, <1>2
  <2>2. ~IsFor(Head(box), at)
    BY <1>1, <1>2
  <2>3. QED
    BY <1>2, <2>1, <2>2 DEF Fresh, new
<1>3. ASSUME NEW j \in 1 .. Len(box), IsFor(box[j], at), box[j].active = hub[at],
             \A k \in j + 1 .. Len(box) : ~IsFor(box[k], at)
      PROVE  Fresh(hub, has2, sh2, new, at)
  <2>1. CASE j = 1
    <3>1. at \in has2 /\ sh2[at] = hub[at]
      BY <1>1, <1>3, <2>1
    <3>2. \A k \in 1 .. Len(new) : ~IsFor(new[k], at)
      <4>1. SUFFICES ASSUME NEW k \in 1 .. Len(new) PROVE ~IsFor(new[k], at)
        OBVIOUS
      <4>2. k + 1 \in j + 1 .. Len(box) /\ new[k] = box[k + 1]
        BY <1>1, <2>1
      <4>3. QED
        BY <1>3, <4>2
    <3>3. QED
      BY <3>1, <3>2 DEF Fresh
  <2>2. CASE j > 1
    <3>1. j - 1 \in 1 .. Len(new) /\ new[j - 1] = box[j]
      BY <1>1, <2>2
    <3>2. \A k \in (j - 1) + 1 .. Len(new) : ~IsFor(new[k], at)
      <4>1. SUFFICES ASSUME NEW k \in (j - 1) + 1 .. Len(new) PROVE ~IsFor(new[k], at)
        OBVIOUS
      <4>2. k + 1 \in j + 1 .. Len(box) /\ new[k] = box[k + 1]
        BY <1>1, <2>2
      <4>3. QED
        BY <1>3, <4>2
    <3>3. QED
      BY <1>3, <3>1, <3>2 DEF Fresh
  <2>3. QED
    BY <1>1, <2>1, <2>2
<1>4. QED
  BY <1>2, <1>3 DEF Fresh, new

-----------------------------------------------------------------------------
(* Pages: what holds of all of them.                                       *)

Has(p) == IF known[p] = session THEN DOMAIN shown[p] ELSE {}

PageTables ==
  /\ inbox \in [Pages -> Seq(MessagesOf(session, Grid))]
  /\ known \in [Pages -> 0 .. session] /\ DOMAIN shown = Pages
  /\ broken = [p \in Pages |-> FALSE]

(* The status still to be sent is the places from one on, and the copy of  *)
(* a column is true.                                                       *)
StatusIsRest ==
  /\ slots \in Page!Hubs
  /\ status \in Seq(Grid)
  /\ \A i, j \in 1 .. Len(status) : i < j => Before(status[i], status[j])
  /\ status # <<>> => \A at \in Grid \ Contents(status) : Before(at, Head(status))
  /\ column # <<>> => /\ status # <<>>
                      /\ column = [s \in 1 .. PageSlots |-> slots[<<Head(status)[1], s>>]]

PageHears(p) ==
  /\ shown[p] \in [DOMAIN shown[p] -> BOOLEAN]
  /\ Prefix(Grid, Has(p))
  /\ InOrder(Grid, Has(p), inbox[p])
  /\ p \in open =>
       /\ known[p] # session => inbox[p] # <<>> /\ Head(inbox[p]) = Page!Session(session)
       /\ \A at \in Grid \ Contents(status) : Fresh(slots, Has(p), shown[p], inbox[p], at)

PageSafe == Page!TypeOK /\ PageTables /\ StatusIsRest /\ \A p \in Pages : PageHears(p)

LEMMA SafeFacts ==
  ASSUME PageSafe
  PROVE  /\ Page!Columns \in 1 .. MaxColumns /\ Grid = GridOf(Page!Columns)
         /\ slots \in [Grid -> BOOLEAN] /\ Grid \subseteq Page!Places
         /\ slots \in Page!Hubs /\ status \in Seq(Grid)
         /\ session \in 1 .. MaxSessions /\ open \subseteq visible /\ visible \subseteq Pages
         /\ \A p \in Pages : /\ inbox[p] \in Seq(MessagesOf(session, Grid))
                             /\ Len(inbox[p]) <= MaxInbox
                             /\ p \notin open => inbox[p] = <<>>
<1>1. slots \in Page!Hubs /\ status \in Seq(Grid)
  BY DEF PageSafe, StatusIsRest
<1>2. QED
  BY <1>1, GridOfHub DEF PageSafe, Page!TypeOK, PageTables

LEMMA Sent ==
  ASSUME PageSafe, NEW to \in SUBSET Pages, NEW m \in MessagesOf(session, Grid),
         Page!SendAll(to, m)
  PROVE  /\ inbox' \in [Pages -> Seq(MessagesOf(session, Grid))]
         /\ \A p \in Pages : /\ inbox'[p] = IF p \in to THEN Append(inbox[p], m) ELSE inbox[p]
                             /\ Len(inbox'[p]) <= MaxInbox
<1>1. inbox' = [p \in Pages |-> IF p \in to THEN Append(inbox[p], m) ELSE inbox[p]]
      /\ \A p \in to : Len(inbox[p]) < MaxInbox
  BY DEF Page!SendAll
<1>2. \A p \in Pages : /\ inbox[p] \in Seq(MessagesOf(session, Grid))
                       /\ Append(inbox[p], m) \in Seq(MessagesOf(session, Grid))
                       /\ Len(Append(inbox[p], m)) = Len(inbox[p]) + 1
                       /\ Len(inbox[p]) \in Nat /\ Len(inbox[p]) <= MaxInbox
  BY SafeFacts, AppendFacts
<1>3. QED
  BY <1>1, <1>2, PageConstants

LEMMA PageInit ==
  Page!Init => PageSafe
<1> SUFFICES ASSUME Page!Init PROVE PageSafe
  OBVIOUS
<1>1. slots \in Page!Hubs /\ status = <<>> /\ column = <<>>
  BY DEF Page!Init
<1>2. /\ Page!Columns \in 1 .. MaxColumns /\ Grid = GridOf(Page!Columns)
      /\ slots \in [Grid -> BOOLEAN] /\ Grid \subseteq Page!Places
  BY <1>1, GridOfHub
<1>3. Page!TypeOK
  <2>1. MaxColumns * PageSlots \in Nat
    BY PageConstants
  <2>2. QED
    BY <1>1, <1>2, <2>1, PageConstants DEF Page!TypeOK, Page!Init, Grid
<1>4. StatusIsRest
  BY <1>1 DEF StatusIsRest
<1>5. PageTables
  BY DEF PageTables, Page!Init
<1>6. ASSUME NEW p \in Pages PROVE PageHears(p)
  <2>1. known[p] = 0 /\ session = 1 /\ shown[p] = <<>> /\ inbox[p] = <<>> /\ p \notin open
    BY DEF Page!Init
  <2>2. Has(p) = {}
    BY <2>1 DEF Has
  <2>3. Prefix(Grid, Has(p)) /\ InOrder(Grid, Has(p), inbox[p])
    BY <2>1, <2>2 DEF Prefix, InOrder
  <2>4. shown[p] \in [DOMAIN shown[p] -> BOOLEAN]
    BY <2>1
  <2>5. QED
    BY <2>1, <2>3, <2>4 DEF PageHears
<1>7. QED
  BY <1>3, <1>4, <1>5, <1>6 DEF PageSafe

(* All that there is before a place that comes next has been sent.         *)
LEMMA SentBefore ==
  ASSUME PageSafe, NEW p \in open, NEW at \in Grid, NEW q \in Grid, Before(q, at),
         status = <<>> \/ at = Head(status)
  PROVE  Heard(Has(p), inbox[p], q, Len(inbox[p]) + 1)
<1>1. q \notin Contents(status)
  <2>1. CASE status = <<>>
    BY <2>1 DEF Contents
  <2>2. CASE status # <<>> /\ at = Head(status)
    <3>1. SUFFICES ASSUME NEW i \in 1 .. Len(status), status[i] = q PROVE FALSE
      BY DEF Contents
    <3>2. Head(status) = status[1] /\ Len(status) \in Nat \ {0}
      BY <2>2, SafeFacts, TailFacts
    <3>3. i = 1 \/ Before(at, q)
      BY <2>2, <3>1, <3>2 DEF PageSafe, StatusIsRest
    <3>4. QED
      BY <2>2, <3>1, <3>2, <3>3, BeforeOrders, SafeFacts
  <2>3. QED
    BY <2>1, <2>2
<1>2. p \in Pages /\ inbox[p] \in Seq(MessagesOf(session, Grid))
  BY SafeFacts
<1>3. Fresh(slots, Has(p), shown[p], inbox[p], q)
  BY <1>1, <1>2 DEF PageSafe, PageHears
<1>4. QED
  BY <1>2, <1>3, FreshIsHeard

(* What a page shows and knows is its own, so that only its messages and   *)
(* the status can change what it hears.                                    *)
LEMMA SameShown ==
  ASSUME PageSafe, UNCHANGED <<session, known, shown>>, NEW p \in Pages
  PROVE  Has(p)' = Has(p) /\ shown'[p] = shown[p]
BY DEF Has

LEMMA CopyColumnPage == ASSUME PageSafe, Page!CopyColumn PROVE PageSafe'
<1>1. UNCHANGED <<session, slots, status, visible, open, inbox, known, shown, broken>>
  BY DEF Page!CopyColumn, Page!page
<1>2. /\ status # <<>>
      /\ column' = [s \in 1 .. PageSlots |-> slots[<<Head(status)[1], s>>]]
  BY DEF Page!CopyColumn
<1>3. Page!TypeOK'
  BY <1>1 DEF PageSafe, Page!TypeOK, Page!Places
<1>4. StatusIsRest'
  BY <1>1, <1>2 DEF PageSafe, StatusIsRest, Page!Hubs, Grid
<1>5. PageTables'
  BY <1>1 DEF PageSafe, PageTables, Grid
<1>6. ASSUME NEW p \in Pages PROVE PageHears(p)'
  <2>1. PageHears(p)
    BY DEF PageSafe
  <2>2. QED
    BY <1>1, <2>1 DEF PageHears, Has, Grid
<1>7. QED
  BY <1>3, <1>4, <1>5, <1>6 DEF PageSafe

LEMMA SendSlotStatus ==
  ASSUME PageSafe, Page!SendSlot
  PROVE  /\ status # <<>> /\ Head(status) \in Grid
         /\ column[Head(status)[2]] = slots[Head(status)]
         /\ StatusIsRest'
         /\ \A at \in Grid : at \in Contents(status)' <=> at \in Contents(status) /\ at # Head(status)
         /\ Len(status') <= Len(status) /\ status' \in Seq(Grid)
<1> DEFINE at == Head(status)
<1>1. UNCHANGED <<session, slots, visible, open, known, shown, broken>> /\ status' = Tail(status)
      /\ column # <<>> /\ column' = IF at[2] = PageSlots THEN <<>> ELSE column
  BY DEF Page!SendSlot, Page!page
<1>2. /\ slots \in Page!Hubs /\ status \in Seq(Grid) /\ status # <<>>
      /\ \A i, j \in 1 .. Len(status) : i < j => Before(status[i], status[j])
      /\ \A g \in Grid \ Contents(status) : Before(g, at)
      /\ column = [s \in 1 .. PageSlots |-> slots[<<at[1], s>>]]
  BY <1>1 DEF PageSafe, StatusIsRest
<1>3. /\ Len(status') = Len(status) - 1 /\ Len(status) \in Nat \ {0} /\ status' \in Seq(Grid)
      /\ at = status[1] /\ at \in Grid
      /\ \A i \in 1 .. Len(status) - 1 : status'[i] = status[i + 1]
  BY <1>1, <1>2, TailFacts
<1>4. Page!Columns \in Nat /\ Grid = GridOf(Page!Columns) /\ Page!Columns \in 1 .. MaxColumns
  BY SafeFacts
<1>5. column[at[2]] = slots[at]
  <2>1. at[2] \in 1 .. PageSlots /\ at = <<at[1], at[2]>>
    BY <1>3, <1>4 DEF GridOf
  <2>2. QED
    BY <1>2, <2>1
<1> HIDE DEF at
<1>6. ASSUME NEW g \in Grid
      PROVE  g \in Contents(status)' <=> g \in Contents(status) /\ g # at
  <2>1. ASSUME NEW i \in 1 .. Len(status), i > 1 PROVE status[i] # at /\ status[i] \in Grid
    <3>1. Before(at, status[i]) /\ status[i] \in Grid
      BY <1>2, <1>3, <2>1
    <3>2. QED
      BY <1>3, <1>4, <3>1, BeforeOrders
  <2>2. ASSUME NEW i \in 1 .. Len(status'), status'[i] = g
        PROVE  g \in Contents(status) /\ g # at
    <3>1. i + 1 \in 1 .. Len(status) /\ i + 1 > 1 /\ status[i + 1] = g
      BY <1>3, <2>2
    <3>2. QED
      BY <2>1, <3>1 DEF Contents
  <2>3. ASSUME NEW i \in 1 .. Len(status), status[i] = g, g # at
        PROVE  g \in Contents(status)'
    <3>1. i - 1 \in 1 .. Len(status') /\ status'[i - 1] = g
      <4>1. i # 1
        BY <1>3, <2>3
      <4>2. i - 1 \in 1 .. Len(status) - 1 /\ (i - 1) + 1 = i
        BY <1>3, <4>1
      <4>3. QED
        BY <1>3, <2>3, <4>2
    <3>2. QED
      BY <3>1 DEF Contents
  <2>4. QED
    BY <2>2, <2>3 DEF Contents
<1>7. ASSUME status' # <<>> PROVE Before(at, Head(status')) /\ Head(status') \in Grid
  <2>1. Head(status') = status'[1] /\ Len(status') \in Nat \ {0} /\ Head(status') \in Grid
    BY <1>3, <1>7, TailFacts
  <2>2. status'[1] = status[2] /\ 2 \in 1 .. Len(status)
    BY <1>3, <2>1
  <2>3. QED
    BY <1>2, <1>3, <2>1, <2>2
<1>8. status' # <<>> => \A g \in Grid \ Contents(status)' : Before(g, Head(status'))
  <2>1. SUFFICES ASSUME status' # <<>>, NEW g \in Grid \ Contents(status)'
                 PROVE  Before(g, Head(status'))
    OBVIOUS
  <2>2. g = at \/ Before(g, at)
    BY <1>2, <1>6, <2>1
  <2>3. QED
    BY <1>3, <1>4, <1>7, <2>1, <2>2, BeforeOrders
<1>9. ASSUME column' # <<>>
      PROVE  status' # <<>> /\ Head(status')[1] = at[1] /\ column' = column
  <2> DEFINE g == <<at[1], at[2] + 1>>
  <2>1. /\ at[1] \in 1 .. Page!Columns /\ at[2] \in 1 .. PageSlots /\ at[2] # PageSlots
        /\ column' = column /\ at = <<at[1], at[2]>>
    BY <1>1, <1>3, <1>4, <1>9 DEF GridOf, at
  <2>2. g \in Grid /\ g # at /\ Before(at, g) /\ g[1] = at[1] /\ g[2] = at[2] + 1
    BY <1>4, <2>1, PageConstants DEF GridOf, Before
  <2> HIDE DEF g
  <2>3. g \in Contents(status)
    BY <1>2, <1>3, <1>4, <2>2, BeforeOrders
  <2>4. g \in Contents(status)'
    BY <1>6, <2>2, <2>3
  <2>5. PICK i \in 1 .. Len(status') : status'[i] = g
    BY <2>4 DEF Contents
  <2>6. status' # <<>> /\ Head(status') = status'[1]
    BY <1>3, <2>5
  <2>7. Head(status') = g \/ Before(Head(status'), g)
    <3>1. CASE i = 1
      BY <2>5, <2>6, <3>1
    <3>2. CASE i > 1
      <4>1. /\ status'[1] = status[2] /\ status'[i] = status[i + 1]
            /\ 2 \in 1 .. Len(status) /\ i + 1 \in 1 .. Len(status) /\ 2 < i + 1
        BY <1>3, <3>2
      <4>2. QED
        BY <1>2, <2>5, <2>6, <4>1
    <3>3. QED
      BY <3>1, <3>2
  <2>8. Head(status')[1] = at[1]
    <3>1. Before(at, Head(status')) /\ Head(status') \in GridOf(Page!Columns)
      BY <1>4, <1>7, <2>6
    <3>2. Head(status')[1] \in Int /\ Head(status')[2] \in Int
      BY <3>1 DEF GridOf
    <3>3. QED
      BY <2>1, <2>2, <2>7, <3>1, <3>2 DEF Before
  <2>9. QED
    BY <2>1, <2>6, <2>8
<1>10. \A i, j \in 1 .. Len(status') : i < j => Before(status'[i], status'[j])
  <2>1. SUFFICES ASSUME NEW i \in 1 .. Len(status'), NEW j \in 1 .. Len(status'), i < j
                 PROVE  Before(status'[i], status'[j])
    OBVIOUS
  <2>2. /\ i + 1 \in 1 .. Len(status) /\ j + 1 \in 1 .. Len(status) /\ i + 1 < j + 1
        /\ status'[i] = status[i + 1] /\ status'[j] = status[j + 1]
    <3>1. Len(status') = Len(status) - 1 /\ Len(status) \in Nat
      BY <1>3
    <3>2. i \in 1 .. Len(status) - 1 /\ j \in 1 .. Len(status) - 1
      BY <2>1, <3>1
    <3>3. QED
      BY <1>3, <2>1, <3>1, <3>2
  <2>3. QED
    BY <1>2, <2>2
<1>11. StatusIsRest'
  <2>1. (slots \in Page!Hubs)' /\ Grid' = Grid
    BY <1>1, <1>2 DEF Page!Hubs, Grid
  <2>2. column' # <<>> => column' = [s \in 1 .. PageSlots |-> slots'[<<Head(status')[1], s>>]]
    BY <1>1, <1>2, <1>9
  <2>3. column' # <<>> => status' # <<>>
    BY <1>9
  <2>4. QED
    BY <1>3, <1>8, <1>10, <2>1, <2>2, <2>3 DEF StatusIsRest
<1>12. QED
  BY <1>2, <1>3, <1>5, <1>6, <1>11 DEF at

LEMMA SendSlotPage == ASSUME PageSafe, Page!SendSlot PROVE PageSafe'
<1> DEFINE at == Head(status)
           m == Page!Active(at, column[at[2]])
<1>1. UNCHANGED <<session, slots, visible, open, known, shown, broken>>
      /\ Page!SendAll(open, m)
  BY DEF Page!SendSlot, Page!page
<1>2. /\ status # <<>> /\ at \in Grid /\ column[at[2]] = slots[at] /\ StatusIsRest'
      /\ \A g \in Grid : g \in Contents(status)' <=> g \in Contents(status) /\ g # at
      /\ Len(status') <= Len(status) /\ status' \in Seq(Grid)
  BY SendSlotStatus
<1>3. slots[at] \in BOOLEAN /\ open \in SUBSET Pages
  BY <1>2, SafeFacts
<1>4. m \in MessagesOf(session, Grid)
  BY <1>2, <1>3 DEF MessagesOf
<1>5. /\ inbox' \in [Pages -> Seq(MessagesOf(session, Grid))]
      /\ \A p \in Pages : /\ inbox'[p] = IF p \in open THEN Append(inbox[p], m) ELSE inbox[p]
                          /\ Len(inbox'[p]) <= MaxInbox
  BY <1>1, <1>3, <1>4, Sent
<1>6. \A g : IsFor(m, g) <=> g = at
  BY MessageKinds
<1>7. m.active = slots[at]
  <2>1. m.active = column[at[2]]
    BY DEF Page!Active
  <2>2. QED
    BY <1>2, <2>1
<1> HIDE DEF at, m
<1>8. Grid' = Grid /\ \A p : Has(p)' = Has(p)
  BY <1>1 DEF Grid, Has
<1>9. Page!TypeOK'
  <2>1. status' \in Seq(Page!Places) /\ Len(status') <= MaxColumns * PageSlots
    <3>1. Len(status) <= MaxColumns * PageSlots /\ Len(status) \in Nat /\ Len(status') \in Nat
          /\ MaxColumns * PageSlots \in Nat
      BY <1>2, SafeFacts, PageConstants DEF PageSafe, Page!TypeOK
    <3>2. QED
      BY <1>2, <3>1, SafeFacts
  <2>2. QED
    BY <1>1, <1>5, <2>1 DEF PageSafe, Page!TypeOK, Page!Places
<1>10. PageTables'
  BY <1>1, <1>5, <1>8 DEF PageSafe, PageTables
<1>11. ASSUME NEW p \in Pages PROVE PageHears(p)'
  <2>1. PageHears(p)
    BY DEF PageSafe
  <2>2. /\ shown' = shown /\ known' = known /\ session' = session /\ open' = open
        /\ slots' = slots
    BY <1>1
  <2>3. CASE p \notin open
    <3>1. inbox'[p] = inbox[p]
      BY <1>5, <2>3
    <3>2. QED
      BY <1>8, <2>1, <2>2, <2>3, <3>1 DEF PageHears
  <2>4. CASE p \in open
    <3> DEFINE M == MessagesOf(session, Grid)
    <3>1. inbox'[p] = Append(inbox[p], m) /\ inbox[p] \in Seq(M)
      BY <1>5, <2>4, SafeFacts
    <3> HIDE DEF M
    <3>2. InOrder(Grid, Has(p), inbox'[p])
      <4>1. \A g, q \in Grid : IsFor(m, g) /\ Before(q, g)
                                 => Heard(Has(p), inbox[p], q, Len(inbox[p]) + 1)
        BY <1>2, <1>6, <2>4, SentBefore DEF at
      <4>2. QED
        BY <2>1, <3>1, <4>1, AppendInOrder DEF PageHears
    <3>3. ASSUME NEW g \in Grid \ Contents(status)'
          PROVE  Fresh(slots, Has(p), shown[p], inbox'[p], g)
      <4>1. CASE g = at
        BY <1>6, <1>7, <3>1, <4>1, AppendFresh
      <4>2. CASE g # at
        <5>1. ~IsFor(m, g) /\ Fresh(slots, Has(p), shown[p], inbox[p], g)
          BY <1>2, <1>6, <2>1, <2>4, <4>2 DEF PageHears
        <5>2. QED
          BY <3>1, <5>1, AppendFresh
      <4>3. QED
        BY <4>1, <4>2
    <3>4. known[p] # session => inbox'[p] # <<>> /\ Head(inbox'[p]) = Page!Session(session)
      BY <2>1, <2>4, <3>1, AppendHead DEF PageHears
    <3>5. QED
      BY <1>8, <2>1, <2>2, <3>2, <3>3, <3>4 DEF PageHears
  <2>5. QED
    BY <2>3, <2>4
<1>12. QED
  BY <1>2, <1>9, <1>10, <1>11 DEF PageSafe

LEMMA ConnectPage == ASSUME PageSafe, NEW p \in Pages, Page!Connect(p) PROVE PageSafe'
<1> DEFINE m == Page!Session(session)
<1>1. /\ UNCHANGED <<session, slots, column, visible, known, shown, broken>>
      /\ p \in visible \ open /\ status = <<>> /\ open' = open \cup {p}
      /\ Page!SendAll(open', m) /\ status' = Page!StatusOrder(Page!Columns)
  BY DEF Page!Connect, Page!Connected, Page!page
<1>2. /\ Page!Columns \in 1 .. MaxColumns /\ Grid = GridOf(Page!Columns)
      /\ open \in SUBSET Pages /\ open' \in SUBSET Pages
  BY <1>1, SafeFacts
<1>3. /\ status' \in Seq(Grid) /\ Len(status') = Page!Columns * PageSlots
      /\ \A i, j \in 1 .. Len(status') : i < j => Before(status'[i], status'[j])
      /\ Contents(status') = Grid
  <2>1. Page!Columns \in Nat \ {0} /\ status' = Page!StatusOrder(Page!Columns)
    BY <1>1, <1>2, PageConstants
  <2>2. /\ status' \in Seq(GridOf(Page!Columns)) /\ Len(status') = Page!Columns * PageSlots
        /\ \A i, j \in 1 .. Len(status') : i < j => Before(status'[i], status'[j])
        /\ Contents(status') = GridOf(Page!Columns)
    BY <2>1, StatusOrderIs, Zenon
  <2>3. QED
    BY <1>2, <2>2
<1>4. m \in MessagesOf(session, Grid)
  BY DEF MessagesOf
<1>5. /\ inbox' \in [Pages -> Seq(MessagesOf(session, Grid))]
      /\ \A r \in Pages : /\ inbox'[r] = IF r \in open' THEN Append(inbox[r], m) ELSE inbox[r]
                          /\ Len(inbox'[r]) <= MaxInbox
  BY <1>1, <1>2, <1>4, Sent
<1>6. \A g : ~IsFor(m, g)
  BY MessageKinds
<1> HIDE DEF m
<1>7. Grid' = Grid /\ \A r : Has(r)' = Has(r)
  BY <1>1 DEF Grid, Has
<1>8. Page!TypeOK'
  <2>1. status' \in Seq(Page!Places) /\ Len(status') <= MaxColumns * PageSlots
    <3>1. (MaxColumns - Page!Columns) * PageSlots >= 0
      BY <1>2, PageConstants
    <3>2. Page!Columns * PageSlots <= MaxColumns * PageSlots
      BY <1>2, <3>1, PageConstants
    <3>3. QED
      BY <1>3, <3>2, SafeFacts
  <2>2. QED
    BY <1>1, <1>5, <2>1 DEF PageSafe, Page!TypeOK, Page!Places
<1>9. PageTables'
  BY <1>1, <1>5, <1>7 DEF PageSafe, PageTables
<1>10. StatusIsRest'
  <2>1. column' = <<>> /\ (slots \in Page!Hubs)'
    BY <1>1 DEF PageSafe, StatusIsRest, Page!Hubs
  <2>2. Grid \ Contents(status') = {}
    BY <1>3
  <2>3. QED
    BY <1>3, <1>7, <2>1, <2>2 DEF StatusIsRest, Contents
<1>11. ASSUME NEW r \in Pages PROVE PageHears(r)'
  <2>1. PageHears(r)
    BY DEF PageSafe
  <2>2. /\ shown' = shown /\ known' = known /\ session' = session /\ slots' = slots
    BY <1>1
  <2>3. CASE r \notin open'
    BY <1>5, <1>7, <2>1, <2>2, <2>3 DEF PageHears
  <2>4. CASE r \in open'
    <3> DEFINE M == MessagesOf(session, Grid)
    <3>1. inbox'[r] = Append(inbox[r], m) /\ inbox[r] \in Seq(M)
      BY <1>5, <2>4, SafeFacts
    <3> HIDE DEF M
    <3>2. InOrder(Grid, Has(r), inbox'[r])
      BY <1>6, <2>1, <3>1, AppendInOrder DEF PageHears
    <3>3. known[r] # session => inbox'[r] # <<>> /\ Head(inbox'[r]) = Page!Session(session)
      <4>1. CASE r \in open
        BY <2>1, <3>1, <4>1, AppendHead DEF PageHears
      <4>2. CASE r \notin open
        <5>1. inbox[r] = <<>>
          BY <4>2, SafeFacts
        <5>2. inbox'[r] # <<>> /\ Head(inbox'[r]) = m
          BY <3>1, <5>1, AppendHead
        <5>3. QED
          BY <5>2 DEF m
      <4>3. QED
        BY <4>1, <4>2
    <3>4. Grid' \ Contents(status)' = {}
      BY <1>3, <1>7 DEF Contents
    <3>5. QED
      BY <1>7, <2>1, <2>2, <3>2, <3>3, <3>4 DEF PageHears
  <2>5. QED
    BY <2>3, <2>4
<1>12. QED
  BY <1>8, <1>9, <1>10, <1>11 DEF PageSafe

(* Nobody presses while the status is sent.                                *)
LEMMA PressPage == ASSUME PageSafe, ~OtherThread, Page!Press PROVE PageSafe'
<1>1. PICK at \in Grid : /\ slots' = [slots EXCEPT ![at] = ~@]
                         /\ Page!SendAll(open, Page!Active(at, slots'[at]))
  BY DEF Page!Press, Grid
<1> DEFINE m == Page!Active(at, slots'[at])
<1>2. UNCHANGED <<session, status, column, visible, open, known, shown, broken>> /\ status = <<>>
  BY DEF Page!Press, Page!page
<1>3. /\ slots \in [Grid -> BOOLEAN] /\ open \in SUBSET Pages /\ Grid = GridOf(Page!Columns)
      /\ Page!Columns \in 1 .. MaxColumns
  BY SafeFacts
<1>4. /\ slots' \in [Grid -> BOOLEAN] /\ slots'[at] = ~slots[at]
      /\ \A g \in Grid \ {at} : slots'[g] = slots[g]
  BY <1>1, <1>3
<1>5. m \in MessagesOf(session, Grid)
  BY <1>4 DEF MessagesOf
<1>6. /\ inbox' \in [Pages -> Seq(MessagesOf(session, Grid))]
      /\ \A p \in Pages : /\ inbox'[p] = IF p \in open THEN Append(inbox[p], m) ELSE inbox[p]
                          /\ Len(inbox'[p]) <= MaxInbox
  BY <1>1, <1>3, <1>5, Sent
<1>7. (\A g : IsFor(m, g) <=> g = at) /\ m.active = slots'[at]
  BY MessageKinds
<1> HIDE DEF m
<1>8. Grid' = Grid /\ \A p : Has(p)' = Has(p)
  BY <1>2, <1>4 DEF Grid, Has
<1>9. Page!TypeOK'
  BY <1>2, <1>4, <1>6, <1>8, SafeFacts DEF PageSafe, Page!TypeOK, Page!Places, Grid
<1>10. PageTables'
  BY <1>2, <1>6, <1>8 DEF PageSafe, PageTables
<1>11. StatusIsRest'
  <2>1. slots' \in Page!Hubs
    BY <1>3, <1>4 DEF Page!Hubs, GridOf
  <2>2. (slots \in Page!Hubs)'
    BY <2>1 DEF Page!Hubs
  <2>3. column = <<>>
    BY <1>2 DEF PageSafe, StatusIsRest
  <2>4. QED
    BY <1>2, <1>8, <2>2, <2>3, SafeFacts DEF PageSafe, StatusIsRest
<1>12. ASSUME NEW p \in Pages PROVE PageHears(p)'
  <2>1. PageHears(p)
    BY DEF PageSafe
  <2>2. shown' = shown /\ known' = known /\ session' = session /\ open' = open /\ status' = status
    BY <1>2
  <2>3. CASE p \notin open
    BY <1>6, <1>8, <2>1, <2>2, <2>3 DEF PageHears
  <2>4. CASE p \in open
    <3> DEFINE M == MessagesOf(session, Grid)
    <3>1. inbox'[p] = Append(inbox[p], m) /\ inbox[p] \in Seq(M)
      BY <1>6, <2>4, SafeFacts
    <3> HIDE DEF M
    <3>2. InOrder(Grid, Has(p), inbox'[p])
      <4>1. \A g, q \in Grid : IsFor(m, g) /\ Before(q, g)
                                 => Heard(Has(p), inbox[p], q, Len(inbox[p]) + 1)
        BY <1>2, <2>4, SentBefore
      <4>2. QED
        BY <2>1, <3>1, <4>1, AppendInOrder DEF PageHears
    <3>3. ASSUME NEW g \in Grid
          PROVE  Fresh(slots', Has(p), shown[p], inbox'[p], g)
      <4>1. CASE g = at
        BY <1>7, <3>1, <4>1, AppendFresh
      <4>2. CASE g # at
        <5>1. Contents(status) = {}
          BY <1>2 DEF Contents
        <5>2. ~IsFor(m, g) /\ Fresh(slots, Has(p), shown[p], inbox[p], g) /\ slots'[g] = slots[g]
          BY <1>4, <1>7, <2>1, <2>4, <4>2, <5>1 DEF PageHears
        <5>3. QED
          BY <3>1, <5>2, AppendFresh
      <4>3. QED
        BY <4>1, <4>2
    <3>4. known[p] # session => inbox'[p] # <<>> /\ Head(inbox'[p]) = Page!Session(session)
      BY <2>1, <2>4, <3>1, AppendHead DEF PageHears
    <3>5. QED
      BY <1>8, <2>1, <2>2, <3>2, <3>3, <3>4 DEF PageHears
  <2>5. QED
    BY <2>3, <2>4
<1>13. QED
  BY <1>9, <1>10, <1>11, <1>12 DEF PageSafe

LEMMA RestartPage == ASSUME PageSafe, Page!Restart PROVE PageSafe'
<1>1. /\ UNCHANGED <<visible, known, shown, broken>>
      /\ session < MaxSessions /\ session' = session + 1
      /\ slots' \in Page!Hubs /\ status' = <<>> /\ column' = <<>>
      /\ open' = {} /\ inbox' = [p \in Pages |-> <<>>]
  BY DEF Page!Restart, Page!page
<1>2. session \in 1 .. MaxSessions /\ \A p \in Pages : known[p] \in 0 .. session
  BY DEF PageSafe, Page!TypeOK
<1>3. (slots \in Page!Hubs)'
  BY <1>1 DEF Page!Hubs
<1>4. Grid' \subseteq Page!Places /\ slots' \in [Grid' -> BOOLEAN]
  <2>1. PICK n \in 1 .. MaxColumns : slots' \in [GridOf(n) -> BOOLEAN]
    BY <1>1 DEF Page!Hubs, GridOf
  <2>2. QED
    BY <2>1, PageConstants DEF Grid, GridOf, Page!Places
<1>5. Page!TypeOK'
  <2>1. MaxColumns * PageSlots \in Nat
    BY PageConstants
  <2>2. Len(<<>>) = 0
    OBVIOUS
  <2>3. QED
    BY <1>1, <1>2, <1>4, <2>1, <2>2, PageConstants DEF PageSafe, Page!TypeOK, Page!Places, Grid
<1>6. PageTables'
  BY <1>1, <1>2 DEF PageSafe, PageTables
<1>7. StatusIsRest'
  BY <1>1, <1>3 DEF StatusIsRest
<1>8. ASSUME NEW p \in Pages PROVE PageHears(p)'
  <2>1. PageHears(p) /\ shown' = shown
    BY <1>1 DEF PageSafe
  <2>2. Has(p)' = {}
    BY <1>1, <1>2 DEF Has
  <2>3. inbox'[p] = <<>> /\ p \notin open'
    BY <1>1
  <2>4. Prefix(Grid', {}) /\ InOrder(Grid', {}, <<>>)
    BY DEF Prefix, InOrder
  <2>5. QED
    BY <2>1, <2>2, <2>3, <2>4 DEF PageHears
<1>9. QED
  BY <1>5, <1>6, <1>7, <1>8 DEF PageSafe

LEMMA ShowPage == ASSUME PageSafe, NEW p \in Pages, Page!Show(p) PROVE PageSafe'
<1>1. UNCHANGED <<session, slots, status, column, open, inbox, known, shown, broken>>
      /\ visible' = visible \cup {p}
  BY DEF Page!Show, Page!page, Page!server
<1>2. Page!TypeOK'
  BY <1>1 DEF PageSafe, Page!TypeOK, Page!Places
<1>3. StatusIsRest' /\ PageTables'
  BY <1>1 DEF PageSafe, StatusIsRest, Page!Hubs, Grid, Contents, PageTables
<1>4. \A r \in Pages : PageHears(r)'
  BY <1>1 DEF PageSafe, PageHears, Has, Grid, Contents
<1>5. QED
  BY <1>2, <1>3, <1>4 DEF PageSafe

LEMMA ClosePage == ASSUME PageSafe, NEW p \in Pages, Page!Close(p) PROVE PageSafe'
<1>1. UNCHANGED <<session, slots, status, column, known, shown, broken>>
      /\ p \in visible /\ visible' \in {visible, visible \ {p}}
      /\ open' = open \ {p} /\ inbox' = [inbox EXCEPT ![p] = <<>>]
  BY DEF Page!Close, Page!page, Page!server
<1>2. inbox \in [Pages -> Seq(MessagesOf(session, Grid))]
  BY DEF PageSafe, PageTables
<1>3. /\ inbox' \in [Pages -> Seq(MessagesOf(session, Grid))] /\ inbox'[p] = <<>>
      /\ \A r \in Pages \ {p} : inbox'[r] = inbox[r]
  BY <1>1, <1>2
<1>4. Grid' = Grid /\ \A r : Has(r)' = Has(r)
  BY <1>1 DEF Grid, Has
<1>5. Page!TypeOK'
  <2>1. Len(<<>>) = 0
    OBVIOUS
  <2>2. QED
    BY <1>1, <1>3, <2>1, PageConstants DEF PageSafe, Page!TypeOK, Page!Places
<1>6. PageTables'
  BY <1>1, <1>3, <1>4 DEF PageSafe, PageTables
<1>7. StatusIsRest'
  BY <1>1 DEF PageSafe, StatusIsRest, Page!Hubs, Grid, Contents
<1>8. ASSUME NEW r \in Pages PROVE PageHears(r)'
  <2>1. PageHears(r)
    BY DEF PageSafe
  <2>2. CASE r = p
    <3>1. InOrder(Grid, Has(r), <<>>) /\ r \notin open' /\ inbox'[r] = <<>>
      BY <1>1, <1>3, <2>2 DEF InOrder
    <3>2. QED
      BY <1>1, <1>4, <2>1, <3>1 DEF PageHears
  <2>3. CASE r # p
    <3>1. inbox'[r] = inbox[r] /\ (r \in open' => r \in open)
      BY <1>1, <1>3, <2>3
    <3>2. QED
      BY <1>1, <1>4, <2>1, <3>1 DEF PageHears, Contents
  <2>4. QED
    BY <2>2, <2>3
<1>9. QED
  BY <1>5, <1>6, <1>7, <1>8 DEF PageSafe

(* A page that reads a message of a place has all the places before.       *)
LEMMA NothingSkipped ==
  ASSUME PageSafe, NEW p \in Pages, inbox[p] # <<>>, NEW at \in Grid, IsFor(Head(inbox[p]), at)
  PROVE  known[p] = session /\ ~Page!Skipped(p, at) /\ \A q \in Grid : Before(q, at) => q \in Has(p)
<1>1. p \in open /\ PageHears(p) /\ inbox[p] \in Seq(MessagesOf(session, Grid))
  BY SafeFacts DEF PageSafe
<1>2. known[p] = session
  <2>1. ~IsFor(Page!Session(session), at)
    BY MessageKinds
  <2>2. QED
    BY <1>1, <2>1 DEF PageHears
<1>3. ASSUME NEW q \in Grid, Before(q, at) PROVE q \in Has(p)
  <2>1. Len(inbox[p]) \in Nat \ {0} /\ Head(inbox[p]) = inbox[p][1]
    BY <1>1, TailFacts
  <2>2. Heard(Has(p), inbox[p], q, 1)
    BY <1>1, <1>3, <2>1 DEF PageHears, InOrder
  <2>3. QED
    BY <2>2 DEF Heard
<1>4. Has(p) = DOMAIN shown[p]
  BY <1>2 DEF Has
<1>5. Grid = GridOf(Page!Columns) /\ Page!Columns \in Nat
  BY SafeFacts
<1>6. ASSUME NEW q \in Has(p), q[1] > at[1] PROVE \E r \in Has(p) : r[1] = at[1]
  <2> DEFINE r == <<at[1], 1>>
  <2>1. q \in Grid /\ q[1] \in Int /\ at[1] \in Int
    BY <1>1, <1>5, <1>6 DEF PageHears, Prefix, GridOf
  <2>2. r \in Grid /\ r[1] = at[1]
    BY <1>5, PageConstants DEF GridOf
  <2> HIDE DEF r
  <2>3. Before(r, q)
    BY <1>6, <2>1, <2>2 DEF Before
  <2>4. r \in Has(p)
    BY <1>1, <2>1, <2>2, <2>3 DEF PageHears, Prefix
  <2>5. QED
    BY <2>2, <2>4
<1>7. ASSUME NEW q \in Has(p), q[1] = at[1], q[2] > at[2] PROVE at \in Has(p)
  <2>1. q \in Grid /\ q[2] \in Int /\ at[2] \in Int
    BY <1>1, <1>5, <1>7 DEF PageHears, Prefix, GridOf
  <2>2. Before(at, q)
    BY <1>7, <2>1 DEF Before
  <2>3. QED
    BY <1>1, <2>1, <2>2 DEF PageHears, Prefix
<1>8. ~Page!Skipped(p, at)
  BY <1>4, <1>6, <1>7 DEF Page!Skipped
<1>9. QED
  BY <1>2, <1>3, <1>8

(* What a page has once it read the message m.                             *)
Received(p, m) ==
  /\ known' \in [Pages -> 0 .. session] /\ DOMAIN shown' = Pages
  /\ broken' = [r \in Pages |-> FALSE]
  /\ \A r \in Pages \ {p} : known'[r] = known[r] /\ shown'[r] = shown[r]
  /\ known'[p] = session /\ shown'[p] \in [DOMAIN shown'[p] -> BOOLEAN]
  /\ Prefix(Grid, Has(p)') /\ Has(p) \subseteq Has(p)'
  /\ \A at \in Grid :
       /\ IsFor(m, at) => at \in Has(p)' /\ shown'[p][at] = m.active
       /\ at \in Has(p) /\ ~IsFor(m, at) => shown'[p][at] = shown[p][at]

LEMMA ReceivePage == ASSUME PageSafe, NEW p \in Pages, Page!Receive(p) PROVE PageSafe'
<1> DEFINE m == Head(inbox[p])
           M == MessagesOf(session, Grid)
<1>1. /\ UNCHANGED <<session, slots, status, column, visible, open>>
      /\ inbox[p] # <<>> /\ inbox' = [inbox EXCEPT ![p] = Tail(@)]
  BY DEF Page!Receive, Page!server
<1>2. /\ inbox \in [Pages -> Seq(M)] /\ known \in [Pages -> 0 .. session]
      /\ DOMAIN shown = Pages /\ broken = [r \in Pages |-> FALSE]
      /\ p \in open /\ PageHears(p) /\ session \in 1 .. MaxSessions
  BY <1>1, SafeFacts DEF PageSafe, PageTables
<1>3. /\ Len(Tail(inbox[p])) = Len(inbox[p]) - 1 /\ Len(inbox[p]) \in Nat \ {0}
      /\ Tail(inbox[p]) \in Seq(M) /\ m \in M
  BY <1>1, <1>2, TailFacts
<1> HIDE DEF m
<1>4. /\ inbox' \in [Pages -> Seq(M)] /\ inbox'[p] = Tail(inbox[p])
      /\ \A r \in Pages \ {p} : inbox'[r] = inbox[r]
      /\ Len(inbox'[p]) <= MaxInbox
  <2>1. Len(inbox[p]) <= MaxInbox
    BY SafeFacts
  <2>2. QED
    BY <1>1, <1>2, <1>3, <2>1, PageConstants
<1>5. Received(p, m)
  <2>1. CASE m = Page!Session(session)
    <3>1. "session" \in DOMAIN m /\ m.session = session /\ \A at : ~IsFor(m, at)
      BY <2>1, MessageKinds
    <3>2. /\ known' = [known EXCEPT ![p] = session]
          /\ shown' = [shown EXCEPT ![p] = Page!AfterSession(p, session)]
          /\ broken' = broken
      BY <3>1 DEF Page!Receive, m
    <3>3. known[p] = 0 => shown[p] = <<>>
      BY DEF PageSafe, Page!TypeOK
    <3>4. CASE known[p] = session
      <4>1. shown'[p] = shown[p] /\ known'[p] = known[p]
        BY <1>2, <3>2, <3>4 DEF Page!AfterSession
      <4>2. Has(p)' = Has(p)
        BY <1>1, <4>1 DEF Has
      <4>3. QED
        BY <1>2, <3>1, <3>2, <3>4, <4>1, <4>2 DEF PageHears, Received
    <3>5. CASE known[p] # session
      <4>1. shown'[p] = <<>> /\ known'[p] = session /\ Has(p) = {}
        BY <1>2, <3>2, <3>3, <3>5 DEF Page!AfterSession, Has
      <4>2. Has(p)' = {}
        BY <1>1, <4>1 DEF Has
      <4>3. shown'[p] \in [DOMAIN shown'[p] -> BOOLEAN]
        BY <4>1
      <4>4. QED
        BY <1>2, <3>1, <3>2, <4>1, <4>2, <4>3 DEF Prefix, Received
    <3>6. QED
      BY <3>4, <3>5
  <2>2. ASSUME NEW at \in Grid, NEW v \in BOOLEAN, m = Page!Active(at, v)
        PROVE  Received(p, m)
    <3>1. /\ "session" \notin DOMAIN m /\ m.place = at /\ m.active = v
          /\ \A g : IsFor(m, g) <=> g = at
      BY <2>2, MessageKinds
    <3>2. known[p] = session /\ ~Page!Skipped(p, at) /\ \A q \in Grid : Before(q, at) => q \in Has(p)
      BY <1>1, <3>1, NothingSkipped DEF m
    <3>3. Has(p) = DOMAIN shown[p]
      BY <3>2 DEF Has
    <3> DEFINE sh == [q \in DOMAIN shown[p] \cup {at} |-> IF q = at THEN v ELSE shown[p][q]]
    <3>4. /\ known' = known /\ shown' = [shown EXCEPT ![p] = sh]
          /\ broken' = [broken EXCEPT ![p] = @ \/ Page!Skipped(p, at)]
      BY <3>1, <3>2 DEF Page!Receive, m
    <3>5. broken' = [r \in Pages |-> FALSE]
      BY <1>2, <3>2, <3>4
    <3>6. shown'[p] = sh /\ DOMAIN shown' = Pages /\ \A r \in Pages \ {p} : shown'[r] = shown[r]
      BY <1>2, <3>4
    <3>7. Has(p)' = Has(p) \cup {at}
      BY <1>1, <3>2, <3>3, <3>4, <3>6 DEF Has
    <3>8. sh \in [DOMAIN sh -> BOOLEAN]
      BY <1>2, <2>2 DEF PageHears
    <3>9. Prefix(Grid, Has(p)')
      BY <1>2, <3>2, <3>7 DEF PageHears, Prefix
    <3>10. QED
      BY <1>2, <3>1, <3>2, <3>3, <3>4, <3>5, <3>6, <3>7, <3>8, <3>9 DEF Received
  <2>3. m = Page!Session(session) \/ \E at \in Grid, v \in BOOLEAN : m = Page!Active(at, v)
    BY <1>3 DEF MessagesOf
  <2>4. QED
    BY <2>1, <2>2, <2>3
<1> USE <1>5 DEF Received
<1>6. Grid' = Grid /\ \A r \in Pages \ {p} : Has(r)' = Has(r)
  BY <1>1 DEF Grid, Has
<1>7. Page!TypeOK'
  <2>1. Has(p)' = DOMAIN shown'[p] /\ DOMAIN shown'[p] \subseteq Page!Places
    BY <1>1, <1>5, SafeFacts DEF Has, Prefix
  <2>2. QED
    BY <1>1, <1>2, <1>4, <1>5, <2>1 DEF PageSafe, Page!TypeOK, Page!Places
<1>8. PageTables'
  BY <1>1, <1>4, <1>5, <1>6 DEF PageTables
<1>9. StatusIsRest'
  BY <1>1, <1>6 DEF PageSafe, StatusIsRest, Page!Hubs, Contents
<1>10. ASSUME NEW r \in Pages \ {p} PROVE PageHears(r)'
  <2>1. PageHears(r)
    BY DEF PageSafe
  <2>2. inbox'[r] = inbox[r] /\ known'[r] = known[r] /\ shown'[r] = shown[r]
    BY <1>4, <1>5
  <2>3. QED
    BY <1>1, <1>6, <2>1, <2>2 DEF PageHears, Contents
<1>11. PageHears(p)'
  <2>1. InOrder(Grid, Has(p)', inbox'[p])
    <3>1. \A at \in Grid : at \in Has(p) \/ IsFor(Head(inbox[p]), at) => at \in Has(p)'
      BY <1>5 DEF m
    <3>2. InOrder(Grid, Has(p), inbox[p]) /\ inbox[p] \in Seq(M)
      BY <1>2 DEF PageHears
    <3> HIDE DEF M
    <3>3. QED
      BY <1>1, <1>4, <3>1, <3>2, TailInOrder
  <2>2. ASSUME NEW at \in Grid \ Contents(status)
        PROVE  Fresh(slots, Has(p)', shown'[p], inbox'[p], at)
    <3>1. Fresh(slots, Has(p), shown[p], inbox[p], at) /\ inbox[p] \in Seq(M)
      BY <1>2 DEF PageHears
    <3>2. /\ at \in Has(p) => at \in Has(p)'
          /\ at \in Has(p) /\ ~IsFor(Head(inbox[p]), at) => shown'[p][at] = shown[p][at]
          /\ IsFor(Head(inbox[p]), at) => at \in Has(p)' /\ shown'[p][at] = Head(inbox[p]).active
      BY <1>5 DEF m
    <3> HIDE DEF M
    <3>3. QED
      BY <1>1, <1>4, <3>1, <3>2, TailFresh
  <2>3. QED
    BY <1>1, <1>5, <1>6, <2>1, <2>2 DEF PageHears, Contents
<1>12. QED
  BY <1>7, <1>8, <1>9, <1>10, <1>11 DEF PageSafe

LEMMA PageStutters == ASSUME PageSafe, UNCHANGED pageVars PROVE PageSafe'
<1>1. UNCHANGED <<session, slots, status, column, visible, open, inbox, known, shown, broken>>
  BY DEF pageVars
<1>2. Grid' = Grid /\ \A p \in Pages : Has(p)' = Has(p)
  BY <1>1 DEF Grid, Has
<1>3. Page!TypeOK'
  BY <1>1 DEF PageSafe, Page!TypeOK, Page!Places
<1>4. PageTables'
  BY <1>1, <1>2 DEF PageSafe, PageTables
<1>5. StatusIsRest'
  BY <1>1, <1>2 DEF PageSafe, StatusIsRest, Page!Hubs, Contents
<1>6. ASSUME NEW p \in Pages PROVE PageHears(p)'
  <2>1. PageHears(p)
    BY DEF PageSafe
  <2>2. QED
    BY <1>1, <1>2, <2>1 DEF PageHears, Contents
<1>7. QED
  BY <1>3, <1>4, <1>5, <1>6 DEF PageSafe

LEMMA PageNext == ASSUME PageSafe, ~OtherThread, [Page!Next]_pageVars PROVE PageSafe'
BY CopyColumnPage, SendSlotPage, PressPage, RestartPage, ConnectPage, ShowPage, ClosePage,
   ReceivePage, PageStutters DEF Page!Next, Page!Serve

LEMMA PageSteps == [Next]_vars => [Page!Next]_pageVars
BY DEF Next, InHub, InNative, InPorts, InBridge, InPage, vars

LEMMA PageSafeImplies == PageSafe => Page!TypeOK /\ Page!InSync /\ Page!NoHole
<1> SUFFICES ASSUME PageSafe PROVE Page!InSync /\ Page!NoHole
  BY DEF PageSafe
<1>1. Page!NoHole
  BY DEF PageSafe, PageTables, Page!NoHole
<1>2. ASSUME NEW p \in open, status = <<>>, inbox[p] = <<>> PROVE shown[p] = slots
  <2>1. p \in Pages /\ PageHears(p) /\ slots \in [Grid -> BOOLEAN]
    BY SafeFacts DEF PageSafe
  <2>2. known[p] = session /\ Has(p) = DOMAIN shown[p]
    BY <1>2, <2>1 DEF PageHears, Has
  <2>3. Grid \ Contents(status) = Grid /\ Len(inbox[p]) = 0
    BY <1>2 DEF Contents
  <2>4. \A at \in Grid : at \in Has(p) /\ shown[p][at] = slots[at]
    BY <2>1, <2>3 DEF PageHears, Fresh
  <2>5. DOMAIN shown[p] = Grid
    BY <2>1, <2>2, <2>4 DEF PageHears, Prefix
  <2>6. QED
    BY <2>1, <2>4, <2>5 DEF PageHears
<1>3. QED
  BY <1>1, <1>2 DEF Page!InSync

(* As long as nobody presses while the status is sent, every open page     *)
(* that read its messages shows the slots there are, as they are.          *)
THEOREM PagesAreInSync == ASSUME ~OtherThread PROVE Spec => []InSync
<1>1. Init => PageSafe
  BY PageInit DEF Init
<1>2. PageSafe /\ [Next]_vars => PageSafe'
  BY PageSteps, PageNext
<1>3. PageSafe => InSync
  BY PageSafeImplies DEF InSync
<1>4. QED
  BY <1>1, <1>2, <1>3, PTL DEF Spec

-----------------------------------------------------------------------------
(* MIDI devices of the host.                                               *)

(* The owners o are those of the devices D alone.                          *)
OwnersOf(o, D) ==
  /\ o \in Native!Owners
  /\ o.alive = D /\ ~o.misused
  /\ o.hub \subseteq o.controllers /\ o.controllers \subseteq D /\ o.clocks \subseteq D
  /\ \A d \in NativeAddress : o.sources[d] = IF d \in o.clocks THEN 1 ELSE 0
  /\ \A d \in NativeAddress : o.listeners[d] = (IF d \in o.hub THEN {"controller"} ELSE {})
                                                 \cup (IF d \in o.clocks THEN {"clock"} ELSE {})

(* Callbacks that were not registered yet left nothing.                    *)
OnlyFrom(o, R) ==
  /\ "controllers" \notin R => o.controllers = {}
  /\ "clocks" \notin R => o.clocks = {}

LEMMA ControllerGone ==
  ASSUME NEW o, NEW D, OwnersOf(o, D)
  PROVE  LET e == Native!ControllerDestroyed(o, D)
         IN  OwnersOf(e, D) /\ e.controllers = {} /\ e.clocks = o.clocks
<1> DEFINE e == Native!ControllerDestroyed(o, D)
<1>1. D \subseteq NativeAddress
  BY DEF OwnersOf, Native!Owners
<1>2. /\ e \in Native!Owners
      /\ e.alive = o.alive /\ e.controllers = o.controllers \ D /\ e.hub = o.hub \ D
      /\ e.clocks = o.clocks /\ e.sources = o.sources
      /\ e.misused = (o.misused \/ ~(D \cap o.hub \subseteq o.alive))
      /\ e.listeners = [d \in NativeAddress |-> IF d \in D \cap o.hub
                          THEN o.listeners[d] \ {"controller"} ELSE o.listeners[d]]
  BY DEF OwnersOf, Native!Owners, Native!ControllerDestroyed, Native!Unlisten
<1> HIDE DEF e
<1>3. e.controllers = {} /\ e.hub = {} /\ ~e.misused
  BY <1>2 DEF OwnersOf
<1>4. \A d \in NativeAddress : e.listeners[d] = IF d \in e.clocks THEN {"clock"} ELSE {}
  BY <1>2 DEF OwnersOf
<1>5. OwnersOf(e, D)
  BY <1>2, <1>3, <1>4 DEF OwnersOf
<1>6. QED
  BY <1>2, <1>3, <1>5 DEF e

LEMMA ClockGone ==
  ASSUME NEW o, NEW D, OwnersOf(o, D)
  PROVE  LET e == Native!ClockDestroyed(o, D)
         IN  OwnersOf(e, D) /\ e.controllers = o.controllers /\ e.clocks = {}
<1> DEFINE e == Native!ClockDestroyed(o, D)
<1>1. D \subseteq NativeAddress
  BY DEF OwnersOf, Native!Owners
<1>2. /\ e.alive = o.alive /\ e.controllers = o.controllers /\ e.hub = o.hub
      /\ e.clocks = o.clocks \ D
      /\ e.sources = [d \in NativeAddress |-> IF d \in D \cap o.clocks
                        THEN o.sources[d] - 1 ELSE o.sources[d]]
      /\ e.misused = (o.misused \/ ~(D \subseteq o.alive))
      /\ e.listeners = [d \in NativeAddress |-> IF d \in D
                          THEN o.listeners[d] \ {"clock"} ELSE o.listeners[d]]
  BY DEF OwnersOf, Native!Owners, Native!ClockDestroyed, Native!Unlisten
<1>3. [d \in NativeAddress |-> IF d \in D \cap o.clocks THEN o.sources[d] - 1
                              ELSE o.sources[d]] \in [NativeAddress -> 0 .. 2]
  BY DEF OwnersOf
<1>4. e \in Native!Owners
  BY <1>3 DEF OwnersOf, Native!Owners, Native!ClockDestroyed, Native!Unlisten
<1> HIDE DEF e
<1>5. e.clocks = {} /\ ~e.misused
  BY <1>2 DEF OwnersOf
<1>6. \A d \in NativeAddress : e.sources[d] = 0
  BY <1>2 DEF OwnersOf
<1>7. \A d \in NativeAddress : e.listeners[d] = IF d \in e.hub THEN {"controller"} ELSE {}
  <2>1. \A d \in NativeAddress : d \notin D => o.listeners[d] = {} /\ d \notin o.hub
    BY DEF OwnersOf
  <2>2. \A d \in NativeAddress : "clock" \in o.listeners[d] => d \in D
    BY DEF OwnersOf
  <2>3. \A d \in NativeAddress :
          o.listeners[d] \ {"clock"} = IF d \in o.hub THEN {"controller"} ELSE {}
    BY DEF OwnersOf
  <2>4. QED
    BY ZenonT(60), <1>2, <2>1, <2>3
<1>8. OwnersOf(e, D)
  BY <1>2, <1>5, <1>6, <1>7, <1>4 DEF OwnersOf
<1>9. QED
  BY <1>2, <1>5, <1>8 DEF e

LEMMA NothingIsLeft ==
  ASSUME NEW o, NEW D, NEW R, OwnersOf(o, D), OnlyFrom(o, R)
  PROVE  LET e == Native!Delete(Native!Destroyed(o, D, R), D)
         IN  OwnersOf(e, {}) /\ e.controllers = {} /\ e.clocks = {}
<1> DEFINE c == IF "controllers" \in R THEN Native!ControllerDestroyed(o, D) ELSE o
           g == IF "clocks" \in R THEN Native!ClockDestroyed(c, D) ELSE c
           e == Native!Delete(g, D)
<1>1. OwnersOf(c, D) /\ c.controllers = {} /\ c.clocks = o.clocks
  BY ControllerGone DEF OnlyFrom
<1> HIDE DEF c
<1>2. OwnersOf(g, D) /\ g.controllers = {} /\ g.clocks = {}
  BY <1>1, ClockGone DEF OnlyFrom
<1> HIDE DEF g
<1>3. /\ e \in Native!Owners
      /\ e.alive = g.alive \ D /\ e.controllers = g.controllers /\ e.hub = g.hub
      /\ e.clocks = g.clocks /\ e.sources = g.sources /\ e.misused = g.misused
      /\ e.listeners = [d \in NativeAddress |-> IF d \in D THEN {} ELSE g.listeners[d]]
  BY <1>2 DEF OwnersOf, Native!Owners, Native!Delete
<1> HIDE DEF e
<1>4. OwnersOf(e, {}) /\ e.controllers = {} /\ e.clocks = {}
  BY <1>2, <1>3 DEF OwnersOf
<1>5. QED
  BY <1>4 DEF e, g, c, Native!Destroyed

LEMMA ControllerMade ==
  ASSUME NEW o, NEW D, NEW named, OwnersOf(o, D), o.controllers = {}
  PROVE  LET e == Native!ControllerCreated(o, D, named)
         IN  OwnersOf(e, D) /\ e.hub = D \cap named /\ e.clocks = o.clocks
<1> DEFINE e == Native!ControllerCreated(o, D, named)
<1>1. D \subseteq NativeAddress /\ o.hub = {}
  BY DEF OwnersOf, Native!Owners
<1>2. /\ e \in Native!Owners
      /\ e.alive = o.alive /\ e.controllers = o.controllers \cup D /\ e.hub = D \cap named
      /\ e.clocks = o.clocks /\ e.sources = o.sources
      /\ e.misused = (o.misused \/ ~(D \cap named \subseteq o.alive))
      /\ e.listeners = [d \in NativeAddress |-> IF d \in D \cap named
                          THEN o.listeners[d] \cup {"controller"} ELSE o.listeners[d]]
  BY <1>1 DEF OwnersOf, Native!Owners, Native!ControllerCreated, Native!Listen
<1> HIDE DEF e
<1>3. ~e.misused /\ e.controllers = D
  BY <1>2 DEF OwnersOf
<1>4. \A d \in NativeAddress : e.listeners[d] = (IF d \in e.hub THEN {"controller"} ELSE {})
                                                  \cup (IF d \in e.clocks THEN {"clock"} ELSE {})
  BY <1>1, <1>2 DEF OwnersOf
<1>5. OwnersOf(e, D)
  BY <1>2, <1>3, <1>4 DEF OwnersOf
<1>6. QED
  BY <1>2, <1>5 DEF e

LEMMA ClockMade ==
  ASSUME NEW o, NEW D, OwnersOf(o, D), o.clocks = {}
  PROVE  LET e == Native!ClockCreated(o, D)
         IN  OwnersOf(e, D) /\ e.hub = o.hub /\ e.controllers = o.controllers /\ e.clocks = D
<1> DEFINE e == Native!ClockCreated(o, D)
<1>1. D \subseteq NativeAddress
  BY DEF OwnersOf, Native!Owners
<1>2. /\ e.alive = o.alive /\ e.controllers = o.controllers /\ e.hub = o.hub
      /\ e.clocks = o.clocks \cup D
      /\ e.sources = [d \in NativeAddress |-> IF d \in D THEN o.sources[d] + 1
                                                         ELSE o.sources[d]]
      /\ e.misused = (o.misused \/ ~(D \subseteq o.alive))
      /\ e.listeners = [d \in NativeAddress |-> IF d \in D
                          THEN o.listeners[d] \cup {"clock"} ELSE o.listeners[d]]
  BY DEF OwnersOf, Native!Owners, Native!ClockCreated, Native!Listen
<1>3. [d \in NativeAddress |-> IF d \in D THEN o.sources[d] + 1 ELSE o.sources[d]] \in [NativeAddress -> 0 .. 2]
  BY DEF OwnersOf
<1>4. e \in Native!Owners
  BY <1>3 DEF OwnersOf, Native!Owners, Native!ClockCreated, Native!Listen
<1> HIDE DEF e
<1>5. e.clocks = D /\ ~e.misused
  BY <1>2 DEF OwnersOf
<1>6. \A d \in NativeAddress : e.sources[d] = IF d \in e.clocks THEN 1 ELSE 0
  BY <1>2, <1>3 DEF OwnersOf
<1>7. \A d \in NativeAddress : e.listeners[d] = (IF d \in e.hub THEN {"controller"} ELSE {})
                                                  \cup (IF d \in e.clocks THEN {"clock"} ELSE {})
  BY <1>1, <1>2, <1>3 DEF OwnersOf
<1>8. OwnersOf(e, D)
  BY <1>2, <1>5, <1>6, <1>7, <1>4 DEF OwnersOf
<1>9. QED
  BY <1>2, <1>5, <1>8 DEF e

LEMMA EachIsServed ==
  ASSUME NEW o, NEW D, NEW named, NEW R, OwnersOf(o, {}), D \subseteq NativeAddress
  PROVE  LET e == Native!Created(Native!Allocate(o, D), D, named, R)
         IN  /\ OwnersOf(e, D) /\ OnlyFrom(e, R)
             /\ e.hub = IF "controllers" \in R THEN D \cap named ELSE {}
             /\ e.clocks = IF "clocks" \in R THEN D ELSE {}
<1> DEFINE a == Native!Allocate(o, D)
           c == IF "controllers" \in R THEN Native!ControllerCreated(a, D, named) ELSE a
           e == IF "clocks" \in R THEN Native!ClockCreated(c, D) ELSE c
<1>1. /\ a \in Native!Owners
      /\ a.alive = D /\ a.controllers = o.controllers /\ a.hub = o.hub
      /\ a.clocks = o.clocks /\ a.sources = o.sources /\ a.misused = o.misused
      /\ a.listeners = [d \in NativeAddress |-> IF d \in D THEN {} ELSE o.listeners[d]]
  BY DEF OwnersOf, Native!Owners, Native!Allocate
<1> HIDE DEF a
<1>2. OwnersOf(a, D) /\ a.controllers = {} /\ a.hub = {} /\ a.clocks = {}
  BY <1>1 DEF OwnersOf
<1>3. /\ OwnersOf(c, D) /\ c.clocks = {}
      /\ c.hub = IF "controllers" \in R THEN D \cap named ELSE {}
      /\ "controllers" \notin R => c.controllers = {}
  <2>1. CASE "controllers" \in R
    <3>1. /\ OwnersOf(Native!ControllerCreated(a, D, named), D)
          /\ Native!ControllerCreated(a, D, named).hub = D \cap named
          /\ Native!ControllerCreated(a, D, named).clocks = a.clocks
      BY <1>2, ControllerMade
    <3>2. QED
      BY <1>2, <2>1, <3>1
  <2>2. CASE "controllers" \notin R
    BY <1>2, <2>2
  <2>3. QED
    BY <2>1, <2>2
<1> HIDE DEF c
<1>4. /\ OwnersOf(e, D) /\ OnlyFrom(e, R) /\ e.hub = c.hub
      /\ e.clocks = IF "clocks" \in R THEN D ELSE {}
  BY <1>3, ClockMade DEF OnlyFrom
<1>5. QED
  BY <1>3, <1>4 DEF e, c, a, Native!Created

(* The open devices have their own addresses, and what Hyperion keeps is   *)
(* theirs: what the callbacks made that each was created for.              *)
NativeSafe ==
  /\ plugged \subseteq Plug /\ changed \in BOOLEAN /\ rebuilding \in BOOLEAN
  /\ count \in 0 .. Cardinality(Plug)
  /\ registered \in {{}, {"controllers"}, Native!Callbacks}
  /\ DOMAIN opened \subseteq Plug /\ opened \in [DOMAIN opened -> NativeAddress]
  /\ Native!IsInjective(opened)
  /\ DOMAIN greeted = DOMAIN opened
  /\ OwnersOf(own, Native!Range(opened)) /\ OnlyFrom(own, registered)
  /\ Native!OpenIsServed

LEMMA SameSets ==
  /\ \A S : Native!IsFiniteSet(S) <=> IsFiniteSet(S)
  /\ \A S : Native!Cardinality(S) = Cardinality(S)
<1>1. \A S : Native!IsFiniteSet(S) <=> IsFiniteSet(S)
  BY DEF Native!IsFiniteSet, IsFiniteSet
<1>2. \A S : Native!Cardinality(S) = Cardinality(S)
  BY DEF Native!Cardinality, Cardinality
<1>3. QED
  BY <1>1, <1>2

LEMMA NativeInit == Native!Init => NativeSafe
<1> SUFFICES ASSUME Native!Init PROVE NativeSafe
  OBVIOUS
<1>1. DOMAIN opened = {} /\ Native!Range(opened) = {} /\ DOMAIN greeted = {}
  BY DEF Native!Init, Native!Range
<1>2. OwnersOf(own, {}) /\ own.controllers = {} /\ own.clocks = {}
  BY DEF Native!Init, Native!NoOwners, OwnersOf, Native!Owners
<1>3. IsFiniteSet(Plug)
  BY ControllersAssumption, SameSets DEF Native!NativeAssumption
<1>4. Cardinality(Plug) \in Nat
  BY <1>3, FS_CardinalityType
<1>5. opened \in [DOMAIN opened -> NativeAddress] /\ Native!IsInjective(opened)
  BY <1>1 DEF Native!Init, Native!IsInjective
<1>6. Native!OpenIsServed /\ OnlyFrom(own, registered)
  BY <1>1, <1>2 DEF OnlyFrom, Native!OpenIsServed
<1>7. /\ plugged \subseteq Plug /\ changed \in BOOLEAN /\ rebuilding \in BOOLEAN
      /\ count = 0 /\ registered = {}
  BY DEF Native!Init
<1>8. QED
  BY <1>1, <1>2, <1>4, <1>5, <1>6, <1>7 DEF NativeSafe

LEMMA RebuildNative == NativeSafe /\ Native!Rebuild => NativeSafe'
<1> SUFFICES ASSUME NativeSafe, Native!Rebuild PROVE NativeSafe'
  OBVIOUS
<1> DEFINE o == Native!DestroyAll(own)
           D == Native!Range(opened')
           named == {opened'[p] : p \in DOMAIN opened' \cap Known}
<1>1. OwnersOf(o, {})
  BY NothingIsLeft DEF NativeSafe, Native!DestroyAll
<1> HIDE DEF o
<1>2. /\ DOMAIN opened' \subseteq Plug /\ opened' \in [DOMAIN opened' -> NativeAddress]
      /\ Native!IsInjective(opened') /\ DOMAIN greeted' = DOMAIN opened'
      /\ \A p \in DOMAIN opened' : greeted'[p] = registered
  BY DEF Native!Rebuild, NativeSafe, Native!IsInjective
<1>3. own' = Native!Created(Native!Allocate(o, D), D, named, registered)
  BY DEF Native!Rebuild, Native!CreateAll, o
<1>4. D \subseteq NativeAddress
  BY <1>2 DEF Native!Range
<1>5. /\ OwnersOf(own', D) /\ OnlyFrom(own', registered)
      /\ own'.hub = IF "controllers" \in registered THEN D \cap named ELSE {}
      /\ own'.clocks = IF "clocks" \in registered THEN D ELSE {}
  BY <1>1, <1>3, <1>4, EachIsServed
<1>6. \A p \in DOMAIN opened' : /\ opened'[p] \in D /\ opened'[p] \in NativeAddress
                                /\ opened'[p] \in named <=> p \in Known
  BY <1>2 DEF Native!Range, Native!IsInjective
<1> HIDE DEF D, named
<1>7. Native!OpenIsServed'
  BY <1>2, <1>5, <1>6 DEF Native!OpenIsServed, OwnersOf
<1>8. QED
  BY <1>2, <1>5, <1>7 DEF NativeSafe, Native!Rebuild, D

LEMMA NativeNext == NativeSafe /\ [Native!Next]_nativeVars => NativeSafe'
<1> SUFFICES ASSUME NativeSafe, [Native!Next]_nativeVars PROVE NativeSafe'
  OBVIOUS
<1>1. CASE Native!Rebuild
  BY <1>1, RebuildNative
<1>2. ASSUME UNCHANGED <<opened, greeted, own>>,
             plugged' \subseteq Plug, changed' \in BOOLEAN, rebuilding' \in BOOLEAN,
             count' \in 0 .. Cardinality(Plug),
             registered \subseteq registered', registered' \in {{}, {"controllers"}, Native!Callbacks}
      PROVE  NativeSafe'
  BY <1>2 DEF NativeSafe, Native!OpenIsServed, OnlyFrom
<1>3. CASE Native!PlugOrUnplug
  BY <1>2, <1>3 DEF Native!PlugOrUnplug, NativeSafe
<1>4. CASE Native!SetupMidi
  BY <1>2, <1>4 DEF Native!SetupMidi, NativeSafe
<1>5. CASE Native!SetupTempo
  BY <1>2, <1>5 DEF Native!SetupTempo, NativeSafe, Native!Callbacks
<1>6. CASE Native!PollCount
  <2>1. IsFiniteSet(Plug)
    BY ControllersAssumption, SameSets DEF Native!NativeAssumption
  <2>2. Cardinality(plugged) \in Nat /\ Cardinality(plugged) <= Cardinality(Plug)
    BY <2>1, FS_Subset, FS_CardinalityType DEF NativeSafe
  <2>3. count' \in 0 .. Cardinality(Plug)
    <3>1. count' = Cardinality(plugged)
      BY <1>6, SameSets DEF Native!PollCount
    <3>2. Cardinality(Plug) \in Nat
      BY <2>1, FS_CardinalityType
    <3>3. QED
      BY <2>2, <3>1, <3>2
  <2>4. QED
    BY <1>2, <1>6, <2>3 DEF Native!PollCount, NativeSafe
<1>7. CASE UNCHANGED nativeVars
  BY <1>2, <1>7 DEF nativeVars, NativeSafe
<1>8. QED
  BY <1>1, <1>3, <1>4, <1>5, <1>6, <1>7 DEF Native!Next, Native!Poll

LEMMA NativeImplies == NativeSafe => Native!TypeOK /\ Native!OpenIsServed /\ Native!NoDangling
<1> SUFFICES ASSUME NativeSafe PROVE Native!TypeOK /\ Native!NoDangling
  BY DEF NativeSafe
<1>1. Native!NoDangling
  BY DEF NativeSafe, Native!NoDangling, Native!NoneDangling, OwnersOf
<1>2. Native!TypeOK
  BY SameSets DEF NativeSafe, Native!TypeOK, OwnersOf, Native!Callbacks
<1>3. QED
  BY <1>1, <1>2

LEMMA NativeSteps == [Next]_vars => [Native!Next]_nativeVars
BY DEF Next, InHub, InNative, InPorts, InBridge, InPage, vars

-----------------------------------------------------------------------------
(* How ports are paired.                                                   *)

LEMMA LeastNatural ==
  ASSUME NEW T \in SUBSET Nat, T # {}
  PROVE  \E n \in T : \A m \in T : n <= m
<1>1. PICK n \in T : \A m \in T : ~ <<m, n>> \in OpToRel(<, Nat)
  <2> DEFINE R == OpToRel(<, Nat)
  <2>1. IsWellFoundedOn(R, Nat)
    BY NatLessThanWellFounded
  <2> HIDE DEF R
  <2>2. \E x \in T : \A y \in T : ~ (<<y, x>> \in R)
    BY <2>1, WFMin
  <2>3. QED
    BY <2>2 DEF R
<1>2. \A m \in T : ~(m < n)
  BY <1>1 DEF OpToRel
<1>3. QED
  BY <1>2

Erased(s, i) == SubSeq(s, 1, i - 1) \o SubSeq(s, i + 1, Len(s))

LEMMA ErasedFacts ==
  ASSUME NEW S, NEW s \in Seq(S), NEW i \in 1 .. Len(s)
  PROVE  /\ Erased(s, i) \in Seq(S) /\ Len(Erased(s, i)) = Len(s) - 1
         /\ \A j \in 1 .. Len(s) - 1 : Erased(s, i)[j] = s[IF j < i THEN j ELSE j + 1]
<1> DEFINE r == Erased(s, i)
           a == SubSeq(s, 1, i - 1)
           b == SubSeq(s, i + 1, Len(s))
<1>1. a \in Seq(S) /\ Len(a) = i - 1 /\ \A j \in 1 .. i - 1 : a[j] = s[j]
  OBVIOUS
<1>0. Len(s) \in Nat
  OBVIOUS
<1>2. b \in Seq(S) /\ Len(b) = Len(s) - i /\ \A j \in 1 .. Len(s) - i : b[j] = s[i + j]
  OBVIOUS
<1> HIDE DEF a, b
<1>3. r = a \o b
  BY DEF a, b, Erased
<1> HIDE DEF r
<1>4. /\ r \in Seq(S) /\ Len(r) = Len(a) + Len(b)
      /\ \A j \in 1 .. Len(a) + Len(b) : r[j] = IF j <= Len(a) THEN a[j] ELSE b[j - Len(a)]
  <2>1. a \o b \in Seq(S)
    BY <1>1, <1>2
  <2>2. Len(a \o b) = Len(a) + Len(b)
    BY <1>1, <1>2, ConcatProperties
  <2>3. ASSUME NEW j \in 1 .. Len(a) + Len(b)
        PROVE  (a \o b)[j] = IF j <= Len(a) THEN a[j] ELSE b[j - Len(a)]
    BY <1>1, <1>2, ConcatProperties
  <2>4. QED
    BY <1>3, <2>1, <2>2, <2>3
<1>5. Len(r) = Len(s) - 1 /\ i \in Int
  BY <1>0, <1>1, <1>2, <1>4
<1>6. ASSUME NEW j \in 1 .. Len(r) PROVE r[j] = s[IF j < i THEN j ELSE j + 1]
  <2>1. CASE j < i
    BY <1>0, <1>1, <1>2, <1>4, <1>5, <2>1
  <2>2. CASE ~(j < i)
    <3>1. j - (i - 1) \in 1 .. Len(s) - i
      BY <1>0, <1>5, <2>2
    <3>2. r[j] = b[j - (i - 1)]
      <4>1. j \in 1 .. Len(a) + Len(b) /\ ~(j <= Len(a))
        BY <1>0, <1>1, <1>2, <1>4, <2>2
      <4>2. QED
        BY <1>1, <1>4, <4>1
    <3>3. i + (j - (i - 1)) = j + 1
      OBVIOUS
    <3>4. QED
      BY <1>2, <2>2, <3>1, <3>2, <3>3
  <2>3. QED
    BY <2>1, <2>2
<1>7. QED
  BY <1>4, <1>5, <1>6 DEF r

(* What is left to pair: every entry is a port and has the name of the     *)
(* input of its index, and no two entries are the same port.               *)
LeftOf(list, limit) ==
  /\ list \in Seq([index : Nat, name : Names])
  /\ \A i \in 1 .. Len(list) : /\ list[i].index \in 1 .. limit
                               /\ list[i].index \in DOMAIN ins
                               /\ list[i].name = ins[list[i].index]
  /\ \A i, j \in 1 .. Len(list) : list[i].index = list[j].index => i = j

OutputsNamed == IF Len(outs) < Len(ins) THEN Len(outs) ELSE Len(ins)

PortsSafe ==
  /\ ins \in Seq(Names) /\ outs \in Seq(Names)
  /\ LeftOf(inList, Len(ins)) /\ LeftOf(outList, OutputsNamed)
  /\ \A d \in paired : d.in \in 0 .. Len(ins) /\ d.out \in 0 .. OutputsNamed
  /\ \A d \in paired, i \in 1 .. Len(inList) : d.in # inList[i].index
  /\ \A d \in paired, i \in 1 .. Len(outList) : d.out # outList[i].index
  /\ \A n \in 1 .. Len(ins) : \/ \E d \in paired : d.in = n
                              \/ \E i \in 1 .. Len(inList) : inList[i].index = n
  /\ \A n \in 1 .. OutputsNamed : \/ \E d \in paired : d.out = n
                                  \/ \E i \in 1 .. Len(outList) : outList[i].index = n
  /\ Ports!NoPortTwice /\ Ports!PairsOfEqualLists

LEMMA EntriesFacts ==
  ASSUME NEW s \in Seq(Names)
  PROVE  /\ Ports!Entries(s) \in Seq([index : Nat, name : Names])
         /\ Len(Ports!Entries(s)) = Len(s)
         /\ \A i \in 1 .. Len(s) : /\ Ports!Entries(s)[i].index = i
                                   /\ Ports!Entries(s)[i].name = s[i]
<1>1. s \in [1 .. Len(s) -> Names] /\ Len(s) \in Nat
  OBVIOUS
<1>2. /\ Ports!Entries(s) \in [1 .. Len(s) -> [index : Nat, name : Names]]
      /\ \A i \in 1 .. Len(s) : /\ Ports!Entries(s)[i].index = i
                                /\ Ports!Entries(s)[i].name = s[i]
  BY <1>1 DEF Ports!Entries
<1>3. Ports!Entries(s) \in Seq([index : Nat, name : Names])
  <2>1. \A T : \A n \in Nat : [1 .. n -> T] \subseteq Seq(T)
    BY SeqDef, ZenonT(60)
  <2>2. QED
    BY <1>1, <1>2, <2>1
<1>4. Len(Ports!Entries(s)) = Len(s)
  BY <1>1, <1>2, <1>3
<1>5. QED
  BY <1>2, <1>3, <1>4

LEMMA PortsInit == Ports!Init => PortsSafe
<1> SUFFICES ASSUME Ports!Init PROVE PortsSafe
  OBVIOUS
<1>1. ins \in Seq(Names) /\ outs \in Seq(Names)
  BY DEF Ports!Init, Ports!Lists
<1>2. Len(ins) \in Nat /\ Len(outs) \in Nat /\ DOMAIN ins = 1 .. Len(ins)
  BY <1>1
<1> DEFINE s == SubSeq(ins, 1, OutputsNamed)
<1>3. s \in Seq(Names) /\ Len(s) = OutputsNamed /\ \A i \in 1 .. OutputsNamed : s[i] = ins[i]
  BY <1>1, <1>2 DEF OutputsNamed
<1>4. outList = Ports!Entries(s) /\ inList = Ports!Entries(ins) /\ paired = {}
  BY DEF Ports!Init, Ports!OutEntries, OutputsNamed
<1> HIDE DEF s
<1>5. OutputsNamed \in 0 .. Len(ins)
  BY <1>2 DEF OutputsNamed
<1>6. LeftOf(inList, Len(ins)) /\ \A n \in 1 .. Len(ins) : inList[n].index = n /\ Len(inList) = Len(ins)
  <2>1. /\ inList \in Seq([index : Nat, name : Names]) /\ Len(inList) = Len(ins)
        /\ \A i \in 1 .. Len(ins) : inList[i].index = i /\ inList[i].name = ins[i]
    BY <1>1, <1>4, EntriesFacts
  <2>2. QED
    BY <1>2, <2>1 DEF LeftOf
<1>7. /\ LeftOf(outList, OutputsNamed)
      /\ \A n \in 1 .. OutputsNamed : outList[n].index = n /\ Len(outList) = OutputsNamed
  <2>1. /\ outList \in Seq([index : Nat, name : Names]) /\ Len(outList) = OutputsNamed
        /\ \A i \in 1 .. OutputsNamed : outList[i].index = i /\ outList[i].name = ins[i]
    BY <1>3, <1>4, EntriesFacts
  <2>2. QED
    BY <1>2, <1>5, <2>1 DEF LeftOf
<1>8. QED
  BY <1>1, <1>4, <1>6, <1>7 DEF PortsSafe, Ports!NoPortTwice, Ports!PairsOfEqualLists

(* A device of a new input: its output, if it has one, is the first that   *)
(* matches, which is then gone from the list.                              *)
LEMMA PairInputPorts == PortsSafe /\ Ports!PairInput => PortsSafe'
<1> SUFFICES ASSUME PortsSafe, Ports!PairInput PROVE PortsSafe'
  OBVIOUS
<1> DEFINE in == Head(inList)
<1>1. /\ UNCHANGED <<ins, outs>> /\ inList # <<>> /\ inList' = Tail(inList)
      /\ ins \in Seq(Names) /\ outs \in Seq(Names) /\ DOMAIN ins = 1 .. Len(ins)
      /\ Len(ins) \in Nat /\ Len(outs) \in Nat /\ OutputsNamed' = OutputsNamed
      /\ OutputsNamed \in 0 .. Len(ins)
  BY DEF Ports!PairInput, PortsSafe, OutputsNamed
<1>2. /\ Len(inList) \in Nat \ {0} /\ in = inList[1]
      /\ Len(inList') = Len(inList) - 1
      /\ \A i \in 1 .. Len(inList) - 1 : inList'[i] = inList[i + 1]
      /\ inList' \in Seq([index : Nat, name : Names])
  BY <1>1 DEF PortsSafe, LeftOf
<1>3. /\ in.index \in 1 .. Len(ins) /\ in.name = ins[in.index]
      /\ \A i \in 1 .. Len(inList') : inList'[i].index # in.index
      /\ LeftOf(inList', Len(ins))
  BY <1>1, <1>2 DEF PortsSafe, LeftOf
<1>4. PICK o \in 0 .. OutputsNamed :
        /\ paired' = paired \cup {[in |-> in.index, out |-> o]}
        /\ LeftOf(outList', OutputsNamed)
        /\ o # 0 => Ports!Matches(in, [index |-> o, name |-> ins[o]])
        /\ \A i \in 1 .. Len(outList') : /\ outList'[i].index # o
                                         /\ \E j \in 1 .. Len(outList) : outList'[i] = outList[j]
        /\ \A j \in 1 .. Len(outList) : \/ outList[j].index = o
                                        \/ \E i \in 1 .. Len(outList') : outList'[i] = outList[j]
        /\ o # 0 => \E j \in 1 .. Len(outList) : outList[j].index = o
  <2>1. /\ outList \in Seq([index : Nat, name : Names]) /\ DOMAIN outList = 1 .. Len(outList)
        /\ Len(outList) \in Nat
    BY DEF PortsSafe, LeftOf
  <2>2. CASE Ports!Candidates(in) = {}
    <3>1. paired' = paired \cup {[in |-> in.index, out |-> 0]} /\ outList' = outList
      BY <2>2 DEF Ports!PairInput, Ports!None
    <3>2. \A i \in 1 .. Len(outList) : outList[i].index # 0
      BY DEF PortsSafe, LeftOf
    <3>3. 0 \in 0 .. OutputsNamed /\ LeftOf(outList, OutputsNamed)
      BY <1>1 DEF PortsSafe
    <3>4. QED
      BY <1>1, <3>1, <3>2, <3>3
  <2>3. CASE Ports!Candidates(in) # {}
    <3> DEFINE C == Ports!Candidates(in)
               i == CHOOSE i \in C : \A j \in C : i <= j
    <3>1. i \in 1 .. Len(outList) /\ Ports!Matches(in, outList[i])
      <4>1. C \in SUBSET Nat /\ C # {} /\ \A j \in C : j \in 1 .. Len(outList) /\ Ports!Matches(in, outList[j])
        BY <2>1, <2>3 DEF Ports!Candidates
      <4> HIDE DEF C
      <4>2. \E k \in C : \A j \in C : k <= j
        BY <4>1, LeastNatural
      <4>3. i \in C
        BY <4>2
      <4> HIDE DEF i
      <4>4. QED
        BY <4>1, <4>3
    <3>2. /\ paired' = paired \cup {[in |-> in.index, out |-> outList[i].index]}
          /\ outList' = Erased(outList, i)
      BY <2>3 DEF Ports!PairInput, Ports!Without, Erased
    <3> HIDE DEF i, C
    <3>3. /\ outList' \in Seq([index : Nat, name : Names]) /\ Len(outList') = Len(outList) - 1
          /\ \A j \in 1 .. Len(outList') : outList'[j] = outList[IF j < i THEN j ELSE j + 1]
      <4> DEFINE S == [index : Nat, name : Names]
      <4> HIDE DEF S
      <4>1. outList \in Seq(S)
        BY <2>1 DEF S
      <4>2. /\ outList' \in Seq(S) /\ Len(outList') = Len(outList) - 1
            /\ \A j \in 1 .. Len(outList') : outList'[j] = outList[IF j < i THEN j ELSE j + 1]
        BY <3>1, <3>2, <4>1, ErasedFacts
      <4>3. QED
        BY <4>2 DEF S
    <3> DEFINE o == outList[i].index
    <3>4. /\ o \in 1 .. OutputsNamed /\ outList[i].name = ins[o]
          /\ \A j, k \in 1 .. Len(outList) : outList[j].index = outList[k].index => j = k
          /\ \A j \in 1 .. Len(outList) : /\ outList[j].index \in 1 .. OutputsNamed
                                          /\ outList[j].index \in DOMAIN ins
                                          /\ outList[j].name = ins[outList[j].index]
      BY <3>1 DEF PortsSafe, LeftOf
    <3>5. Ports!Matches(in, [index |-> o, name |-> ins[o]])
      BY <3>1, <3>4 DEF Ports!Matches
    <3>6. \A j \in 1 .. Len(outList') :
            /\ (IF j < i THEN j ELSE j + 1) \in 1 .. Len(outList)
            /\ (IF j < i THEN j ELSE j + 1) # i
      BY SMTT(30), <2>1, <3>1, <3>3
    <3>7. LeftOf(outList', OutputsNamed)
      <4>1. ASSUME NEW j \in 1 .. Len(outList'), NEW k \in 1 .. Len(outList'),
                   outList'[j].index = outList'[k].index
            PROVE  j = k
        <5>1. (IF j < i THEN j ELSE j + 1) = (IF k < i THEN k ELSE k + 1)
          <6>1. /\ outList'[j] = outList[IF j < i THEN j ELSE j + 1]
                /\ outList'[k] = outList[IF k < i THEN k ELSE k + 1]
            BY <3>3
          <6>2. QED
            BY <3>4, <3>6, <4>1, <6>1
        <5>2. i \in Int /\ j \in Int /\ k \in Int
          BY <2>1, <3>1, <3>3
        <5>3. QED
          BY <5>1, <5>2
      <4>2. ASSUME NEW j \in 1 .. Len(outList')
            PROVE  /\ outList'[j].index \in 1 .. OutputsNamed
                   /\ outList'[j].index \in DOMAIN ins
                   /\ outList'[j].name = ins[outList'[j].index]
        BY SMTT(30), <3>3, <3>4, <3>6
      <4>3. QED
        BY <3>3, <4>1, <4>2 DEF LeftOf
    <3>8. ASSUME NEW j \in 1 .. Len(outList), outList[j].index # o
          PROVE  \E k \in 1 .. Len(outList') : outList'[k] = outList[j]
      <4>1. CASE j < i
        <5>1. j \in 1 .. Len(outList')
          BY <2>1, <3>1, <3>3, <4>1
        <5>2. QED
          BY <3>3, <4>1, <5>1
      <4>2. CASE j > i
        <5>1. j - 1 \in 1 .. Len(outList') /\ ~(j - 1 < i) /\ j - 1 + 1 = j
          BY <2>1, <3>1, <3>3, <4>2
        <5>2. QED
          BY <3>3, <5>1
      <4>3. QED
        BY <3>1, <3>8, <4>1, <4>2
    <3>9. QED
      <4>1. \A j \in 1 .. Len(outList') : outList'[j].index # o
        BY <3>1, <3>3, <3>4, <3>6
      <4>2. \A j \in 1 .. Len(outList') : \E k \in 1 .. Len(outList) : outList'[j] = outList[k]
        BY <3>3, <3>6
      <4>3. o \in 0 .. OutputsNamed /\ \E j \in 1 .. Len(outList) : outList[j].index = o
        BY <1>1, <3>1, <3>4
      <4> HIDE DEF o
      <4>4. paired' = paired \cup {[in |-> in.index, out |-> o]}
        BY <3>2 DEF o
      <4>5. QED
        BY <3>5, <3>7, <3>8, <4>1, <4>2, <4>3, <4>4
  <2>4. QED
    BY <2>2, <2>3
<1> DEFINE new == [in |-> in.index, out |-> o]
<1> HIDE DEF in
<1>5. \A d \in paired : d.in # in.index /\ (d.out = o => o = 0)
  BY <1>2, <1>4 DEF PortsSafe
<1>6. Ports!NoPortTwice'
  BY <1>1, <1>4, <1>5 DEF PortsSafe, Ports!NoPortTwice, Ports!None
<1>7. Ports!PairsOfEqualLists'
  <2> SUFFICES ASSUME Len(ins) = Len(outs),
                      \A i \in DOMAIN ins : Ports!TrueName([in |-> i, out |-> i])
               PROVE  \A d \in paired' : d.in # 0 /\ d.out # 0 => Ports!TrueName(d)
    BY <1>1 DEF Ports!PairsOfEqualLists, Ports!TrueName, Ports!None
  <2>1. \A d \in paired : d.in # 0 /\ d.out # 0 => Ports!TrueName(d)
    BY DEF PortsSafe, Ports!PairsOfEqualLists, Ports!None
  <2>2. ASSUME o # 0 PROVE Ports!TrueName(new)
    <3>1. o \in DOMAIN ins
      BY <1>1, <2>2
    <3>2. \/ outs[o] = ins[o]
          \/ ins[o] \in DOMAIN NamePairs /\ outs[o] = NamePairs[ins[o]]
      BY <3>1 DEF Ports!TrueName, Ports!Matches
    <3>3. \/ ins[o] = ins[in.index]
          \/ ins[in.index] \in DOMAIN NamePairs /\ ins[o] = NamePairs[ins[in.index]]
      BY <1>3, <1>4, <2>2 DEF Ports!Matches
    <3>4. ins[in.index] \in DOMAIN NamePairs => NamePairs[ins[in.index]] \notin DOMAIN NamePairs
      BY ControllersAssumption DEF Ports!PortsAssumption
    <3>5. QED
      BY <3>2, <3>3, <3>4 DEF Ports!TrueName, Ports!Matches
  <2>3. QED
    BY <1>4, <2>1, <2>2
<1>8. \A d : d \in paired' <=> d \in paired \/ d = new
  BY <1>4
<1>9. new.in = in.index /\ new.out = o
  OBVIOUS
<1> HIDE DEF new
<1>10. \A d \in paired' : d.in \in 0 .. Len(ins) /\ d.out \in 0 .. OutputsNamed
  BY <1>3, <1>8, <1>9 DEF PortsSafe
<1>11. \A d \in paired', i \in 1 .. Len(inList') : d.in # inList'[i].index
  <2>1. \A d \in paired, i \in 1 .. Len(inList) : d.in # inList[i].index
    BY DEF PortsSafe
  <2>2. \A i \in 1 .. Len(inList') : i + 1 \in 1 .. Len(inList) /\ inList'[i] = inList[i + 1]
    BY <1>2
  <2>3. QED
    BY <1>3, <1>8, <1>9, <2>1, <2>2
<1>12. \A d \in paired', i \in 1 .. Len(outList') : d.out # outList'[i].index
  BY <1>4, <1>8, <1>9 DEF PortsSafe
<1>13. ASSUME NEW n \in 1 .. Len(ins)
       PROVE  (\E d \in paired' : d.in = n) \/ \E i \in 1 .. Len(inList') : inList'[i].index = n
  <2>1. CASE \E d \in paired : d.in = n
    BY <1>8, <2>1
  <2>2. ASSUME NEW i \in 1 .. Len(inList), inList[i].index = n, n # in.index
        PROVE  \E k \in 1 .. Len(inList') : inList'[k].index = n
    <3>1. i # 1
      BY <1>2, <2>2
    <3>2. i - 1 \in 1 .. Len(inList') /\ i - 1 + 1 = i
      BY <1>2, <3>1
    <3>3. QED
      BY <1>2, <2>2, <3>2
  <2>3. CASE n = in.index
    BY <1>8, <1>9, <2>3
  <2>4. QED
    BY <2>1, <2>2, <2>3 DEF PortsSafe
<1>14. ASSUME NEW n \in 1 .. OutputsNamed
       PROVE  (\E d \in paired' : d.out = n) \/ \E i \in 1 .. Len(outList') : outList'[i].index = n
  <2>1. CASE \E d \in paired : d.out = n
    BY <1>8, <2>1
  <2>2. CASE \E j \in 1 .. Len(outList) : outList[j].index = n
    BY <1>4, <1>8, <1>9, <2>2
  <2>3. QED
    BY <2>1, <2>2 DEF PortsSafe
<1>15. LeftOf(inList, Len(ins))' /\ LeftOf(outList, OutputsNamed)'
  BY <1>1, <1>3, <1>4 DEF LeftOf
<1>16. QED
  BY <1>1, <1>6, <1>7, <1>10, <1>11, <1>12, <1>13, <1>14, <1>15 DEF PortsSafe

LEMMA OutputsOnlyPorts == PortsSafe /\ Ports!OutputsOnly => PortsSafe'
<1> SUFFICES ASSUME PortsSafe, Ports!OutputsOnly PROVE PortsSafe'
  OBVIOUS
<1>1. /\ UNCHANGED <<ins, outs, inList>> /\ inList = <<>> /\ outList' = <<>>
      /\ ins \in Seq(Names) /\ outs \in Seq(Names) /\ OutputsNamed' = OutputsNamed
      /\ outList \in Seq([index : Nat, name : Names]) /\ DOMAIN outList = 1 .. Len(outList)
  BY DEF Ports!OutputsOnly, PortsSafe, LeftOf, OutputsNamed
<1>2. Len(inList) = 0 /\ Len(outList') = 0
  BY <1>1
<1> DEFINE new(i) == [in |-> 0, out |-> outList[i].index]
<1>3. \A d : d \in paired' <=> d \in paired \/ \E i \in 1 .. Len(outList) : d = new(i)
  BY <1>1 DEF Ports!OutputsOnly, Ports!None
<1>4. /\ \A i \in 1 .. Len(outList) : /\ outList[i].index \in 1 .. OutputsNamed
                                      /\ \A d \in paired : d.out # outList[i].index
      /\ \A i, j \in 1 .. Len(outList) : outList[i].index = outList[j].index => i = j
  BY DEF PortsSafe, LeftOf
<1>5. \A i : new(i).in = 0 /\ new(i).out = outList[i].index
  OBVIOUS
<1>6. \A i, j \in 1 .. Len(outList) : new(i).out = new(j).out => new(i) = new(j)
  BY <1>4, <1>5
<1> HIDE DEF new
<1>7. LeftOf(inList, Len(ins))' /\ LeftOf(outList, OutputsNamed)'
  BY <1>1, <1>2 DEF PortsSafe, LeftOf
<1>8. Len(ins) \in Nat /\ OutputsNamed \in Nat
  BY <1>1 DEF OutputsNamed
<1>9. \A d \in paired' : d.in \in 0 .. Len(ins) /\ d.out \in 0 .. OutputsNamed
  BY <1>3, <1>4, <1>5, <1>8 DEF PortsSafe
<1>10. \A n \in 1 .. Len(ins) : \E d \in paired' : d.in = n
  BY <1>2, <1>3 DEF PortsSafe
<1>11. ASSUME NEW n \in 1 .. OutputsNamed PROVE \E d \in paired' : d.out = n
  <2>1. CASE \E d \in paired : d.out = n
    BY <1>3, <2>1
  <2>2. CASE \E i \in 1 .. Len(outList) : outList[i].index = n
    BY <1>3, <1>5, <2>2
  <2>3. QED
    BY <2>1, <2>2 DEF PortsSafe
<1>12. Ports!NoPortTwice'
  <2>1. \A d, e \in paired : d # e => (d.in = e.in => d.in = 0) /\ (d.out = e.out => d.out = 0)
    BY DEF PortsSafe, Ports!NoPortTwice, Ports!None
  <2>2. \A d, e \in paired' : d # e => (d.in = e.in => d.in = 0) /\ (d.out = e.out => d.out = 0)
    BY <1>3, <1>4, <1>5, <1>6, <2>1
  <2>3. QED
    BY <2>2 DEF Ports!NoPortTwice, Ports!None
<1>13. Ports!PairsOfEqualLists'
  <2>1. \A d \in paired' : d.in # 0 => d \in paired
    BY <1>3, <1>5
  <2>2. QED
    BY <1>1, <2>1 DEF PortsSafe, Ports!PairsOfEqualLists, Ports!TrueName, Ports!None
<1>14. QED
  BY <1>1, <1>2, <1>7, <1>9, <1>10, <1>11, <1>12, <1>13 DEF PortsSafe

LEMMA PortsNext == PortsSafe /\ [Ports!Next]_portVars => PortsSafe'
<1>1. ASSUME PortsSafe, UNCHANGED portVars PROVE PortsSafe'
  BY <1>1 DEF PortsSafe, portVars, LeftOf, OutputsNamed, Ports!NoPortTwice,
              Ports!PairsOfEqualLists, Ports!TrueName
<1>2. QED
  BY <1>1, PairInputPorts, OutputsOnlyPorts DEF Ports!Next

LEMMA PortsImplies ==
  PortsSafe => Ports!NoPortTwice /\ Ports!EveryPortOpened /\ Ports!PairsOfEqualLists
<1> SUFFICES ASSUME PortsSafe, Ports!Done PROVE Ports!EveryPortOpened
  BY DEF PortsSafe, Ports!EveryPortOpened
<1>1. /\ DOMAIN ins = 1 .. Len(ins) /\ DOMAIN outs = 1 .. Len(outs)
      /\ Len(ins) \in Nat /\ Len(outs) \in Nat
      /\ Len(inList) = 0 /\ Len(outList) = 0
  BY DEF PortsSafe, Ports!Done
<1>2. {d.in : d \in paired} \ {0} = DOMAIN ins
  BY <1>1 DEF PortsSafe
<1>3. ASSUME Len(outs) <= Len(ins) PROVE {d.out : d \in paired} \ {0} = DOMAIN outs
  <2>1. OutputsNamed = Len(outs)
    <3>1. Len(outs) \in Nat /\ Len(ins) \in Nat
      BY <1>1
    <3>2. Len(outs) < Len(ins) \/ Len(outs) = Len(ins)
      BY <1>3, <3>1
    <3>3. QED
      BY <3>2 DEF OutputsNamed
  <2>2. QED
    BY <1>1, <2>1 DEF PortsSafe
<1>4. QED
  BY <1>2, <1>3 DEF Ports!EveryPortOpened, Ports!None

LEMMA PortsSteps == [Next]_vars => [Ports!Next]_portVars
BY DEF Next, InHub, InNative, InPorts, InBridge, InPage, vars

(* Every device of the host is opened once and has what it is opened for,  *)
(* and no port is opened twice, forgotten or, while both lists have the    *)
(* same order, paired with the output of another name.                     *)
THEOREM OpenDevicesAreServed == Spec => []OpenIsServed
<1>1. Init => NativeSafe /\ PortsSafe
  BY NativeInit, PortsInit DEF Init
<1>2. NativeSafe /\ PortsSafe /\ [Next]_vars => NativeSafe' /\ PortsSafe'
  BY NativeSteps, NativeNext, PortsSteps, PortsNext
<1>3. NativeSafe /\ PortsSafe => OpenIsServed
  BY NativeImplies, PortsImplies DEF OpenIsServed
<1>4. QED
  BY <1>1, <1>2, <1>3, PTL DEF Spec

-----------------------------------------------------------------------------
(* MIDI devices of a browser.                                              *)

(* The owners o are those of the devices D, which have no clocks.          *)
BridgedOwners(o, D) ==
  /\ o \in Bridges!Owners
  /\ o.alive = D /\ ~o.misused
  /\ o.controllers = D /\ o.hub \subseteq D /\ o.clocks = {}
  /\ \A d \in BridgeAddress : o.sources[d] = 0
  /\ \A d \in BridgeAddress : o.listeners[d] = IF d \in o.hub THEN {"controller"} ELSE {}

Messages == [type : {"connected", "disconnected"}, id : Nat, device : BridgePlug]

Hello(box, id) == \E j \in 1 .. Len(box) : box[j].type = "connected" /\ box[j].id = id
Goodbye(box, id) == \E j \in 1 .. Len(box) : box[j].type = "disconnected" /\ box[j].id = id

(* Who has the ids of has hears of another id once, before all else of it. *)
NewIds(box, has, top) ==
  \A j \in 1 .. Len(box) :
    /\ box[j].id \in 1 .. top
    /\ box[j].type = "connected" =>
         box[j].id \notin has /\ \A i \in 1 .. j - 1 : box[i].id # box[j].id

(* Once all of box has arrived there are the ids that the page has told.   *)
Tells(box, has, told, top) ==
  \A id \in 1 .. top : id \in told <=> (id \in has \/ Hello(box, id)) /\ ~Goodbye(box, id)

(* What is announced is what the page has.                                 *)
NamesOf(box, e) ==
  \A j \in 1 .. Len(box) :
    box[j].type = "connected" /\ box[j].id \in DOMAIN e => box[j].device = e[box[j].id][1]

Ids(b) == IF b \in DOMAIN devices THEN DOMAIN devices[b] ELSE {}

BridgeTables ==
  /\ ports \in [BridgePlug -> {"none", "in", "both"}]
  /\ pending \in 0 .. Cardinality(Bridge) /\ current \in Bridge \cup {0}
  /\ stage \in [Bridge -> Bridges!Stages]
  /\ link \in [Bridge -> {"none", "up", "closed", "lost"}]
  /\ enumerator \in [Bridge -> Nat] /\ wire \in [Bridge -> Seq(Messages)]
  /\ DOMAIN entries = Bridge
  /\ DOMAIN devices \subseteq Bridge

(* What page and server have of bridge b.                                  *)
BridgeKept(b) ==
  /\ entries[b] \in [DOMAIN entries[b] -> BridgePlug \X {"in", "both"}]
  /\ DOMAIN entries[b] \subseteq 1 .. enumerator[b]
  /\ Ids(b) \subseteq 1 .. enumerator[b]
  /\ stage[b] \in {"unborn", "asking", "connecting"} =>
       link[b] = "none" /\ DOMAIN entries[b] = {}
  /\ link[b] = "none" => b \notin DOMAIN devices
  /\ link[b] = "up" => b \in DOMAIN devices
  /\ b \notin DOMAIN devices => Len(wire[b]) = 0
  /\ b \in DOMAIN devices => devices[b] \in [DOMAIN devices[b] -> BridgeAddress]
  /\ NewIds(wire[b], Ids(b), enumerator[b])

BridgeMirrored(b) ==
  link[b] = "up" =>
    /\ Tells(wire[b], Ids(b), DOMAIN entries[b], enumerator[b])
    /\ NamesOf(wire[b], entries[b])
    /\ \A id \in Ids(b) \cap DOMAIN entries[b] :
         devices[b][id] \in bridged.hub <=> entries[b][id][1] \in BridgeKnown

BridgeSafe ==
  /\ BridgeTables
  /\ BridgedOwners(bridged, Bridges!OpenDevices) /\ Bridges!NoneLeaks
  /\ \A b \in Bridge : BridgeKept(b) /\ BridgeMirrored(b)

Adopted(o, S, k) == Bridges!Created(Bridges!Allocate(o, S), S, k, Bridges!Registered)

LEMMA BridgeAllocated ==
  ASSUME NEW o, NEW S, S \subseteq BridgeAddress, o \in Bridges!Owners
  PROVE  LET a == Bridges!Allocate(o, S)
         IN  /\ a \in Bridges!Owners
             /\ a.alive = o.alive \cup S /\ a.controllers = o.controllers /\ a.hub = o.hub
             /\ a.clocks = o.clocks /\ a.sources = o.sources /\ a.misused = o.misused
             /\ a.listeners = [c \in BridgeAddress |-> IF c \in S THEN {} ELSE o.listeners[c]]
<1>1. Bridges!Allocate(o, S) \in Bridges!Owners
  BY DEF Bridges!Owners, Bridges!Allocate
<1>2. Bridges!Allocate(o, S).alive = o.alive \cup S
  BY DEF Bridges!Owners, Bridges!Allocate
<1>3. LET a == Bridges!Allocate(o, S)
      IN  /\ a.controllers = o.controllers /\ a.hub = o.hub
          /\ a.clocks = o.clocks /\ a.sources = o.sources /\ a.misused = o.misused
  BY DEF Bridges!Owners, Bridges!Allocate
<1>4. Bridges!Allocate(o, S).listeners =
        [c \in BridgeAddress |-> IF c \in S THEN {} ELSE o.listeners[c]]
  BY DEF Bridges!Owners, Bridges!Allocate
<1>5. QED
  BY <1>1, <1>2, <1>3, <1>4

NewlyMade(o, S, k) == (S \cap k) \ o.controllers

MadeFor(e, o, S, k) ==
  LET made == NewlyMade(o, S, k)
  IN  /\ e \in Bridges!Owners
      /\ e.alive = o.alive /\ e.controllers = o.controllers \cup S
      /\ e.hub = o.hub \cup made /\ e.clocks = o.clocks /\ e.sources = o.sources
      /\ e.misused = (o.misused \/ ~(made \subseteq o.alive))
      /\ \A c \in BridgeAddress : e.listeners[c] =
           IF c \in made THEN o.listeners[c] \cup {"controller"} ELSE o.listeners[c]

LEMMA BridgeControllers ==
  ASSUME NEW o, NEW S, S \subseteq BridgeAddress, o \in Bridges!Owners, NEW k
  PROVE  MadeFor(Bridges!ControllerCreated(o, S, k), o, S, k)
<1>1. LET e == Bridges!ControllerCreated(o, S, k)
      IN  e \in Bridges!Owners /\ e.alive = o.alive /\ e.controllers = o.controllers \cup S
  BY DEF Bridges!Owners, Bridges!ControllerCreated, Bridges!Listen
<1>2. LET e == Bridges!ControllerCreated(o, S, k)
          made == (S \cap k) \ o.controllers
      IN  /\ e.hub = o.hub \cup made /\ e.clocks = o.clocks /\ e.sources = o.sources
          /\ e.misused = (o.misused \/ ~(made \subseteq o.alive))
  BY DEF Bridges!Owners, Bridges!ControllerCreated, Bridges!Listen
<1>3. LET e == Bridges!ControllerCreated(o, S, k)
          made == (S \cap k) \ o.controllers
      IN  e.listeners = [c \in BridgeAddress |-> IF c \in made
            THEN o.listeners[c] \cup {"controller"} ELSE o.listeners[c]]
  BY DEF Bridges!Owners, Bridges!ControllerCreated, Bridges!Listen
<1>4. QED
  BY <1>1, <1>2, <1>3 DEF MadeFor, NewlyMade

(* The devices S are new, and k of them are known.                         *)
Adoptable(D, S, k) == S \subseteq BridgeAddress /\ S \cap D = {} /\ k \subseteq S

LEMMA BridgedMade ==
  ASSUME NEW o, NEW D, BridgedOwners(o, D), NEW S, NEW k, Adoptable(D, S, k)
  PROVE  /\ BridgedOwners(Adopted(o, S, k), D \cup S)
         /\ Adopted(o, S, k).hub = o.hub \cup k
<1> DEFINE a == Bridges!Allocate(o, S)
           e == Bridges!ControllerCreated(a, S, k)
           made == NewlyMade(a, S, k)
<1>1. /\ o \in Bridges!Owners /\ o.alive = D /\ ~o.misused
      /\ o.controllers = D /\ o.hub \subseteq D /\ o.clocks = {} /\ D \subseteq BridgeAddress
  BY DEF BridgedOwners, Bridges!Owners
<1>2. S \subseteq BridgeAddress /\ S \cap D = {} /\ k \subseteq S
  BY DEF Adoptable
<1>3. /\ a \in Bridges!Owners
      /\ a.alive = D \cup S /\ a.controllers = D /\ a.hub = o.hub
      /\ a.clocks = {} /\ a.sources = o.sources /\ ~a.misused
      /\ a.listeners = [c \in BridgeAddress |-> IF c \in S THEN {} ELSE o.listeners[c]]
  BY <1>1, <1>2, BridgeAllocated
<1> HIDE DEF a
<1>4. /\ e \in Bridges!Owners
      /\ e.alive = a.alive /\ e.controllers = a.controllers \cup S
      /\ e.hub = a.hub \cup made /\ e.clocks = a.clocks /\ e.sources = a.sources
      /\ e.misused = (a.misused \/ ~(made \subseteq a.alive))
      /\ \A c \in BridgeAddress : e.listeners[c] =
           IF c \in made THEN a.listeners[c] \cup {"controller"} ELSE a.listeners[c]
  <2>1. a \in Bridges!Owners
    BY <1>3
  <2>2. S \subseteq BridgeAddress
    BY <1>2
  <2>3. MadeFor(e, a, S, k)
    BY <2>1, <2>2, BridgeControllers
  <2> HIDE DEF e
  <2>4. QED
    BY <2>3 DEF MadeFor
<1> HIDE DEF e
<1>5. made = k
  BY <1>2, <1>3 DEF NewlyMade
<1> HIDE DEF made
<1>6. \A c \in BridgeAddress : e.listeners[c] = IF c \in e.hub THEN {"controller"} ELSE {}
  <2>1. \A c \in BridgeAddress : o.listeners[c] = IF c \in o.hub THEN {"controller"} ELSE {}
    BY DEF BridgedOwners
  <2>2. e.hub = o.hub \cup k
    BY <1>3, <1>4, <1>5
  <2>3. \A c \in BridgeAddress : a.listeners[c] = IF c \in S THEN {} ELSE o.listeners[c]
    BY <1>3
  <2>4. \A c \in BridgeAddress : e.listeners[c] = IF c \in k THEN a.listeners[c] \cup {"controller"}
                                                              ELSE a.listeners[c]
    BY <1>4, <1>5
  <2>5. \A c : (c \in k => c \in S) /\ (c \in o.hub => c \notin S)
    BY <1>1, <1>2
  <2>6. QED
    BY <2>1, <2>2, <2>3, <2>4, <2>5
<1>7. \A c \in BridgeAddress : e.sources[c] = 0
  BY <1>3, <1>4 DEF BridgedOwners
<1>8. BridgedOwners(e, D \cup S) /\ e.hub = o.hub \cup k
  BY <1>1, <1>2, <1>3, <1>4, <1>5, <1>6, <1>7 DEF BridgedOwners
<1>9. QED
  BY <1>8 DEF e, a, Adopted, Bridges!Created, Bridges!Registered

LEMMA BridgedReleased ==
  ASSUME NEW o, NEW D, BridgedOwners(o, D), NEW G \in SUBSET D
  PROVE  BridgedOwners(Bridges!Release(o, G), D \ G) /\ Bridges!Release(o, G).hub = o.hub \ G
<1> DEFINE c == Bridges!ControllerDestroyed(o, G)
           e == Bridges!Delete(c, G)
<1>1. G \subseteq BridgeAddress /\ o.hub \subseteq D
  BY DEF BridgedOwners, Bridges!Owners
<1>2. /\ c \in Bridges!Owners
      /\ c.alive = D /\ c.controllers = D \ G /\ c.hub = o.hub \ G
      /\ c.clocks = {} /\ c.sources = o.sources
      /\ c.misused = (o.misused \/ ~(G \cap o.hub \subseteq o.alive))
      /\ c.listeners = [d \in BridgeAddress |-> IF d \in G \cap o.hub
                          THEN o.listeners[d] \ {"controller"} ELSE o.listeners[d]]
  BY DEF BridgedOwners, Bridges!Owners, Bridges!ControllerDestroyed, Bridges!Unlisten
<1>3. ~c.misused
  BY <1>1, <1>2 DEF BridgedOwners
<1> HIDE DEF c
<1>4. /\ e \in Bridges!Owners
      /\ e.alive = c.alive \ G /\ e.controllers = c.controllers /\ e.hub = c.hub
      /\ e.clocks = c.clocks /\ e.sources = c.sources /\ e.misused = c.misused
      /\ e.listeners = [d \in BridgeAddress |-> IF d \in G THEN {} ELSE c.listeners[d]]
  BY <1>2 DEF Bridges!Owners, Bridges!Delete
<1> HIDE DEF e
<1>5. \A d \in BridgeAddress : e.listeners[d] = IF d \in e.hub THEN {"controller"} ELSE {}
  <2>1. \A d \in BridgeAddress : o.listeners[d] = IF d \in o.hub THEN {"controller"} ELSE {}
    BY DEF BridgedOwners
  <2>2. QED
    BY <1>2, <1>4, <2>1
<1>6. \A d \in BridgeAddress : e.sources[d] = 0
  BY <1>2, <1>4 DEF BridgedOwners
<1>7. BridgedOwners(e, D \ G) /\ e.hub = o.hub \ G
  BY <1>1, <1>2, <1>3, <1>4, <1>5, <1>6 DEF BridgedOwners
<1>8. QED
  BY <1>7 DEF e, c, Bridges!Release, Bridges!Destroyed, Bridges!Registered

LEMMA ListOfSet ==
  ASSUME NEW S, IsFiniteSet(S)
  PROVE  LET f == Bridges!SetToSeq(S)
         IN  /\ f \in Seq(S) /\ Len(f) = Cardinality(S) /\ Len(f) \in Nat
             /\ \A x \in S : \E i \in 1 .. Len(f) : f[i] = x
             /\ \A i, j \in 1 .. Len(f) : f[i] = f[j] => i = j
<1> DEFINE n == Cardinality(S)
           f == Bridges!SetToSeq(S)
<1>1. n \in Nat /\ ExistsBijection(1 .. n, S)
  BY FS_CardinalityType
<1>2. Bridges!Cardinality(S) = n
  BY DEF Bridges!Cardinality, Cardinality
<1> HIDE DEF n
<1>3. \E g \in [1 .. n -> S] : Bridges!IsInjective(g)
  BY <1>1 DEF ExistsBijection, Bijection, Injection, IsInjective, Bridges!IsInjective
<1>4. f \in [1 .. n -> S] /\ Bridges!IsInjective(f)
  BY <1>2, <1>3 DEF Bridges!SetToSeq
<1> HIDE DEF f
<1>5. f \in Seq(S) /\ Len(f) = n
  BY <1>1, <1>4
<1>6. ASSUME NEW x \in S PROVE \E i \in 1 .. n : f[i] = x
  <2> SUFFICES ASSUME \A i \in 1 .. n : f[i] # x PROVE FALSE
    OBVIOUS
  <2>1. f \in [1 .. n -> S \ {x}]
    BY <1>4
  <2>2. IsFiniteSet(S \ {x}) /\ Cardinality(S \ {x}) = n - 1
    BY FS_RemoveElement DEF n
  <2>3. f \in Injection(1 .. n, S \ {x})
    BY <1>4, <2>1 DEF Injection, IsInjective, Bridges!IsInjective
  <2>4. IsFiniteSet(1 .. n) /\ Cardinality(1 .. n) = n
    BY <1>1, FS_Interval
  <2>5. Cardinality(1 .. n) <= Cardinality(S \ {x})
    BY <2>2, <2>3, <2>4, FS_Injection DEF ExistsInjection
  <2>6. QED
    BY <1>1, <2>2, <2>4, <2>5
<1>7. QED
  BY <1>1, <1>4, <1>5, <1>6 DEF Bridges!IsInjective, f, n

LEMMA LaterIds ==
  ASSUME NEW box \in Seq(Messages), NEW has, NEW top \in Nat, NEW n \in Nat, n >= top,
         NewIds(box, has, top)
  PROVE  NewIds(box, has, n)
BY DEF NewIds

(* The first message is handled.                                           *)
LEMMA TailTells ==
  ASSUME NEW box \in Seq(Messages), box # <<>>, NEW has, NEW told, NEW top \in Nat,
         NewIds(box, has, top), Tells(box, has, told, top), NEW now,
         now = IF Head(box).type = "connected" THEN has \cup {Head(box).id}
                                               ELSE has \ {Head(box).id}
  PROVE  NewIds(Tail(box), now, top) /\ Tells(Tail(box), now, told, top)
<1> DEFINE m == Head(box)
           rest == Tail(box)
<1>1. /\ Len(box) \in Nat \ {0} /\ m = box[1] /\ Len(rest) = Len(box) - 1
      /\ \A j \in 1 .. Len(rest) : rest[j] = box[j + 1] /\ j + 1 \in 1 .. Len(box)
      /\ 1 \in 1 .. Len(box)
  BY HeadTailProperties
<1>2. \A j \in 2 .. Len(box) : j - 1 \in 1 .. Len(rest) /\ rest[j - 1] = box[j]
  BY <1>1
<1>3. /\ m.id \in 1 .. top /\ m.type = "connected" => m.id \notin has
      /\ m.type \in {"connected", "disconnected"}
  <2>1. box[1] \in Messages
    BY <1>1
  <2>2. QED
    BY <1>1, <2>1 DEF NewIds, Messages
<1>4. \A j \in 1 .. Len(rest) : rest[j].type = "connected" => rest[j].id # m.id
  BY <1>1 DEF NewIds
<1>5. now = IF m.type = "connected" THEN has \cup {m.id} ELSE has \ {m.id}
  OBVIOUS
<1> HIDE DEF m, rest
<1>6. NewIds(rest, now, top)
  <2>1. \A j \in 1 .. Len(rest) : \A i \in 1 .. j - 1 : i \in 1 .. Len(rest) /\ i + 1 \in 1 .. (j + 1) - 1
    BY <1>1
  <2>2. ASSUME NEW j \in 1 .. Len(rest), rest[j].type = "connected"
        PROVE  rest[j].id \notin now /\ \A i \in 1 .. j - 1 : rest[i].id # rest[j].id
    <3>1. rest[j].id \notin has /\ \A i \in 1 .. (j + 1) - 1 : box[i].id # rest[j].id
      BY <1>1, <2>2 DEF NewIds
    <3>2. rest[j].id \notin now
      BY <1>4, <1>5, <2>2, <3>1
    <3>3. QED
      BY <1>1, <2>1, <3>1, <3>2
  <2>3. \A j \in 1 .. Len(rest) : rest[j].id \in 1 .. top
    BY <1>1 DEF NewIds
  <2>4. QED
    BY <2>2, <2>3 DEF NewIds
<1>7. ASSUME NEW id
      PROVE  /\ Hello(box, id) <=> Hello(rest, id) \/ (m.type = "connected" /\ m.id = id)
             /\ Goodbye(box, id) <=> Goodbye(rest, id) \/ (m.type = "disconnected" /\ m.id = id)
  <2>1. \A j \in 1 .. Len(box) : j = 1 \/ j \in 2 .. Len(box)
    BY <1>1
  <2>2. QED
    BY SMTT(30), <1>1, <1>2, <2>1 DEF Hello, Goodbye
<1>8. ~Hello(rest, m.id)
  BY <1>4 DEF Hello
<1>9. Tells(rest, now, told, top)
  BY <1>3, <1>5, <1>7, <1>8 DEF Tells
<1>10. QED
  BY <1>6, <1>9 DEF rest

LEMMA TailNames ==
  ASSUME NEW box \in Seq(Messages), box # <<>>, NEW e, NamesOf(box, e)
  PROVE  NamesOf(Tail(box), e)
<1>1. /\ Len(box) \in Nat \ {0} /\ Len(Tail(box)) = Len(box) - 1
      /\ \A j \in 1 .. Len(Tail(box)) : Tail(box)[j] = box[j + 1] /\ j + 1 \in 1 .. Len(box)
  BY HeadTailProperties
<1>2. QED
  BY <1>1 DEF NamesOf

(* A connection that breaks has delivered a prefix.                        *)
LEMMA BrokenIds ==
  ASSUME NEW box \in Seq(Messages), NEW n \in 0 .. Len(box), NEW has, NEW top \in Nat,
         NewIds(box, has, top)
  PROVE  SubSeq(box, 1, n) \in Seq(Messages) /\ NewIds(SubSeq(box, 1, n), has, top)
<1> DEFINE s == SubSeq(box, 1, n)
<1>1. Len(box) \in Nat
  OBVIOUS
<1>2. /\ s \in Seq(Messages) /\ Len(s) = n
      /\ \A j \in 1 .. n : s[j] = box[j] /\ j \in 1 .. Len(box)
  BY <1>1
<1> HIDE DEF s
<1>3. \A j \in 1 .. n : \A i \in 1 .. j - 1 : i \in 1 .. n
  BY <1>1
<1>4. QED
  BY <1>2, <1>3 DEF NewIds, s

(* More is told: hellos to the ids from top + 1 to n, and goodbyes.        *)
MoreTold(more, top, n, gone) ==
  /\ more \in Seq(Messages)
  /\ \A j \in 1 .. Len(more) :
       \/ more[j].type = "connected" /\ more[j].id = top + j /\ top + j <= n
       \/ more[j].type = "disconnected" /\ more[j].id \in gone
  /\ \A id \in top + 1 .. n : Hello(more, id)
  /\ \A id \in gone : Goodbye(more, id)

LEMMA MoreTells ==
  ASSUME NEW box \in Seq(Messages), NEW has, NEW told, NEW top \in Nat, NEW n \in Nat,
         n >= top, NEW gone \in SUBSET told, told \subseteq 1 .. top, has \subseteq 1 .. top,
         NewIds(box, has, top), NEW more, MoreTold(more, top, n, gone)
  PROVE  /\ box \o more \in Seq(Messages) /\ NewIds(box \o more, has, n)
         /\ Tells(box, has, told, top) =>
              Tells(box \o more, has, (told \ gone) \cup (top + 1 .. n), n)
<1> DEFINE all == box \o more
           l == Len(box)
<1>1. /\ all \in Seq(Messages) /\ Len(all) = l + Len(more) /\ l \in Nat /\ Len(more) \in Nat
      /\ \A j \in 1 .. l + Len(more) : all[j] = IF j <= l THEN box[j] ELSE more[j - l]
  BY ConcatProperties DEF MoreTold
<1> HIDE DEF all
<1>2. /\ \A j \in 1 .. l : j \in 1 .. Len(all) /\ all[j] = box[j]
      /\ \A j \in 1 .. Len(more) : l + j \in 1 .. Len(all) /\ all[l + j] = more[j]
      /\ \A j \in 1 .. Len(all) : j \in 1 .. l \/ \E k \in 1 .. Len(more) : j = l + k
  <2>1. \A j \in 1 .. l : j \in 1 .. l + Len(more) /\ j <= l
    BY <1>1
  <2>2. \A j \in 1 .. Len(more) : l + j \in 1 .. l + Len(more) /\ ~(l + j <= l) /\ l + j - l = j
    BY <1>1
  <2>3. ASSUME NEW j \in 1 .. Len(all) PROVE j \in 1 .. l \/ \E k \in 1 .. Len(more) : j = l + k
    <3>1. j \in 1 .. l \/ (j - l \in 1 .. Len(more) /\ j = l + (j - l))
      BY <1>1
    <3>2. QED
      BY <3>1
  <2>4. \A j \in 1 .. l : j \in 1 .. Len(all) /\ all[j] = box[j]
    BY <1>1, <2>1
  <2>5. ASSUME NEW j \in 1 .. Len(more) PROVE l + j \in 1 .. Len(all) /\ all[l + j] = more[j]
    BY <1>1, <2>2
  <2>6. QED
    BY <2>3, <2>4, <2>5
<1> HIDE DEF l
<1>3. \A k \in 1 .. Len(more) : /\ more[k].type \in {"connected", "disconnected"}
                                /\ more[k].id \in 1 .. n
                                /\ more[k].type = "connected" => more[k].id = top + k
                                /\ more[k].type = "disconnected" => more[k].id \in gone
  <2>1. \A k \in 1 .. Len(more) : k \in Int /\ top + k >= 1
    BY <1>1
  <2>2. \A id \in gone : id \in 1 .. n
    OBVIOUS
  <2> SUFFICES ASSUME NEW k \in 1 .. Len(more)
               PROVE  /\ more[k].type \in {"connected", "disconnected"}
                      /\ more[k].id \in 1 .. n
                      /\ more[k].type = "connected" => more[k].id = top + k
                      /\ more[k].type = "disconnected" => more[k].id \in gone
    OBVIOUS
  <2>3. CASE more[k].type = "connected" /\ more[k].id = top + k /\ top + k <= n
    <3>1. more[k].id \in 1 .. n
      BY <2>1, <2>3
    <3>2. QED
      BY <2>3, <3>1
  <2>4. CASE more[k].type = "disconnected" /\ more[k].id \in gone
    BY <2>2, <2>4
  <2>5. QED
    BY <2>3, <2>4 DEF MoreTold
<1>4. \A j \in 1 .. Len(box) : box[j].id \in 1 .. top
  BY DEF NewIds
<1>5. NewIds(all, has, n)
  <2>1. \A j \in 1 .. Len(all) : all[j].id \in 1 .. n
    <3>1. \A j \in 1 .. l : box[j].id \in 1 .. n
      BY <1>4 DEF l
    <3>2. QED
      BY <1>2, <1>3, <3>1
  <2>2. ASSUME NEW j \in 1 .. l, all[j].type = "connected"
        PROVE  all[j].id \notin has /\ \A i \in 1 .. j - 1 : all[i].id # all[j].id
    <3>1. \A i \in 1 .. j - 1 : i \in 1 .. l
      BY <1>1
    <3>2. QED
      BY <1>2, <2>2, <3>1 DEF NewIds, l
  <2>3. ASSUME NEW k \in 1 .. Len(more), more[k].type = "connected"
        PROVE  all[l + k].id \notin has /\ \A i \in 1 .. l + k - 1 : all[i].id # all[l + k].id
    <3>1. all[l + k] = more[k] /\ more[k].id = top + k
      BY <1>2, <1>3, <2>3
    <3>2. ASSUME NEW i \in 1 .. l + k - 1 PROVE all[i].id # top + k
      <4>1. CASE i \in 1 .. l
        BY <1>2, <1>4, <4>1 DEF l
      <4>2. CASE i \notin 1 .. l
        <5>1. i \in 1 .. Len(all)
          BY <1>1
        <5>2. PICK q \in 1 .. Len(more) : i = l + q
          BY <1>2, <4>2, <5>1
        <5>3. q < k /\ all[i] = more[q]
          BY <1>1, <1>2, <5>2
        <5>4. more[q].id = top + q \/ more[q].id \in 1 .. top
          BY <1>3, <5>2
        <5>5. QED
          BY <1>1, <5>3, <5>4
      <4>3. QED
        BY <4>1, <4>2
    <3>3. top + k \notin has
      BY <1>1
    <3>4. QED
      BY <3>1, <3>2, <3>3
  <2>4. ASSUME NEW j \in 1 .. Len(all), all[j].type = "connected"
        PROVE  all[j].id \notin has /\ \A i \in 1 .. j - 1 : all[i].id # all[j].id
    <3>1. CASE j \in 1 .. l
      BY <2>2, <2>4, <3>1
    <3>2. CASE \E k \in 1 .. Len(more) : j = l + k
      <4>1. PICK k \in 1 .. Len(more) : j = l + k
        BY <3>2
      <4>2. all[j] = more[k]
        BY <1>2, <4>1
      <4>3. QED
        <5>1. more[k].type = "connected"
          BY <2>4, <4>2
        <5>2. all[l + k].id \notin has /\ \A i \in 1 .. l + k - 1 : all[i].id # all[l + k].id
          BY <2>3, <5>1
        <5>3. j - 1 = l + k - 1
          BY <1>1, <4>1
        <5>4. QED
          BY <4>1, <5>2, <5>3, Zenon
    <3>3. QED
      BY <1>2, <3>1, <3>2
  <2>5. QED
    BY <2>1, <2>4 DEF NewIds
<1>6. ASSUME NEW id
      PROVE  /\ Hello(all, id) <=> Hello(box, id) \/ Hello(more, id)
             /\ Goodbye(all, id) <=> Goodbye(box, id) \/ Goodbye(more, id)
  <2>1. 1 .. l = 1 .. Len(box)
    BY DEF l
  <2>2. Hello(all, id) <=> Hello(box, id) \/ Hello(more, id)
    <3>1. ASSUME Hello(box, id) PROVE Hello(all, id)
      BY <1>2, <2>1, <3>1 DEF Hello
    <3>2. ASSUME Hello(more, id) PROVE Hello(all, id)
      BY <1>2, <3>2 DEF Hello
    <3>3. ASSUME Hello(all, id) PROVE Hello(box, id) \/ Hello(more, id)
      BY ZenonT(60), <1>2, <2>1, <3>3 DEF Hello
    <3>4. QED
      BY <3>1, <3>2, <3>3
  <2>3. Goodbye(all, id) <=> Goodbye(box, id) \/ Goodbye(more, id)
    BY ZenonT(60), <1>2, <2>1 DEF Goodbye
  <2>4. QED
    BY <2>2, <2>3
<1>7. /\ \A id \in 1 .. top : ~Hello(more, id)
      /\ \A id \in top + 1 .. n : Hello(more, id) /\ ~Goodbye(more, id)
      /\ \A id : Goodbye(more, id) <=> id \in gone
  <2>1. \A k \in 1 .. Len(more) : top + k \notin 1 .. top
    BY <1>1
  <2>2. \A id \in 1 .. top : ~Hello(more, id)
    BY <1>3, <2>1 DEF Hello
  <2>3. \A id : Goodbye(more, id) <=> id \in gone
    BY <1>3 DEF Goodbye, MoreTold
  <2>4. \A id \in top + 1 .. n : id \notin gone
    OBVIOUS
  <2>5. QED
    BY <2>2, <2>3, <2>4 DEF MoreTold
<1>8. \A id \in top + 1 .. n : id \notin has /\ id \notin told /\ ~Goodbye(box, id)
  <2>1. \A id \in top + 1 .. n : id \notin 1 .. top
    OBVIOUS
  <2>2. QED
    BY <1>4, <2>1 DEF Goodbye
<1>9. ASSUME Tells(box, has, told, top)
      PROVE  Tells(all, has, (told \ gone) \cup (top + 1 .. n), n)
  <2>1. \A id \in 1 .. n : id \in 1 .. top \/ id \in top + 1 .. n
    OBVIOUS
  <2>2. \A id \in 1 .. top : id \notin top + 1 .. n
    OBVIOUS
  <2>3. ASSUME NEW id \in 1 .. top
        PROVE  id \in (told \ gone) \cup (top + 1 .. n) <=>
                 (id \in has \/ Hello(all, id)) /\ ~Goodbye(all, id)
    BY <1>6, <1>7, <1>9, <2>2 DEF Tells
  <2>4. ASSUME NEW id \in top + 1 .. n
        PROVE  (id \in has \/ Hello(all, id)) /\ ~Goodbye(all, id)
    BY <1>6, <1>7, <1>8
  <2>5. QED
    BY <2>1, <2>3, <2>4 DEF Tells
<1>10. QED
  BY <1>1, <1>5, <1>9 DEF all

LEMMA MoreNames ==
  ASSUME NEW box \in Seq(Messages), NEW more \in Seq(Messages), NEW e, NEW f,
         NamesOf(box, e), NamesOf(more, f), NEW top \in Nat, NEW has, NewIds(box, has, top),
         \A id \in DOMAIN f \cap (1 .. top) : id \in DOMAIN e /\ f[id] = e[id]
  PROVE  NamesOf(box \o more, f)
<1> DEFINE all == box \o more
<1>1. /\ Len(all) = Len(box) + Len(more) /\ Len(box) \in Nat /\ Len(more) \in Nat
      /\ \A j \in 1 .. Len(box) + Len(more) : all[j] = IF j <= Len(box) THEN box[j]
                                                                       ELSE more[j - Len(box)]
  BY ConcatProperties
<1> HIDE DEF all
<1>2. ASSUME NEW j \in 1 .. Len(all), all[j].type = "connected", all[j].id \in DOMAIN f
      PROVE  all[j].device = f[all[j].id][1]
  <2>1. CASE j \in 1 .. Len(box)
    <3>1. all[j] = box[j] /\ box[j].id \in 1 .. top
      BY <1>1, <2>1 DEF NewIds
    <3>2. QED
      BY <1>2, <2>1, <3>1 DEF NamesOf
  <2>2. CASE j \notin 1 .. Len(box)
    <3>1. j - Len(box) \in 1 .. Len(more) /\ all[j] = more[j - Len(box)]
      BY <1>1, <2>2
    <3>2. QED
      BY <1>2, <3>1 DEF NamesOf
  <2>3. QED
    BY <2>1, <2>2
<1>3. QED
  BY <1>2 DEF NamesOf, all

(* The rest of what BridgeSafe says of a bridge that a step leaves alone.  *)
LEMMA LeftAlone ==
  ASSUME NEW b \in Bridge, BridgeKept(b), BridgeMirrored(b),
         stage'[b] = stage[b], link'[b] = link[b], wire'[b] = wire[b],
         entries'[b] = entries[b], enumerator'[b] = enumerator[b],
         b \in DOMAIN devices' <=> b \in DOMAIN devices,
         b \in DOMAIN devices => devices'[b] = devices[b],
         b \in DOMAIN devices =>
           \A id \in Ids(b) : devices[b][id] \in bridged'.hub <=> devices[b][id] \in bridged.hub
  PROVE  BridgeKept(b)' /\ BridgeMirrored(b)'
<1>1. Ids(b)' = Ids(b)
  BY DEF Ids
<1>2. BridgeKept(b)'
  BY <1>1 DEF BridgeKept
<1>3. BridgeMirrored(b)'
  BY <1>1 DEF BridgeMirrored, BridgeKept, Ids
<1>4. QED
  BY <1>2, <1>3

LEMMA BridgeSets == IsFiniteSet(Bridge) /\ IsFiniteSet(BridgePlug) /\ Bridge \subseteq Nat \ {0}
                    /\ BridgeKnown \subseteq BridgePlug
<1>1. \A S : Bridges!IsFiniteSet(S) <=> IsFiniteSet(S)
  BY DEF Bridges!IsFiniteSet, IsFiniteSet
<1>2. QED
  BY <1>1, ControllersAssumption DEF Bridges!BridgeAssumption

LEMMA BridgeInit == Bridges!Init => BridgeSafe
<1> SUFFICES ASSUME Bridges!Init PROVE BridgeSafe
  OBVIOUS
<1>1. /\ DOMAIN devices = {} /\ Bridges!OpenDevices = {}
      /\ \A b \in Bridge : Ids(b) = {}
  BY DEF Bridges!Init, Bridges!OpenDevices, Ids
<1>2. BridgedOwners(bridged, {})
  BY DEF Bridges!Init, Bridges!NoOwners, BridgedOwners, Bridges!Owners
<1>3. Bridges!NoneLeaks
  BY <1>1, <1>2 DEF Bridges!NoneLeaks, BridgedOwners
<1>4. BridgeTables
  <2>1. Cardinality(Bridge) \in Nat
    BY BridgeSets, FS_CardinalityType
  <2>2. wire \in [Bridge -> Seq(Messages)]
    BY DEF Bridges!Init
  <2>3. QED
    BY <1>1, <2>1, <2>2 DEF Bridges!Init, BridgeTables, Bridges!Stages, Bridges!None
<1>5. ASSUME NEW b \in Bridge PROVE BridgeKept(b) /\ BridgeMirrored(b)
  <2>1. wire[b] = <<>> /\ entries[b] = <<>> /\ link[b] = "none" /\ enumerator[b] = 0
    BY DEF Bridges!Init
  <2>2. Len(wire[b]) = 0 /\ DOMAIN entries[b] = {}
    BY <2>1
  <2>3. entries[b] \in [DOMAIN entries[b] -> BridgePlug \X {"in", "both"}]
    BY <2>1
  <2>4. NewIds(wire[b], Ids(b), enumerator[b])
    BY <2>2 DEF NewIds
  <2>5. QED
    BY <1>1, <2>1, <2>2, <2>3, <2>4 DEF BridgeKept, BridgeMirrored
<1>6. QED
  BY <1>1, <1>2, <1>3, <1>4, <1>5 DEF BridgeSafe

(* A step of the page that tells nobody.                                   *)
LEMMA QuietBridge ==
  ASSUME BridgeSafe, UNCHANGED <<ports, entries, enumerator, link, wire, devices, bridged>>,
         pending' \in 0 .. Cardinality(Bridge), current' \in Bridge \cup {0},
         NEW b \in Bridge, NEW s \in Bridges!Stages, stage' = [stage EXCEPT ![b] = s],
         s \in {"unborn", "asking", "connecting"} =>
           stage[b] \in {"unborn", "asking", "connecting"}
  PROVE  BridgeSafe'
<1>1. Bridges!OpenDevices' = Bridges!OpenDevices /\ Bridges!NoneLeaks'
  BY DEF BridgeSafe, Bridges!OpenDevices, Bridges!NoneLeaks
<1>2. BridgeTables'
  BY DEF BridgeSafe, BridgeTables
<1>3. \A c \in Bridge : c # b => stage'[c] = stage[c]
  BY DEF BridgeSafe, BridgeTables
<1>4. stage'[b] = s
  BY DEF BridgeSafe, BridgeTables
<1>5. ASSUME NEW c \in Bridge PROVE BridgeKept(c)' /\ BridgeMirrored(c)'
  <2>1. BridgeKept(c) /\ BridgeMirrored(c) /\ Ids(c)' = Ids(c)
    BY DEF BridgeSafe, Ids
  <2>2. QED
    BY <1>3, <1>4, <2>1 DEF BridgeKept, BridgeMirrored
<1>6. QED
  BY <1>1, <1>2, <1>5 DEF BridgeSafe

LEMMA UnbornBridges ==
  ASSUME BridgeSafe
  PROVE  /\ Cardinality(Bridge) \in Nat
         /\ Bridges!Cardinality(Bridges!Unborn) \in 0 .. Cardinality(Bridge)
<1>1. Bridges!Unborn \subseteq Bridge
  BY DEF Bridges!Unborn
<1>2. Bridges!Cardinality(Bridges!Unborn) = Cardinality(Bridges!Unborn)
  BY DEF Bridges!Cardinality, Cardinality
<1>3. IsFiniteSet(Bridges!Unborn) /\ Cardinality(Bridges!Unborn) <= Cardinality(Bridge)
  BY <1>1, BridgeSets, FS_Subset
<1>4. Cardinality(Bridge) \in Nat /\ Cardinality(Bridges!Unborn) \in Nat
  BY <1>3, BridgeSets, FS_CardinalityType
<1>5. QED
  BY <1>2, <1>3, <1>4

LEMMA ButtonOnBridge == BridgeSafe /\ Bridges!ButtonOn => BridgeSafe'
<1> SUFFICES ASSUME BridgeSafe, Bridges!ButtonOn PROVE BridgeSafe'
  OBVIOUS
<1>1. UNCHANGED <<ports, current, stage, entries, enumerator, link, wire, devices, bridged>>
  BY DEF Bridges!ButtonOn
<1>2. pending' \in 0 .. Cardinality(Bridge)
  BY UnbornBridges DEF Bridges!ButtonOn, BridgeSafe, BridgeTables
<1>3. Bridges!OpenDevices' = Bridges!OpenDevices /\ Bridges!NoneLeaks'
  BY <1>1 DEF BridgeSafe, Bridges!OpenDevices, Bridges!NoneLeaks
<1>4. BridgeTables'
  BY <1>1, <1>2 DEF BridgeSafe, BridgeTables
<1>5. \A c \in Bridge : BridgeKept(c)' /\ BridgeMirrored(c)'
  BY <1>1, LeftAlone DEF BridgeSafe
<1>6. QED
  BY <1>1, <1>3, <1>4, <1>5 DEF BridgeSafe

LEMMA AccessGrantedBridge == BridgeSafe /\ Bridges!AccessGranted => BridgeSafe'
<1> SUFFICES ASSUME BridgeSafe, Bridges!AccessGranted PROVE BridgeSafe'
  OBVIOUS
<1>1. PICK b \in Bridges!Unborn : current' = b /\ stage' = [stage EXCEPT ![b] = "asking"]
  BY DEF Bridges!AccessGranted
<1>2. b \in Bridge /\ stage[b] = "unborn" /\ "asking" \in Bridges!Stages
  BY DEF Bridges!Unborn, Bridges!Stages
<1>3. pending' \in 0 .. Cardinality(Bridge)
  BY UnbornBridges DEF Bridges!AccessGranted, BridgeSafe, BridgeTables
<1>4. QED
  BY <1>1, <1>2, <1>3, QuietBridge DEF Bridges!AccessGranted

LEMMA InitializeBridge ==
  ASSUME BridgeSafe, NEW b \in Bridge, Bridges!Initialize(b) PROVE BridgeSafe'
<1>1. "connecting" \in Bridges!Stages /\ stage[b] = "asking"
  BY DEF Bridges!Stages, Bridges!Initialize
<1>2. pending' \in 0 .. Cardinality(Bridge) /\ current' \in Bridge \cup {0}
  BY DEF Bridges!Initialize, BridgeSafe, BridgeTables
<1>3. QED
  BY <1>1, <1>2, QuietBridge DEF Bridges!Initialize

LEMMA GoodbyesTold ==
  ASSUME BridgeSafe, NEW b \in Bridge, NEW gone \in SUBSET DOMAIN entries[b]
  PROVE  LET g == Bridges!Goodbyes(b, gone)
         IN  /\ g \in Seq(Messages)
             /\ \A j \in 1 .. Len(g) : g[j].type = "disconnected" /\ g[j].id \in gone
             /\ \A id \in gone : Goodbye(g, id)
<1> DEFINE ids == Bridges!SetToSeq(gone)
           g == Bridges!Goodbyes(b, gone)
<1>1. /\ DOMAIN entries[b] \subseteq 1 .. enumerator[b] /\ enumerator[b] \in Nat
      /\ entries[b] \in [DOMAIN entries[b] -> BridgePlug \X {"in", "both"}]
  BY DEF BridgeSafe, BridgeKept, BridgeTables
<1>2. IsFiniteSet(gone) /\ gone \subseteq Nat
  <2>1. IsFiniteSet(1 .. enumerator[b])
    <3>1. \A n \in Nat : IsFiniteSet(1 .. n)
      BY FS_Interval
    <3>2. QED
      BY <1>1, <3>1
  <2>2. gone \subseteq 1 .. enumerator[b]
    BY <1>1
  <2>3. QED
    BY <1>1, <2>1, <2>2, FS_Subset
<1>3. /\ ids \in Seq(gone) /\ Len(ids) \in Nat
      /\ \A x \in gone : \E i \in 1 .. Len(ids) : ids[i] = x
  BY <1>2, ListOfSet
<1> HIDE DEF ids
<1>4. DOMAIN ids = 1 .. Len(ids) /\ \A i \in 1 .. Len(ids) : ids[i] \in gone
  BY <1>3
<1>5. \A i \in 1 .. Len(ids) : entries[b][ids[i]][1] \in BridgePlug
  BY <1>1, <1>4
<1>6. g = [i \in 1 .. Len(ids) |-> [type |-> "disconnected", id |-> ids[i],
                                    device |-> entries[b][ids[i]][1]]]
  BY <1>4 DEF Bridges!Goodbyes, Bridges!Msg, ids
<1> HIDE DEF g
<1>7. g \in [1 .. Len(ids) -> Messages]
  BY <1>2, <1>4, <1>5, <1>6 DEF Messages
<1>8. g \in Seq(Messages) /\ Len(g) = Len(ids)
  BY <1>3, <1>7
<1>9. \A i \in 1 .. Len(ids) : g[i].type = "disconnected" /\ g[i].id = ids[i]
  BY <1>6
<1>10. \A id \in gone : Goodbye(g, id)
  BY <1>3, <1>8, <1>9 DEF Goodbye
<1>11. QED
  BY <1>4, <1>8, <1>9, <1>10 DEF g

(* What createPairs tells: a hello to every new entry and a goodbye to     *)
(* every one that is not right any more.                                   *)
Told(b, list, gone) ==
  [i \in DOMAIN list |-> Bridges!Msg("connected", enumerator[b] + i, list[i][1])]
    \o Bridges!Goodbyes(b, gone)

LEMMA PairsTold ==
  ASSUME BridgeSafe, NEW b \in Bridge, NEW gone \in SUBSET DOMAIN entries[b],
         NEW list \in Seq(BridgePlug \X {"in", "both"})
  PROVE  LET top == enumerator[b]
             more == Told(b, list, gone)
         IN  /\ MoreTold(more, top, top + Len(list), gone)
             /\ \A j \in 1 .. Len(more) : more[j].type = "connected" =>
                  j \in 1 .. Len(list) /\ more[j].id = top + j /\ more[j].device = list[j][1]
<1> DEFINE top == enumerator[b]
           h == [i \in DOMAIN list |-> Bridges!Msg("connected", top + i, list[i][1])]
           g == Bridges!Goodbyes(b, gone)
           more == Told(b, list, gone)
<1>1. top \in Nat /\ Len(list) \in Nat /\ DOMAIN list = 1 .. Len(list)
  BY DEF BridgeSafe, BridgeTables
<1>2. /\ g \in Seq(Messages)
      /\ \A j \in 1 .. Len(g) : g[j].type = "disconnected" /\ g[j].id \in gone
      /\ \A id \in gone : Goodbye(g, id)
  BY GoodbyesTold
<1>12. more = h \o g
  BY DEF Told
<1> HIDE DEF top, g, more
<1>3. \A i \in 1 .. Len(list) : list[i][1] \in BridgePlug
  BY <1>1
<1>4. /\ h \in [1 .. Len(list) -> Messages]
      /\ \A i \in 1 .. Len(list) : /\ h[i].type = "connected" /\ h[i].id = top + i
                                   /\ h[i].device = list[i][1]
  BY <1>1, <1>3 DEF Bridges!Msg, Messages
<1> HIDE DEF h
<1>5. h \in Seq(Messages) /\ Len(h) = Len(list)
  BY SMTT(30), <1>1, <1>4
<1>6. /\ more \in Seq(Messages) /\ Len(more) = Len(list) + Len(g) /\ Len(g) \in Nat
      /\ \A j \in 1 .. Len(list) + Len(g) :
           more[j] = IF j <= Len(list) THEN h[j] ELSE g[j - Len(list)]
  <2>1. /\ h \o g \in Seq(Messages) /\ Len(h \o g) = Len(h) + Len(g) /\ Len(g) \in Nat
        /\ \A j \in 1 .. Len(h) + Len(g) :
             (h \o g)[j] = IF j <= Len(h) THEN h[j] ELSE g[j - Len(h)]
    BY <1>2, <1>5, ConcatProperties
  <2>2. QED
    BY <1>5, <1>12, <2>1, Zenon
<1>7. ASSUME NEW j \in 1 .. Len(more)
      PROVE  \/ /\ j \in 1 .. Len(list) /\ more[j].type = "connected" /\ more[j].id = top + j
                /\ more[j].device = list[j][1] /\ top + j <= top + Len(list)
             \/ more[j].type = "disconnected" /\ more[j].id \in gone
  <2>1. CASE j <= Len(list)
    <3>1. j \in 1 .. Len(list) /\ more[j] = h[j]
      BY <1>1, <1>6, <2>1
    <3>2. top + j <= top + Len(list)
      BY <1>1, <2>1
    <3>3. QED
      BY <1>4, <3>1, <3>2
  <2>2. CASE ~(j <= Len(list))
    <3>1. j - Len(list) \in 1 .. Len(g) /\ more[j] = g[j - Len(list)]
      BY <1>1, <1>6, <2>2
    <3>2. QED
      BY <1>2, <3>1
  <2>3. QED
    BY <2>1, <2>2
<1>8. \A id \in top + 1 .. top + Len(list) : Hello(more, id)
  <2> SUFFICES ASSUME NEW id \in top + 1 .. top + Len(list) PROVE Hello(more, id)
    OBVIOUS
  <2>1. id - top \in 1 .. Len(list) /\ id - top \in 1 .. Len(more) /\ top + (id - top) = id
    BY <1>1, <1>6
  <2>2. more[id - top] = h[id - top]
    BY <1>6, <2>1
  <2>3. QED
    BY <1>4, <2>1, <2>2 DEF Hello
<1>9. \A id \in gone : Goodbye(more, id)
  <2> SUFFICES ASSUME NEW id \in gone PROVE Goodbye(more, id)
    OBVIOUS
  <2>1. PICK j \in 1 .. Len(g) : g[j].type = "disconnected" /\ g[j].id = id
    BY <1>2 DEF Goodbye
  <2>2. /\ Len(list) + j \in 1 .. Len(more) /\ ~(Len(list) + j <= Len(list))
        /\ Len(list) + j - Len(list) = j
    BY <1>1, <1>6
  <2>3. more[Len(list) + j] = g[j]
    BY <1>6, <2>2
  <2>4. QED
    BY <2>1, <2>2, <2>3 DEF Goodbye
<1>10. MoreTold(more, top, top + Len(list), gone)
  BY <1>6, <1>7, <1>8, <1>9 DEF MoreTold
<1>11. QED
  BY <1>7, <1>10 DEF more, top

(* What createPairs makes of a bridge.                                     *)
Wanted(seen) == {<<p, seen[p]>> : p \in {q \in BridgePlug : seen[q] # "none"}}
FreshOf(b, seen) == Bridges!SetToSeq(Wanted(seen) \ {entries[b][id] : id \in DOMAIN entries[b]})
GoneOf(b, seen) == {id \in DOMAIN entries[b] : entries[b][id] \notin Wanted(seen)}
LastOf(b, seen) == enumerator[b] + Len(FreshOf(b, seen))
EntriesOf(b, seen) ==
  [id \in (DOMAIN entries[b] \ GoneOf(b, seen)) \cup (enumerator[b] + 1 .. LastOf(b, seen)) |->
     IF id \in enumerator[b] + 1 .. LastOf(b, seen) THEN FreshOf(b, seen)[id - enumerator[b]]
                                                   ELSE entries[b][id]]
WireOf(b, seen) == Bridges!Send(b, Told(b, FreshOf(b, seen), GoneOf(b, seen)))

LEMMA PairsMade ==
  ASSUME NEW L, NEW seen, Bridges!CreatePairs(L, seen)
  PROVE  /\ enumerator' = [b \in Bridge |-> IF b \in L THEN LastOf(b, seen) ELSE enumerator[b]]
         /\ entries' = [b \in Bridge |-> IF b \notin L THEN entries[b] ELSE EntriesOf(b, seen)]
         /\ wire' = [b \in Bridge |-> IF b \notin L THEN wire[b] ELSE WireOf(b, seen)]
BY Zenon DEF Bridges!CreatePairs, LastOf, EntriesOf, WireOf, GoneOf, FreshOf, Wanted, Told,
             Bridges!LastId

(* One of the bridges that pair all over again.                            *)
LEMMA PairedBridge ==
  ASSUME BridgeSafe, NEW L \in SUBSET Bridge, NEW seen \in [BridgePlug -> {"none", "in", "both"}],
         Bridges!CreatePairs(L, seen), UNCHANGED <<link, devices, bridged>>,
         NEW b \in L, stage[b] \notin {"unborn", "asking", "connecting"},
         stage'[b] \notin {"unborn", "asking", "connecting"}
  PROVE  /\ BridgeKept(b)' /\ BridgeMirrored(b)'
         /\ enumerator'[b] \in Nat /\ wire'[b] \in Seq(Messages)
<1> DEFINE top == enumerator[b]
           e == entries[b]
           box == wire[b]
           wanted == Wanted(seen)
           fresh == wanted \ {e[id] : id \in DOMAIN e}
           list == FreshOf(b, seen)
           gone == GoneOf(b, seen)
           last == top + Len(list)
           more == Told(b, list, gone)
<1>1. /\ top \in Nat /\ box \in Seq(Messages) /\ BridgeKept(b) /\ BridgeMirrored(b)
      /\ b \in Bridge /\ DOMAIN e \subseteq 1 .. top /\ Ids(b) \subseteq 1 .. top
      /\ e \in [DOMAIN e -> BridgePlug \X {"in", "both"}]
  BY DEF BridgeSafe, BridgeTables, BridgeKept
<1>2. /\ enumerator'[b] = last
      /\ entries'[b] = [id \in (DOMAIN e \ gone) \cup (top + 1 .. last) |->
                          IF id \in top + 1 .. last THEN list[id - top] ELSE e[id]]
      /\ wire'[b] = IF link[b] = "up" THEN box \o more ELSE box
  <2>1. enumerator'[b] = LastOf(b, seen) /\ entries'[b] = EntriesOf(b, seen)
        /\ wire'[b] = WireOf(b, seen)
    BY <1>1, PairsMade
  <2>2. QED
    BY <2>1, Zenon DEF LastOf, EntriesOf, WireOf, Bridges!Send
<1>3. fresh \subseteq BridgePlug \X {"in", "both"}
  BY DEF Wanted
<1>4. IsFiniteSet(fresh)
  <2>1. IsFiniteSet({"in", "both"})
    <3>1. {"in", "both"} = {"in"} \cup {"both"}
      OBVIOUS
    <3>2. IsFiniteSet({"in"})
      BY FS_Singleton
    <3>3. QED
      BY <3>1, <3>2, FS_AddElement
  <2>2. IsFiniteSet(BridgePlug \X {"in", "both"})
    BY <2>1, BridgeSets, FS_Product
  <2>3. QED
    BY <1>3, <2>2, FS_Subset
<1>5. list \in Seq(BridgePlug \X {"in", "both"}) /\ Len(list) \in Nat
  BY <1>3, <1>4, ListOfSet DEF FreshOf
<1>6. gone \subseteq DOMAIN e
  BY DEF GoneOf
<1> HIDE DEF wanted, fresh, list, gone
<1>7. /\ MoreTold(more, top, last, gone)
      /\ \A j \in 1 .. Len(more) : more[j].type = "connected" =>
           j \in 1 .. Len(list) /\ more[j].id = top + j /\ more[j].device = list[j][1]
  BY <1>1, <1>5, <1>6, PairsTold
<1> HIDE DEF more
<1>8. last \in Nat /\ last >= top
  BY <1>1, <1>5
<1>9. /\ box \o more \in Seq(Messages) /\ NewIds(box \o more, Ids(b), last)
      /\ Tells(box, Ids(b), DOMAIN e, top) =>
           Tells(box \o more, Ids(b), (DOMAIN e \ gone) \cup (top + 1 .. last), last)
  <2>1. NewIds(box, Ids(b), top)
    BY <1>1 DEF BridgeKept
  <2> HIDE DEF box, top, e, last
  <2>2. QED
    BY <1>1, <1>6, <1>7, <1>8, <2>1, MoreTells
<1>10. NewIds(box, Ids(b), last)
  BY <1>1, <1>8, LaterIds DEF BridgeKept
<1>11. wire'[b] \in Seq(Messages) /\ NewIds(wire'[b], Ids(b), last)
  BY <1>1, <1>2, <1>9, <1>10
<1>12. /\ DOMAIN entries'[b] = (DOMAIN e \ gone) \cup (top + 1 .. last)
       /\ \A id \in DOMAIN entries'[b] :
            entries'[b][id] = IF id \in top + 1 .. last THEN list[id - top] ELSE e[id]
  BY <1>2
<1>13. DOMAIN entries'[b] \subseteq 1 .. last /\ Ids(b) \subseteq 1 .. last
  BY <1>1, <1>8, <1>12
<1>14. entries'[b] \in [DOMAIN entries'[b] -> BridgePlug \X {"in", "both"}]
  <2>1. \A id \in top + 1 .. last : id - top \in 1 .. Len(list)
    BY <1>1, <1>5
  <2>2. \A i \in 1 .. Len(list) : list[i] \in BridgePlug \X {"in", "both"}
    BY <1>5
  <2>3. \A id \in DOMAIN entries'[b] : entries'[b][id] \in BridgePlug \X {"in", "both"}
    BY <1>1, <1>12, <2>1, <2>2
  <2>4. QED
    BY <1>2, <2>3
<1>15. \A id \in DOMAIN entries'[b] \cap (1 .. top) : id \in DOMAIN e /\ entries'[b][id] = e[id]
  BY <1>1, <1>12
<1>16. Ids(b)' = Ids(b)
  BY DEF Ids
<1>17. BridgeKept(b)'
  <2>1. b \notin DOMAIN devices => Len(wire'[b]) = 0
    BY <1>1, <1>2 DEF BridgeKept
  <2>2. QED
    BY <1>1, <1>2, <1>11, <1>13, <1>14, <1>16, <2>1 DEF BridgeKept
<1>18. BridgeMirrored(b)'
  <2> SUFFICES ASSUME link[b] = "up" PROVE BridgeMirrored(b)'
    BY DEF BridgeMirrored
  <2>1. /\ Tells(box, Ids(b), DOMAIN e, top) /\ NamesOf(box, e)
        /\ \A id \in Ids(b) \cap DOMAIN e :
             devices[b][id] \in bridged.hub <=> e[id][1] \in BridgeKnown
    BY <1>1 DEF BridgeMirrored
  <2>2. Tells(wire'[b], Ids(b), DOMAIN entries'[b], last)
    BY <1>2, <1>9, <1>12, <2>1
  <2>3. NamesOf(more, entries'[b])
    <3>1. ASSUME NEW j \in 1 .. Len(more), more[j].type = "connected"
          PROVE  more[j].device = entries'[b][more[j].id][1]
      <4>1. j \in 1 .. Len(list) /\ more[j].id = top + j /\ more[j].device = list[j][1]
        BY <1>7, <3>1
      <4>2. top + j \in top + 1 .. last /\ (top + j) - top = j
        BY <1>1, <1>5, <4>1
      <4>5. top + j \in DOMAIN entries'[b]
        BY <1>12, <4>2
      <4>3. entries'[b][top + j] = list[j]
        <5>1. entries'[b][top + j] = IF top + j \in top + 1 .. last THEN list[(top + j) - top]
                                                                  ELSE e[top + j]
          BY <1>12, <4>5, Zenon
        <5>2. QED
          BY <4>2, <5>1
      <4>4. QED
        BY <4>1, <4>3
    <3>2. QED
      BY <3>1 DEF NamesOf
  <2>4. NamesOf(wire'[b], entries'[b])
    <3>1. NewIds(box, Ids(b), top) /\ more \in Seq(Messages)
      BY <1>1, <1>7 DEF BridgeKept, MoreTold
    <3> DEFINE f == entries'[b]
    <3> HIDE DEF box, top, e, f
    <3>2. NamesOf(box \o more, f)
      BY <1>1, <1>15, <2>1, <2>3, <3>1, MoreNames DEF f
    <3>3. QED
      BY <1>2, <3>2 DEF f
  <2>5. \A id \in Ids(b) \cap DOMAIN entries'[b] :
          devices[b][id] \in bridged.hub <=> entries'[b][id][1] \in BridgeKnown
    BY <1>1, <1>15, <2>1
  <2>6. QED
    BY <1>2, <1>16, <2>2, <2>4, <2>5 DEF BridgeMirrored
<1>19. QED
  BY <1>2, <1>8, <1>11, <1>17, <1>18

LEMMA PairsBridge ==
  ASSUME BridgeSafe, NEW L \in SUBSET Bridge, ports' \in [BridgePlug -> {"none", "in", "both"}],
         Bridges!CreatePairs(L, ports'), UNCHANGED <<pending, current, link, devices, bridged>>,
         stage' \in [Bridge -> Bridges!Stages],
         \A b \in L : /\ stage[b] \notin {"unborn", "asking", "connecting"}
                      /\ stage'[b] \notin {"unborn", "asking", "connecting"},
         \A b \in Bridge \ L : stage'[b] = stage[b]
  PROVE  BridgeSafe'
<1>1. \A b \in L : /\ BridgeKept(b)' /\ BridgeMirrored(b)'
                   /\ enumerator'[b] \in Nat /\ wire'[b] \in Seq(Messages)
  BY PairedBridge
<1>2. ASSUME NEW b \in Bridge \ L
      PROVE  entries'[b] = entries[b] /\ enumerator'[b] = enumerator[b] /\ wire'[b] = wire[b]
  BY PairsMade
<1>3. \A b \in Bridge \ L : BridgeKept(b)' /\ BridgeMirrored(b)'
  BY <1>2, LeftAlone DEF BridgeSafe
<1>4. Bridges!OpenDevices' = Bridges!OpenDevices /\ Bridges!NoneLeaks'
  BY DEF BridgeSafe, Bridges!OpenDevices, Bridges!NoneLeaks
<1>5. BridgeTables'
  <2>1. /\ enumerator' = [b \in Bridge |-> enumerator'[b]] /\ wire' = [b \in Bridge |-> wire'[b]]
        /\ DOMAIN entries' = Bridge
    BY PairsMade
  <2>2. \A b \in Bridge : enumerator'[b] \in Nat /\ wire'[b] \in Seq(Messages)
    BY <1>1, <1>2 DEF BridgeSafe, BridgeTables
  <2>3. enumerator' \in [Bridge -> Nat] /\ wire' \in [Bridge -> Seq(Messages)]
    BY <2>1, <2>2
  <2>4. QED
    BY <2>1, <2>3 DEF BridgeSafe, BridgeTables
<1>6. QED
  BY <1>1, <1>3, <1>4, <1>5 DEF BridgeSafe

LEMMA OnMIDISuccessBridge ==
  ASSUME BridgeSafe, NEW b \in Bridge, Bridges!OnMIDISuccess(b) PROVE BridgeSafe'
<1>1. /\ stage[b] = "opened" /\ stage' = [stage EXCEPT ![b] = "ready"]
      /\ Bridges!CreatePairs({b}, ports)
      /\ UNCHANGED <<ports, pending, current, link, devices, bridged>>
  BY DEF Bridges!OnMIDISuccess
<1>2. /\ ports' \in [BridgePlug -> {"none", "in", "both"}] /\ stage \in [Bridge -> Bridges!Stages]
      /\ "ready" \in Bridges!Stages
  BY <1>1 DEF BridgeSafe, BridgeTables, Bridges!Stages
<1>3. /\ stage' \in [Bridge -> Bridges!Stages] /\ stage'[b] = "ready"
      /\ \A c \in Bridge \ {b} : stage'[c] = stage[c]
  BY <1>1, <1>2
<1>4. Bridges!CreatePairs({b}, ports')
  BY <1>1
<1>5. QED
  BY <1>1, <1>2, <1>3, <1>4, PairsBridge

LEMMA PortEventBridge == BridgeSafe /\ Bridges!PortEvent => BridgeSafe'
<1> SUFFICES ASSUME BridgeSafe, Bridges!PortEvent PROVE BridgeSafe'
  OBVIOUS
<1> DEFINE L == {b \in Bridge : stage[b] = "ready"}
<1>1. /\ UNCHANGED <<pending, current, stage, link, devices, bridged>>
      /\ Bridges!CreatePairs(L, ports')
  BY DEF Bridges!PortEvent
<1>2. ports' \in [BridgePlug -> {"none", "in", "both"}]
  BY DEF Bridges!PortEvent, BridgeSafe, BridgeTables
<1>3. L \in SUBSET Bridge /\ \A b \in L : stage[b] = "ready"
  OBVIOUS
<1> HIDE DEF L
<1>4. stage' \in [Bridge -> Bridges!Stages]
  BY <1>1 DEF BridgeSafe, BridgeTables
<1>5. QED
  BY <1>1, <1>2, <1>3, <1>4, PairsBridge

LEMMA OpenBridge ==
  ASSUME BridgeSafe, NEW b \in Bridge, Bridges!Open(b) PROVE BridgeSafe'
<1>1. /\ stage[b] = "connecting" /\ stage' = [stage EXCEPT ![b] = "opened"]
      /\ link' = [link EXCEPT ![b] = "up"]
      /\ devices' = [c \in DOMAIN devices \cup {b} |-> IF c = b THEN <<>> ELSE devices[c]]
      /\ UNCHANGED <<ports, pending, current, entries, enumerator, wire, bridged>>
  BY DEF Bridges!Open
<1>2. link[b] = "none" /\ DOMAIN entries[b] = {} /\ b \notin DOMAIN devices /\ Len(wire[b]) = 0
  BY <1>1 DEF BridgeSafe, BridgeKept
<1>3. /\ DOMAIN devices' = DOMAIN devices \cup {b}
      /\ \A c \in DOMAIN devices : devices'[c] = devices[c] /\ c # b
      /\ devices'[b] = <<>> /\ DOMAIN devices'[b] = {} /\ Ids(b)' = {}
  BY <1>1, <1>2 DEF Ids
<1>4. Bridges!OpenDevices' = Bridges!OpenDevices
  BY <1>3 DEF Bridges!OpenDevices
<1>5. Bridges!NoneLeaks'
  BY <1>1, <1>3, <1>4 DEF BridgeSafe, Bridges!NoneLeaks
<1>6. BridgeTables'
  <2>1. "opened" \in Bridges!Stages
    BY DEF Bridges!Stages
  <2>2. QED
    BY <1>1, <1>3, <2>1 DEF BridgeSafe, BridgeTables
<1>7. BridgeKept(b)' /\ BridgeMirrored(b)'
  <2>1. stage'[b] = "opened" /\ link'[b] = "up"
    BY <1>1 DEF BridgeSafe, BridgeTables
  <2>2. devices'[b] \in [DOMAIN devices'[b] -> BridgeAddress]
    BY <1>3
  <2>3. NewIds(wire[b], {}, enumerator[b])
    BY <1>2 DEF NewIds
  <2>4. Tells(wire[b], {}, DOMAIN entries[b], enumerator[b]) /\ NamesOf(wire[b], entries[b])
    BY <1>2 DEF Tells, NamesOf, Hello, Goodbye
  <2>5. BridgeKept(b)'
    BY <1>1, <1>2, <1>3, <2>1, <2>2, <2>3 DEF BridgeSafe, BridgeKept
  <2>6. BridgeMirrored(b)'
    BY <1>1, <1>3, <2>4 DEF BridgeMirrored
  <2>7. QED
    BY <2>5, <2>6
<1>8. ASSUME NEW c \in Bridge, c # b PROVE BridgeKept(c)' /\ BridgeMirrored(c)'
  <2>1. stage'[c] = stage[c] /\ link'[c] = link[c]
    BY <1>1, <1>8 DEF BridgeSafe, BridgeTables
  <2>2. QED
    BY <1>1, <1>3, <1>8, <2>1, LeftAlone DEF BridgeSafe
<1>9. QED
  BY <1>1, <1>4, <1>5, <1>6, <1>7, <1>8 DEF BridgeSafe

(* The button is switched off while its bridge waits for more than the     *)
(* permission.                                                             *)
LEMMA DestroyedBridge ==
  ASSUME BridgeSafe, NEW b \in Bridge, UNCHANGED <<ports, pending, enumerator, devices, bridged>>,
         current' = 0, stage' = [stage EXCEPT ![b] = "over"],
         wire' = [wire EXCEPT ![b] = Bridges!Send(b, Bridges!Goodbyes(b, DOMAIN entries[b]))],
         entries' = [entries EXCEPT ![b] = <<>>],
         link' = [link EXCEPT ![b] = IF @ = "up" THEN "closed" ELSE @]
  PROVE  BridgeSafe'
<1> DEFINE more == Bridges!Goodbyes(b, DOMAIN entries[b])
           top == enumerator[b]
<1>1. /\ BridgeKept(b) /\ top \in Nat /\ wire[b] \in Seq(Messages)
      /\ link[b] \in {"none", "up", "closed", "lost"}
      /\ DOMAIN entries[b] \subseteq 1 .. top /\ Ids(b) \subseteq 1 .. top
      /\ NewIds(wire[b], Ids(b), top)
  BY DEF BridgeSafe, BridgeTables, BridgeKept
<1>2. /\ stage'[b] = "over" /\ link'[b] # "up" /\ (link'[b] = "none" <=> link[b] = "none")
      /\ link'[b] \in {"none", "up", "closed", "lost"}
      /\ entries'[b] = <<>> /\ DOMAIN entries'[b] = {}
      /\ wire'[b] = IF link[b] = "up" THEN wire[b] \o more ELSE wire[b]
  BY DEF BridgeSafe, BridgeTables, Bridges!Send
<1>3. MoreTold(more, top, top, DOMAIN entries[b])
  <2>1. top + 1 .. top = {}
    BY <1>1
  <2>2. QED
    BY <2>1, GoodbyesTold DEF MoreTold
<1>4. wire[b] \o more \in Seq(Messages) /\ NewIds(wire[b] \o more, Ids(b), top)
  <2>1. top >= top
    BY <1>1
  <2> DEFINE gone == DOMAIN entries[b]
             has == Ids(b)
             box == wire[b]
  <2> HIDE DEF more, top, gone, has, box
  <2>2. gone \subseteq 1 .. top /\ has \subseteq 1 .. top /\ MoreTold(more, top, top, gone)
        /\ NewIds(box, has, top) /\ box \in Seq(Messages) /\ top \in Nat
    BY <1>1, <1>3 DEF gone, has, box
  <2>3. box \o more \in Seq(Messages) /\ NewIds(box \o more, has, top)
    BY <2>1, <2>2, MoreTells
  <2>4. QED
    BY <2>3 DEF has, box
<1>5. wire'[b] \in Seq(Messages) /\ NewIds(wire'[b], Ids(b), top)
  BY <1>1, <1>2, <1>4
<1>6. Ids(b)' = Ids(b)
  BY DEF Ids
<1>7. BridgeKept(b)' /\ BridgeMirrored(b)'
  <2>1. entries'[b] \in [DOMAIN entries'[b] -> BridgePlug \X {"in", "both"}]
    <3>1. <<>> \in [DOMAIN <<>> -> BridgePlug \X {"in", "both"}]
      OBVIOUS
    <3>2. entries'[b] = <<>>
      BY <1>2
    <3>3. QED
      BY <3>1, <3>2, Zenon
  <2>2. BridgeKept(b)'
    BY <1>1, <1>2, <1>5, <1>6, <2>1 DEF BridgeKept
  <2>3. QED
    BY <1>2, <2>2 DEF BridgeMirrored
<1>8. ASSUME NEW c \in Bridge, c # b PROVE BridgeKept(c)' /\ BridgeMirrored(c)'
  <2>1. /\ stage'[c] = stage[c] /\ link'[c] = link[c] /\ wire'[c] = wire[c]
        /\ entries'[c] = entries[c]
    BY <1>8 DEF BridgeSafe, BridgeTables
  <2>2. QED
    BY <2>1, LeftAlone DEF BridgeSafe
<1>9. BridgeTables'
  <2>1. "over" \in Bridges!Stages
    BY DEF Bridges!Stages
  <2>2. /\ stage' \in [Bridge -> Bridges!Stages]
        /\ link' \in [Bridge -> {"none", "up", "closed", "lost"}]
        /\ wire' \in [Bridge -> Seq(Messages)] /\ DOMAIN entries' = Bridge
    BY <1>2, <1>5, <2>1 DEF BridgeSafe, BridgeTables
  <2>3. QED
    BY <2>2 DEF BridgeSafe, BridgeTables
<1>10. Bridges!OpenDevices' = Bridges!OpenDevices /\ Bridges!NoneLeaks'
  BY DEF BridgeSafe, Bridges!OpenDevices, Bridges!NoneLeaks
<1>11. QED
  BY <1>7, <1>8, <1>9, <1>10 DEF BridgeSafe

LEMMA ButtonOffBridge == BridgeSafe /\ Bridges!ButtonOff => BridgeSafe'
<1> SUFFICES ASSUME BridgeSafe, Bridges!ButtonOff PROVE BridgeSafe'
  OBVIOUS
<1>1. current \in Bridge /\ current' = 0 /\ UNCHANGED <<ports, pending, enumerator, devices, bridged>>
  BY DEF Bridges!ButtonOff, Bridges!None, BridgeSafe, BridgeTables
<1>2. CASE stage[current] = "asking"
  <2>1. UNCHANGED <<stage, entries, link, wire>>
    BY <1>2 DEF Bridges!ButtonOff
  <2>2. Bridges!OpenDevices' = Bridges!OpenDevices /\ Bridges!NoneLeaks'
    BY <1>1 DEF BridgeSafe, Bridges!OpenDevices, Bridges!NoneLeaks
  <2>3. BridgeTables'
    BY <1>1, <2>1 DEF BridgeSafe, BridgeTables
  <2>4. \A c \in Bridge : BridgeKept(c)' /\ BridgeMirrored(c)'
    BY <1>1, <2>1, LeftAlone DEF BridgeSafe
  <2>5. QED
    BY <1>1, <2>2, <2>3, <2>4 DEF BridgeSafe
<1>3. CASE stage[current] # "asking"
  BY <1>1, <1>3, DestroyedBridge DEF Bridges!ButtonOff
<1>4. QED
  BY <1>2, <1>3

LEMMA BreakBridge ==
  ASSUME BridgeSafe, NEW b \in Bridge, Bridges!Break(b) PROVE BridgeSafe'
<1>1. PICK n \in 0 .. Len(wire[b]) : wire' = [wire EXCEPT ![b] = SubSeq(@, 1, n)]
  BY DEF Bridges!Break
<1>2. /\ link[b] = "up" /\ link' = [link EXCEPT ![b] = "lost"]
      /\ UNCHANGED <<ports, pending, current, stage, entries, enumerator, devices, bridged>>
  BY DEF Bridges!Break, Bridges!page
<1>3. /\ BridgeKept(b) /\ wire[b] \in Seq(Messages) /\ enumerator[b] \in Nat
      /\ NewIds(wire[b], Ids(b), enumerator[b])
  BY DEF BridgeSafe, BridgeTables, BridgeKept
<1>4. wire'[b] = SubSeq(wire[b], 1, n) /\ link'[b] = "lost"
  BY <1>1, <1>2 DEF BridgeSafe, BridgeTables
<1>5. wire'[b] \in Seq(Messages) /\ NewIds(wire'[b], Ids(b), enumerator[b])
  BY <1>3, <1>4, BrokenIds
<1>6. Ids(b)' = Ids(b)
  BY <1>2 DEF Ids
<1>7. BridgeKept(b)' /\ BridgeMirrored(b)'
  BY <1>2, <1>3, <1>4, <1>5, <1>6 DEF BridgeKept, BridgeMirrored
<1>8. ASSUME NEW c \in Bridge, c # b PROVE BridgeKept(c)' /\ BridgeMirrored(c)'
  <2>1. link'[c] = link[c] /\ wire'[c] = wire[c]
    BY <1>1, <1>2, <1>8 DEF BridgeSafe, BridgeTables
  <2>2. QED
    BY <1>2, <2>1, LeftAlone DEF BridgeSafe
<1>9. BridgeTables'
  BY <1>1, <1>2, <1>5 DEF BridgeSafe, BridgeTables
<1>10. Bridges!OpenDevices' = Bridges!OpenDevices /\ Bridges!NoneLeaks'
  BY <1>2 DEF BridgeSafe, Bridges!OpenDevices, Bridges!NoneLeaks
<1>11. QED
  BY <1>2, <1>7, <1>8, <1>9, <1>10 DEF BridgeSafe

(* The server handles the first message of bridge b.                       *)
LEMMA HandledBridge ==
  ASSUME BridgeSafe, NEW b \in Bridge, b \in DOMAIN devices, wire[b] # <<>>,
         wire' = [wire EXCEPT ![b] = Tail(@)],
         UNCHANGED <<ports, pending, current, stage, entries, enumerator, link>>,
         DOMAIN devices' = DOMAIN devices,
         \A c \in DOMAIN devices : c # b => devices'[c] = devices[c],
         NEW now, now = IF Head(wire[b]).type = "connected" THEN Ids(b) \cup {Head(wire[b]).id}
                                                           ELSE Ids(b) \ {Head(wire[b]).id},
         devices'[b] \in [now -> BridgeAddress],
         \A id \in now \cap Ids(b) : devices'[b][id] = devices[b][id],
         \A c \in DOMAIN devices : \A id \in DOMAIN devices[c] : (c = b => id \in now) =>
           (devices[c][id] \in bridged'.hub <=> devices[c][id] \in bridged.hub),
         \A id \in now \ Ids(b) : devices'[b][id] \in bridged'.hub <=>
                                    Head(wire[b]).device \in BridgeKnown,
         BridgedOwners(bridged', Bridges!OpenDevices'), Bridges!NoneLeaks'
  PROVE  BridgeSafe'
<1> DEFINE box == wire[b]
           top == enumerator[b]
           has == Ids(b)
           m == Head(box)
<1>1. /\ BridgeKept(b) /\ BridgeMirrored(b) /\ box \in Seq(Messages) /\ box # <<>> /\ top \in Nat
      /\ NewIds(box, has, top) /\ has \subseteq 1 .. top
  BY DEF BridgeSafe, BridgeTables, BridgeKept
<1>2. Ids(b)' = now /\ has = DOMAIN devices[b]
  BY DEF Ids
<1>3. wire'[b] = Tail(box)
  BY DEF BridgeSafe, BridgeTables
<1>4. ASSUME NEW told, Tells(box, has, told, top)
      PROVE  NewIds(Tail(box), now, top) /\ Tells(Tail(box), now, told, top)
  <2>1. now = IF m.type = "connected" THEN has \cup {m.id} ELSE has \ {m.id}
    OBVIOUS
  <2> HIDE DEF box, top, has, m
  <2>2. QED
    BY <1>1, <1>4, <2>1, TailTells DEF m
<1>5. NewIds(Tail(box), now, top)
  <2> DEFINE told == {id \in 1 .. top : (id \in has \/ Hello(box, id)) /\ ~Goodbye(box, id)}
  <2>1. Tells(box, has, told, top)
    BY DEF Tells
  <2> HIDE DEF told
  <2>2. QED
    BY <1>4, <2>1
<1>6. Tail(box) \in Seq(Messages)
  BY <1>1
<1>7. box[1] = m /\ 1 \in 1 .. Len(box) /\ m.id \in 1 .. top
      /\ m.type \in {"connected", "disconnected"}
  <2>1. box[1] = m /\ 1 \in 1 .. Len(box) /\ box[1] \in Messages
    BY <1>1
  <2>2. QED
    BY <1>1, <2>1 DEF NewIds, Messages
<1>8. BridgeKept(b)'
  <2>1. now \subseteq 1 .. top
    BY <1>1, <1>7
  <2>2. b \in DOMAIN devices' /\ DOMAIN devices'[b] = now
    OBVIOUS
  <2> HIDE DEF box, top, has
  <2>3. QED
    BY <1>1, <1>2, <1>3, <1>5, <2>1, <2>2 DEF BridgeKept, top
<1>9. BridgeMirrored(b)'
  <2> SUFFICES ASSUME link[b] = "up" PROVE BridgeMirrored(b)'
    BY DEF BridgeMirrored
  <2>1. /\ Tells(box, has, DOMAIN entries[b], top) /\ NamesOf(box, entries[b])
        /\ \A id \in has \cap DOMAIN entries[b] :
             devices[b][id] \in bridged.hub <=> entries[b][id][1] \in BridgeKnown
    BY <1>1 DEF BridgeMirrored
  <2>2. Tells(Tail(box), now, DOMAIN entries[b], top) /\ NamesOf(Tail(box), entries[b])
    BY <1>1, <1>4, <2>1, TailNames
  <2>3. ASSUME NEW id \in now \cap DOMAIN entries[b]
        PROVE  devices'[b][id] \in bridged'.hub <=> entries[b][id][1] \in BridgeKnown
    <3>1. CASE id \in has
      <4>1. devices'[b][id] = devices[b][id]
        BY <3>1
      <4>2. devices[b][id] \in bridged'.hub <=> devices[b][id] \in bridged.hub
        BY <1>2, <3>1
      <4>3. QED
        BY <2>1, <3>1, <4>1, <4>2
    <3>2. CASE id \notin has
      <4>1. m.type = "connected" /\ m.id = id
        BY <3>2
      <4>2. m.device = entries[b][id][1]
        BY <1>7, <2>1, <4>1 DEF NamesOf
      <4>3. QED
        BY <3>2, <4>2
    <3>3. QED
      BY <3>1, <3>2
  <2>4. QED
    BY <1>2, <1>3, <2>2, <2>3 DEF BridgeMirrored
<1>10. ASSUME NEW c \in Bridge, c # b PROVE BridgeKept(c)' /\ BridgeMirrored(c)'
  <2>1. wire'[c] = wire[c]
    BY <1>10 DEF BridgeSafe, BridgeTables
  <2>2. c \in DOMAIN devices => devices'[c] = devices[c] /\ Ids(c) = DOMAIN devices[c]
    BY <1>10 DEF Ids
  <2>3. c \in DOMAIN devices =>
          \A id \in Ids(c) : devices[c][id] \in bridged'.hub <=> devices[c][id] \in bridged.hub
    BY <1>10, <2>2
  <2>4. BridgeKept(c) /\ BridgeMirrored(c)
    BY DEF BridgeSafe
  <2>5. QED
    BY <2>1, <2>2, <2>3, <2>4, LeftAlone
<1>11. BridgeTables'
  <2>1. wire' \in [Bridge -> Seq(Messages)]
    BY <1>6 DEF BridgeSafe, BridgeTables
  <2>2. QED
    BY <2>1 DEF BridgeSafe, BridgeTables
<1>12. QED
  BY <1>8, <1>9, <1>10, <1>11 DEF BridgeSafe

LEMMA CreatedBridge ==
  ASSUME BridgeSafe, NEW b \in Bridge, Bridges!Handler(b), Head(wire[b]).type = "connected"
  PROVE  BridgeSafe'
<1> DEFINE m == Head(wire[b])
           D == Bridges!OpenDevices
<1>1. /\ b \in DOMAIN devices /\ wire[b] # <<>> /\ wire' = [wire EXCEPT ![b] = Tail(@)]
      /\ UNCHANGED <<ports, pending, current, stage, entries, enumerator, link>>
      /\ Bridges!CreateDevice(b, m)
  BY DEF Bridges!Handler, Bridges!page
<1>2. /\ BridgeKept(b) /\ wire[b] \in Seq(Messages) /\ BridgedOwners(bridged, D)
      /\ bridged.alive = D /\ D \subseteq BridgeAddress /\ bridged.hub \subseteq D
      /\ Bridges!NoneLeaks /\ Ids(b) = DOMAIN devices[b]
      /\ devices[b] \in [DOMAIN devices[b] -> BridgeAddress]
  BY <1>1 DEF BridgeSafe, BridgeTables, BridgeKept, BridgedOwners, Bridges!Owners, Ids
<1>3. m = wire[b][1] /\ 1 \in 1 .. Len(wire[b])
  BY <1>1, <1>2
<1>4. m.id \notin Ids(b)
  BY <1>2, <1>3 DEF BridgeKept, NewIds
<1>5. PICK d \in BridgeAddress \ D :
        /\ devices' = [devices EXCEPT ![b] =
             [id \in DOMAIN @ \cup {m.id} |-> IF id \in DOMAIN @ THEN @[id] ELSE d]]
        /\ bridged' = Bridges!Created(Bridges!Allocate(bridged, {d}), {d},
                        IF m.device \in BridgeKnown THEN {d} ELSE {}, Bridges!Registered)
  BY <1>1, <1>2 DEF Bridges!CreateDevice
<1> HIDE DEF m, D
<1>6. /\ DOMAIN devices' = DOMAIN devices
      /\ \A c \in DOMAIN devices : c # b => devices'[c] = devices[c]
      /\ devices'[b] = [id \in Ids(b) \cup {m.id} |-> IF id \in Ids(b) THEN devices[b][id] ELSE d]
  BY <1>1, <1>2, <1>5
<1> DEFINE now == Ids(b) \cup {m.id}
<1>7. /\ DOMAIN devices'[b] = now /\ devices'[b] \in [now -> BridgeAddress]
      /\ \A id \in Ids(b) : devices'[b][id] = devices[b][id]
      /\ devices'[b][m.id] = d
  BY <1>2, <1>4, <1>6
<1>8. BridgedOwners(bridged', D \cup {d})
      /\ bridged'.hub = bridged.hub \cup (IF m.device \in BridgeKnown THEN {d} ELSE {})
  <2> DEFINE k == IF m.device \in BridgeKnown THEN {d} ELSE {}
  <2>1. k \in SUBSET {d}
    OBVIOUS
  <2>2. bridged' = Adopted(bridged, {d}, k)
    BY <1>5 DEF Adopted
  <2> HIDE DEF k
  <2>3. BridgedOwners(bridged', D \cup {d}) /\ bridged'.hub = bridged.hub \cup k
    <3> DEFINE S == {d}
    <3>1. Adoptable(D, S, k)
      BY <2>1 DEF Adoptable
    <3>2. BridgedOwners(bridged, D)
      BY <1>2
    <3> HIDE DEF S
    <3>3. /\ BridgedOwners(Adopted(bridged, S, k), D \cup S)
          /\ Adopted(bridged, S, k).hub = bridged.hub \cup k
      BY <3>1, <3>2, BridgedMade
    <3>4. QED
      BY <2>2, <3>3 DEF S
  <2>4. QED
    BY <2>3 DEF k
<1>9. \A c \in DOMAIN devices : \A id \in DOMAIN devices[c] :
        devices[c][id] \in D /\ devices[c][id] # d
  BY DEF D, Bridges!OpenDevices
<1>10. Bridges!OpenDevices' = D \cup {d}
  <2>1. \A c \in DOMAIN devices : c # b => DOMAIN devices'[c] = DOMAIN devices[c]
    BY <1>6
  <2>2. Bridges!OpenDevices' \subseteq D \cup {d}
    <3> SUFFICES ASSUME NEW c \in DOMAIN devices', NEW id \in DOMAIN devices'[c]
                 PROVE  devices'[c][id] \in D \cup {d}
      BY DEF Bridges!OpenDevices
    <3>1. CASE c = b
      BY <1>1, <1>2, <1>7, <1>9, <3>1
    <3>2. CASE c # b
      BY <1>6, <1>9, <3>2
    <3>3. QED
      BY <3>1, <3>2
  <2>3. D \subseteq Bridges!OpenDevices'
    <3> SUFFICES ASSUME NEW c \in DOMAIN devices, NEW id \in DOMAIN devices[c]
                 PROVE  devices[c][id] \in Bridges!OpenDevices'
      BY DEF D, Bridges!OpenDevices
    <3>1. c \in DOMAIN devices' /\ id \in DOMAIN devices'[c] /\ devices'[c][id] = devices[c][id]
      BY <1>2, <1>6, <1>7
    <3>2. QED
      BY <3>1 DEF Bridges!OpenDevices
  <2>4. d \in Bridges!OpenDevices'
    <3>1. b \in DOMAIN devices' /\ m.id \in DOMAIN devices'[b] /\ devices'[b][m.id] = d
      BY <1>1, <1>6, <1>7
    <3>2. QED
      BY <3>1 DEF Bridges!OpenDevices
  <2>5. QED
    BY <2>2, <2>3, <2>4
<1>11. Bridges!NoneLeaks'
  <2>1. bridged'.alive = Bridges!OpenDevices'
    BY <1>8, <1>10 DEF BridgedOwners
  <2>2. ASSUME NEW c \in DOMAIN devices', NEW id \in DOMAIN devices'[c]
        PROVE  \/ c \in DOMAIN devices /\ id \in DOMAIN devices[c] /\ devices'[c][id] = devices[c][id]
               \/ c = b /\ id = m.id /\ devices'[c][id] = d
    BY <1>1, <1>2, <1>6, <1>7
  <2>3. \A c, e \in DOMAIN devices : \A id \in DOMAIN devices[c], jd \in DOMAIN devices[e] :
          devices[c][id] = devices[e][jd] => c = e /\ id = jd
    BY <1>2 DEF Bridges!NoneLeaks
  <2>4. ASSUME NEW c \in DOMAIN devices', NEW e \in DOMAIN devices',
               NEW id \in DOMAIN devices'[c], NEW jd \in DOMAIN devices'[e],
               devices'[c][id] = devices'[e][jd]
        PROVE  c = e /\ id = jd
    <3>1. CASE c = b /\ id = m.id /\ devices'[c][id] = d
      BY <1>9, <2>2, <2>4, <3>1
    <3>2. CASE c \in DOMAIN devices /\ id \in DOMAIN devices[c] /\ devices'[c][id] = devices[c][id]
      <4>1. CASE e = b /\ jd = m.id /\ devices'[e][jd] = d
        BY <1>9, <2>4, <3>2, <4>1
      <4>2. CASE e \in DOMAIN devices /\ jd \in DOMAIN devices[e]
                 /\ devices'[e][jd] = devices[e][jd]
        <5>1. devices[c][id] = devices[e][jd]
          BY <2>4, <3>2, <4>2, Zenon
        <5>2. QED
          BY <2>3, <3>2, <4>2, <5>1
      <4>3. QED
        BY <2>2, <4>1, <4>2
    <3>3. QED
      BY <2>2, <3>1, <3>2
  <2>5. QED
    BY <2>1, <2>4 DEF Bridges!NoneLeaks
<1>12. \A c \in DOMAIN devices : \A id \in DOMAIN devices[c] :
         devices[c][id] \in bridged'.hub <=> devices[c][id] \in bridged.hub
  BY <1>8, <1>9
<1>13. \A id \in now \ Ids(b) : devices'[b][id] \in bridged'.hub <=> m.device \in BridgeKnown
  <2>1. d \notin bridged.hub
    BY <1>2
  <2>2. QED
    BY <1>7, <1>8, <2>1
<1>14. now = IF m.type = "connected" THEN Ids(b) \cup {m.id} ELSE Ids(b) \ {m.id}
  BY DEF m
<1> HIDE DEF now
<1>15. QED
  BY <1>1, <1>6, <1>7, <1>8, <1>10, <1>11, <1>12, <1>13, <1>14, HandledBridge DEF m

(* What is released was the devices G of the ids that bridge b loses.      *)
LEMMA ReleasedDevices ==
  ASSUME BridgeSafe, NEW b \in DOMAIN devices, NEW G \in SUBSET DOMAIN devices[b],
         bridged' = Bridges!Release(bridged, {devices[b][id] : id \in G}),
         \A c \in DOMAIN devices : c # b => c \in DOMAIN devices' /\ devices'[c] = devices[c],
         DOMAIN devices' \subseteq DOMAIN devices,
         b \in DOMAIN devices' =>
           /\ DOMAIN devices'[b] = DOMAIN devices[b] \ G
           /\ \A id \in DOMAIN devices'[b] : devices'[b][id] = devices[b][id],
         b \notin DOMAIN devices' => G = DOMAIN devices[b]
  PROVE  /\ BridgedOwners(bridged', Bridges!OpenDevices') /\ Bridges!NoneLeaks'
         /\ \A c \in DOMAIN devices : \A id \in DOMAIN devices[c] : ~(c = b /\ id \in G) =>
              (devices[c][id] \in bridged'.hub <=> devices[c][id] \in bridged.hub)
<1> DEFINE D == Bridges!OpenDevices
           lost == {devices[b][id] : id \in G}
<1>1. /\ BridgedOwners(bridged, D) /\ Bridges!NoneLeaks
      /\ \A c, e \in DOMAIN devices : \A id \in DOMAIN devices[c], jd \in DOMAIN devices[e] :
           devices[c][id] = devices[e][jd] => c = e /\ id = jd
  BY DEF BridgeSafe, Bridges!NoneLeaks
<1>2. lost \in SUBSET D
  BY DEF Bridges!OpenDevices
<1>3. \A c \in DOMAIN devices : \A id \in DOMAIN devices[c] :
        devices[c][id] \in lost <=> c = b /\ id \in G
  BY <1>1
<1>4. \A x : x \in D <=> \E c \in DOMAIN devices : \E id \in DOMAIN devices[c] : x = devices[c][id]
  BY DEF Bridges!OpenDevices
<1>5. \A x : x \in Bridges!OpenDevices' <=>
               \E c \in DOMAIN devices' : \E id \in DOMAIN devices'[c] : x = devices'[c][id]
  BY DEF Bridges!OpenDevices
<1>10. \A x : x \in lost => x \in D
  BY <1>2
<1> HIDE DEF D, lost
<1>6. \A c \in DOMAIN devices' : \A id \in DOMAIN devices'[c] :
        /\ c \in DOMAIN devices /\ id \in DOMAIN devices[c] /\ ~(c = b /\ id \in G)
        /\ devices'[c][id] = devices[c][id]
  OBVIOUS
<1>7. \A c \in DOMAIN devices : \A id \in DOMAIN devices[c] : ~(c = b /\ id \in G) =>
        c \in DOMAIN devices' /\ id \in DOMAIN devices'[c] /\ devices'[c][id] = devices[c][id]
  OBVIOUS
<1>8. Bridges!OpenDevices' = D \ lost
  <2>1. \A x : x \in Bridges!OpenDevices' => x \in D /\ x \notin lost
    BY <1>3, <1>4, <1>5, <1>6
  <2>2. \A x \in D : x \notin lost => x \in Bridges!OpenDevices'
    BY <1>3, <1>4, <1>5, <1>7
  <2>3. QED
    BY <2>1, <2>2
<1>9. BridgedOwners(bridged', D \ lost) /\ bridged'.hub = bridged.hub \ lost
  <2>1. bridged' = Bridges!Release(bridged, lost)
    BY DEF lost
  <2>2. QED
    <3>1. BridgedOwners(Bridges!Release(bridged, lost), D \ lost)
          /\ Bridges!Release(bridged, lost).hub = bridged.hub \ lost
      <4>1. BridgedOwners(bridged, D)
        BY <1>1
      <4>2. QED
        BY <1>2, <4>1, BridgedReleased
    <3>2. QED
      BY <2>1, <3>1, Zenon
<1>11. Bridges!NoneLeaks'
  <2>1. bridged'.alive = Bridges!OpenDevices'
    BY <1>8, <1>9 DEF BridgedOwners
  <2>2. ASSUME NEW c \in DOMAIN devices', NEW e \in DOMAIN devices',
               NEW id \in DOMAIN devices'[c], NEW jd \in DOMAIN devices'[e],
               devices'[c][id] = devices'[e][jd]
        PROVE  c = e /\ id = jd
    <3>1. /\ c \in DOMAIN devices /\ id \in DOMAIN devices[c] /\ devices'[c][id] = devices[c][id]
          /\ e \in DOMAIN devices /\ jd \in DOMAIN devices[e] /\ devices'[e][jd] = devices[e][jd]
      BY <1>6
    <3>2. devices[c][id] = devices[e][jd]
      BY <2>2, <3>1, Zenon
    <3>3. QED
      BY <1>1, <3>1, <3>2
  <2>3. QED
    BY <2>1, <2>2 DEF Bridges!NoneLeaks
<1>12. \A c \in DOMAIN devices : \A id \in DOMAIN devices[c] : ~(c = b /\ id \in G) =>
         (devices[c][id] \in bridged'.hub <=> devices[c][id] \in bridged.hub)
  BY <1>3, <1>9
<1>13. QED
  BY <1>8, <1>9, <1>11, <1>12

LEMMA DeletedBridge ==
  ASSUME BridgeSafe, NEW b \in Bridge, Bridges!Handler(b), Head(wire[b]).type # "connected"
  PROVE  BridgeSafe'
<1> DEFINE m == Head(wire[b])
           now == Ids(b) \ {m.id}
<1>1. /\ b \in DOMAIN devices /\ wire[b] # <<>> /\ wire' = [wire EXCEPT ![b] = Tail(@)]
      /\ UNCHANGED <<ports, pending, current, stage, entries, enumerator, link>>
      /\ Bridges!DeleteDevice(b, m)
  BY DEF Bridges!Handler, Bridges!page
<1>2. Ids(b) = DOMAIN devices[b] /\ devices[b] \in [DOMAIN devices[b] -> BridgeAddress]
  BY <1>1 DEF BridgeSafe, BridgeKept, Ids
<1>3. now = IF m.type = "connected" THEN Ids(b) \cup {m.id} ELSE Ids(b) \ {m.id}
  OBVIOUS
<1> HIDE DEF m
<1>4. CASE m.id \in DOMAIN devices[b]
  <2>1. /\ bridged' = Bridges!Release(bridged, {devices[b][m.id]})
        /\ devices' = [devices EXCEPT ![b] = [id \in DOMAIN @ \ {m.id} |-> @[id]]]
    BY <1>1, <1>4 DEF Bridges!DeleteDevice
  <2> DEFINE G == {m.id}
  <2>2. /\ DOMAIN devices' = DOMAIN devices
        /\ \A c \in DOMAIN devices : c # b => c \in DOMAIN devices' /\ devices'[c] = devices[c]
        /\ devices'[b] = [id \in DOMAIN devices[b] \ G |-> devices[b][id]]
    BY <1>1, <2>1
  <2>3. /\ DOMAIN devices'[b] = DOMAIN devices[b] \ G
        /\ \A id \in DOMAIN devices'[b] : devices'[b][id] = devices[b][id]
    BY <2>2
  <2>4. bridged' = Bridges!Release(bridged, {devices[b][id] : id \in G})
    <3>1. {devices[b][id] : id \in G} = {devices[b][m.id]}
      OBVIOUS
    <3>2. QED
      BY <2>1, <3>1
  <2>5. G \in SUBSET DOMAIN devices[b] /\ b \in DOMAIN devices' /\ b \in DOMAIN devices
        /\ DOMAIN devices' \subseteq DOMAIN devices /\ now = DOMAIN devices[b] \ G
    BY <1>1, <1>2, <1>4, <2>2
  <2> HIDE DEF G, now
  <2>6. /\ BridgedOwners(bridged', Bridges!OpenDevices') /\ Bridges!NoneLeaks'
        /\ \A c \in DOMAIN devices : \A id \in DOMAIN devices[c] : ~(c = b /\ id \in G) =>
             (devices[c][id] \in bridged'.hub <=> devices[c][id] \in bridged.hub)
    BY <2>2, <2>3, <2>4, <2>5, ReleasedDevices
  <2>7. \A c \in DOMAIN devices : \A id \in DOMAIN devices[c] : (c = b => id \in now) =>
          (devices[c][id] \in bridged'.hub <=> devices[c][id] \in bridged.hub)
    BY <2>5, <2>6
  <2>8. devices'[b] \in [now -> BridgeAddress]
    BY <1>2, <2>2, <2>5
  <2>9. /\ \A id \in now \cap Ids(b) : devices'[b][id] = devices[b][id]
        /\ now \ Ids(b) = {}
    BY <1>2, <2>3, <2>5
  <2>10. /\ now = IF Head(wire[b]).type = "connected" THEN Ids(b) \cup {Head(wire[b]).id}
                                                     ELSE Ids(b) \ {Head(wire[b]).id}
         /\ \A id \in now \ Ids(b) : devices'[b][id] \in bridged'.hub <=>
                                       Head(wire[b]).device \in BridgeKnown
    BY <1>3, <2>9 DEF m
  <2>11. /\ DOMAIN devices' = DOMAIN devices
         /\ \A c \in DOMAIN devices : c # b => devices'[c] = devices[c]
    BY <2>2
  <2>12. BridgedOwners(bridged', Bridges!OpenDevices') /\ Bridges!NoneLeaks'
    BY <2>6
  <2>13. \A id \in now \cap Ids(b) : devices'[b][id] = devices[b][id]
    BY <2>9
  <2>14. QED
    BY ZenonT(60), <1>1, <2>7, <2>8, <2>10, <2>11, <2>12, <2>13, HandledBridge
<1>5. CASE m.id \notin DOMAIN devices[b]
  <2>1. UNCHANGED <<bridged, devices>>
    BY <1>1, <1>5 DEF Bridges!DeleteDevice
  <2>2. now = DOMAIN devices[b]
    BY <1>2, <1>5
  <2>3. BridgedOwners(bridged', Bridges!OpenDevices') /\ Bridges!NoneLeaks'
    BY <2>1 DEF BridgeSafe, Bridges!OpenDevices, Bridges!NoneLeaks
  <2>4. now \ Ids(b) = {}
    BY <1>2, <2>2
  <2> HIDE DEF now
  <2>5. /\ now = IF Head(wire[b]).type = "connected" THEN Ids(b) \cup {Head(wire[b]).id}
                                                     ELSE Ids(b) \ {Head(wire[b]).id}
        /\ \A id \in now \ Ids(b) : devices'[b][id] \in bridged'.hub <=>
                                       Head(wire[b]).device \in BridgeKnown
    BY <1>3, <2>4 DEF m
  <2>6. devices'[b] \in [now -> BridgeAddress]
    BY <1>2, <2>1, <2>2
  <2>7. QED
    BY <1>1, <2>1, <2>3, <2>5, <2>6, HandledBridge
<1>6. QED
  BY <1>4, <1>5

LEMMA DisconnectedBridge ==
  ASSUME BridgeSafe, NEW b \in Bridge, Bridges!DisconnectionHandler(b) PROVE BridgeSafe'
<1>1. /\ b \in DOMAIN devices /\ wire[b] = <<>> /\ link[b] \in {"closed", "lost"}
      /\ UNCHANGED <<ports, pending, current, stage, entries, enumerator, link, wire>>
      /\ bridged' = Bridges!Release(bridged, {devices[b][id] : id \in DOMAIN devices[b]})
      /\ devices' = [c \in DOMAIN devices \ {b} |-> devices[c]]
  BY DEF Bridges!DisconnectionHandler, Bridges!page, Bridges!DeleteClient
<1>2. /\ DOMAIN devices' = DOMAIN devices \ {b}
      /\ \A c \in DOMAIN devices : c # b => c \in DOMAIN devices' /\ devices'[c] = devices[c]
  BY <1>1
<1> DEFINE G == DOMAIN devices[b]
<1>3. /\ b \notin DOMAIN devices' /\ DOMAIN devices' \subseteq DOMAIN devices
      /\ G \in SUBSET DOMAIN devices[b] /\ G = DOMAIN devices[b]
      /\ bridged' = Bridges!Release(bridged, {devices[b][id] : id \in G})
  BY <1>1, <1>2
<1> HIDE DEF G
<1>4. /\ BridgedOwners(bridged', Bridges!OpenDevices') /\ Bridges!NoneLeaks'
      /\ \A c \in DOMAIN devices : \A id \in DOMAIN devices[c] : ~(c = b /\ id \in G) =>
           (devices[c][id] \in bridged'.hub <=> devices[c][id] \in bridged.hub)
  BY <1>1, <1>2, <1>3, ReleasedDevices
<1>5. Ids(b)' = {} /\ Len(wire[b]) = 0
  BY <1>1, <1>3 DEF Ids
<1>6. BridgeKept(b)' /\ BridgeMirrored(b)'
  <2>1. NewIds(wire[b], {}, enumerator[b])
    BY <1>5 DEF NewIds
  <2>2. BridgeKept(b)'
    BY <1>1, <1>3, <1>5, <2>1 DEF BridgeSafe, BridgeKept
  <2>3. QED
    BY <1>1, <2>2 DEF BridgeMirrored
<1>7. ASSUME NEW c \in Bridge, c # b PROVE BridgeKept(c)' /\ BridgeMirrored(c)'
  <2>1. c \in DOMAIN devices => devices'[c] = devices[c] /\ Ids(c) = DOMAIN devices[c]
    BY <1>2, <1>7 DEF Ids
  <2>2. c \in DOMAIN devices =>
          \A id \in Ids(c) : devices[c][id] \in bridged'.hub <=> devices[c][id] \in bridged.hub
    BY <1>4, <1>7, <2>1
  <2>3. c \in DOMAIN devices' <=> c \in DOMAIN devices
    BY <1>2, <1>7
  <2>4. BridgeKept(c) /\ BridgeMirrored(c)
    BY DEF BridgeSafe
  <2>5. QED
    BY <1>1, <2>1, <2>2, <2>3, <2>4, LeftAlone
<1>8. BridgeTables'
  BY <1>1, <1>2 DEF BridgeSafe, BridgeTables
<1>9. QED
  BY <1>4, <1>6, <1>7, <1>8 DEF BridgeSafe

LEMMA BridgeNext == BridgeSafe /\ [Bridges!Next]_bridgeVars => BridgeSafe'
<1> SUFFICES ASSUME BridgeSafe, [Bridges!Next]_bridgeVars PROVE BridgeSafe'
  OBVIOUS
<1>1. CASE UNCHANGED bridgeVars
  <2>1. UNCHANGED <<ports, pending, current, stage, entries, enumerator, link, wire, devices,
                    bridged>>
    BY <1>1 DEF bridgeVars
  <2>2. Bridges!OpenDevices' = Bridges!OpenDevices /\ Bridges!NoneLeaks'
    BY <2>1 DEF BridgeSafe, Bridges!OpenDevices, Bridges!NoneLeaks
  <2>3. BridgeTables'
    BY <2>1 DEF BridgeSafe, BridgeTables
  <2>4. \A c \in Bridge : BridgeKept(c)' /\ BridgeMirrored(c)'
    BY <2>1, LeftAlone DEF BridgeSafe
  <2>5. QED
    BY <2>1, <2>2, <2>3, <2>4 DEF BridgeSafe
<1>2. CASE Bridges!Next
  <2>1. ASSUME NEW b \in Bridge, Bridges!Handler(b) PROVE BridgeSafe'
    BY <2>1, CreatedBridge, DeletedBridge
  <2>2. QED
    BY <1>2, <2>1, ButtonOnBridge, AccessGrantedBridge, ButtonOffBridge, PortEventBridge,
       InitializeBridge, OpenBridge, OnMIDISuccessBridge, BreakBridge, DisconnectedBridge
       DEF Bridges!Next, Bridges!Server
<1>3. QED
  BY <1>1, <1>2

LEMMA BridgeImplies ==
  BridgeSafe => Bridges!TypeOK /\ Bridges!NoneLeaks /\ Bridges!ServerMirrorsPage
                /\ Bridges!NoDangling
<1> SUFFICES ASSUME BridgeSafe
             PROVE  Bridges!TypeOK /\ Bridges!NoneLeaks /\ Bridges!ServerMirrorsPage
                    /\ Bridges!NoDangling
  OBVIOUS
<1>1. Bridges!TypeOK
  <2>1. Bridges!Cardinality(Bridge) = Cardinality(Bridge)
    BY DEF Bridges!Cardinality, Cardinality
  <2>2. \A b \in Bridge : DOMAIN entries[b] \subseteq 1 .. enumerator[b]
    BY DEF BridgeSafe, BridgeKept
  <2>3. QED
    BY <2>1, <2>2 DEF BridgeSafe, BridgeTables, BridgedOwners, Bridges!TypeOK, Bridges!None
<1>2. Bridges!NoDangling
  BY DEF BridgeSafe, BridgedOwners, Bridges!NoDangling, Bridges!NoneDangling
<1>3. Bridges!ServerMirrorsPage
  <2> SUFFICES ASSUME NEW b \in DOMAIN devices, link[b] = "up", wire[b] = <<>>
               PROVE  /\ DOMAIN devices[b] = DOMAIN entries[b]
                      /\ \A id \in DOMAIN devices[b] :
                           devices[b][id] \in bridged.hub <=> entries[b][id][1] \in BridgeKnown
    BY DEF Bridges!ServerMirrorsPage
  <2>1. /\ b \in Bridge /\ BridgeKept(b) /\ BridgeMirrored(b) /\ Ids(b) = DOMAIN devices[b]
        /\ Len(wire[b]) = 0
    BY DEF BridgeSafe, BridgeTables, Ids
  <2>2. \A id \in 1 .. enumerator[b] : id \in DOMAIN entries[b] <=> id \in Ids(b)
    BY <2>1 DEF BridgeMirrored, Tells, Hello, Goodbye
  <2>3. Ids(b) = DOMAIN entries[b]
    BY <2>1, <2>2 DEF BridgeKept
  <2>4. QED
    BY <2>1, <2>3 DEF BridgeMirrored
<1>4. QED
  BY <1>1, <1>2, <1>3 DEF BridgeSafe

LEMMA BridgeSteps == [Next]_vars => [Bridges!Next]_bridgeVars
BY DEF Next, InHub, InNative, InPorts, InBridge, InPage, vars

(* Every bridged device belongs to one connected page and to one id of it, *)
(* and a connection that has delivered what was sent leaves the server     *)
(* with the devices of the page and a controller for each known one.       *)
THEOREM ServersMirrorPages == Spec => []ServerMirrorsPage
<1>1. Init => BridgeSafe
  BY BridgeInit DEF Init
<1>2. BridgeSafe /\ [Next]_vars => BridgeSafe'
  BY BridgeSteps, BridgeNext
<1>3. BridgeSafe => ServerMirrorsPage
  BY BridgeImplies DEF ServerMirrorsPage
<1>4. QED
  BY <1>1, <1>2, <1>3, PTL DEF Spec

(* However devices and connections come and go, though new devices get the *)
(* addresses of old ones, nobody keeps a pointer to one that is gone.      *)
THEOREM NothingDangles == Spec => []NoDangling
<1>1. Init => NativeSafe /\ BridgeSafe
  BY NativeInit, BridgeInit DEF Init
<1>2. NativeSafe /\ BridgeSafe /\ [Next]_vars => NativeSafe' /\ BridgeSafe'
  BY NativeSteps, NativeNext, BridgeSteps, BridgeNext
<1>3. NativeSafe /\ BridgeSafe => NoDangling
  BY NativeImplies, BridgeImplies DEF NoDangling
<1>4. QED
  BY <1>1, <1>2, <1>3, PTL DEF Spec
=============================================================================
