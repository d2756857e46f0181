---------------------------- MODULE RoutingProofs ----------------------------
(***************************************************************************)
(* Proofs about the elements between inputs and outputs: a slicer with any *)
(* set and order of slices, a combine of any parts, a repeat fallback and  *)
(* a switch, each first, then the program that uses one of them.           *)
(***************************************************************************)
EXTENDS Routing, TLAPS

-----------------------------------------------------------------------------
(* Slicer.                                                                 *)

(* The types, and which slices are behind: enough to be inductive.         *)
SlicerInv == TypeOK /\ ReadyMeansBehind

LEMMA SlicerInit == Init => SlicerInv
<1> SUFFICES ASSUME Init PROVE SlicerInv
  OBVIOUS
<1>1. Len(Order) \in Nat /\ Len(Order) > 0 /\ MaxFrames \in Nat
  BY SlicerAssumption
<1>2. TypeOK
  <2>1. turn \in 1 .. Len(Order) /\ buffer \in 0 .. MaxFrames
    BY <1>1 DEF Init
  <2>2. frameReady \in [Slices -> BOOLEAN] /\ busy \in [Slices -> BOOLEAN]
    BY DEF Init
  <2>3. out \in [Slices -> 0 .. MaxFrames]
    BY <1>1 DEF Init
  <2>4. QED
    BY <2>1, <2>2, <2>3 DEF Init, TypeOK
<1>3. ReadyMeansBehind
  <2>1. ASSUME NEW s \in Slices
        PROVE  ~frameReady[s] /\ out[s] <= buffer /\ ~(out[s] < buffer)
    BY DEF Init
  <2>2. QED
    BY <2>1, Zenon DEF ReadyMeansBehind
<1>4. QED
  BY <1>2, <1>3 DEF SlicerInv

LEMMA LoadFrameStep ==
  ASSUME SlicerInv, LoadFrame, turn' \in 1 .. Len(Order)
  PROVE  SlicerInv'
<1>1. buffer' \in 0 .. MaxFrames
  BY SlicerAssumption DEF SlicerInv, TypeOK, LoadFrame, CanLoad
<1>2. TypeOK'
  BY <1>1 DEF SlicerInv, TypeOK, LoadFrame
<1>3. ReadyMeansBehind'
  BY DEF SlicerInv, TypeOK, ReadyMeansBehind, LoadFrame
<1>4. QED
  BY <1>2, <1>3 DEF SlicerInv

LEMMA SendSliceStep ==
  ASSUME SlicerInv, NEW s \in Slices, SendSlice(s), turn' \in 1 .. Len(Order)
  PROVE  SlicerInv'
<1>1. TypeOK'
  BY DEF SlicerInv, TypeOK, SendSlice
<1>2. ASSUME NEW t \in Slices
      PROVE  out'[t] <= buffer' /\ (frameReady'[t] <=> out'[t] < buffer')
  <2>1. CASE t = s
    BY <2>1 DEF SlicerInv, TypeOK, SendSlice
  <2>2. CASE t # s
    BY <2>2 DEF SlicerInv, TypeOK, ReadyMeansBehind, SendSlice
  <2>3. QED
    BY <2>1, <2>2
<1>3. QED
  BY <1>1, <1>2 DEF SlicerInv, ReadyMeansBehind

(* The chain whose turn it is, and the turn after it.                      *)
LEMMA TurnFacts ==
  ASSUME turn \in 1 .. Len(Order)
  PROVE  /\ Order[turn] \in Slices \cup {Source}
         /\ (IF turn = Len(Order) THEN 1 ELSE turn + 1) \in 1 .. Len(Order)
<1>1. Len(Order) \in Nat /\ Len(Order) > 0
  BY SlicerAssumption
<1>2. Order[turn] \in Slices \cup {Source}
  BY SlicerAssumption
<1>3. (IF turn = Len(Order) THEN 1 ELSE turn + 1) \in 1 .. Len(Order)
  BY <1>1
<1>4. QED
  BY <1>2, <1>3

LEMMA SlicerNext == SlicerInv /\ [Next]_vars => SlicerInv'
<1> SUFFICES ASSUME SlicerInv, [Next]_vars
             PROVE  SlicerInv'
  OBVIOUS
<1>1. CASE RunLoop
  <2>1. turn' \in 1 .. Len(Order) /\ Order[turn] \in Slices \cup {Source}
    BY <1>1, TurnFacts DEF SlicerInv, TypeOK, RunLoop
  <2>2. CASE LoadFrame
    BY <2>1, <2>2, LoadFrameStep
  <2>3. CASE Order[turn] # Source /\ SendSlice(Order[turn])
    BY <2>1, <2>3, SendSliceStep
  <2>4. CASE Idle(Order[turn])
    BY <2>1, <2>4 DEF SlicerInv, TypeOK, ReadyMeansBehind, Idle
  <2>5. QED
    BY <1>1, <2>2, <2>3, <2>4 DEF RunLoop, ProcessChain
<1>2. CASE SourceArrives
  BY <1>2 DEF SlicerInv, TypeOK, ReadyMeansBehind, SourceArrives
<1>3. ASSUME NEW s \in Slices, OutputReady(s)
      PROVE  SlicerInv'
  BY <1>3 DEF SlicerInv, TypeOK, ReadyMeansBehind, OutputReady
<1>4. CASE UNCHANGED vars
  BY <1>4 DEF SlicerInv, TypeOK, ReadyMeansBehind, vars
<1>5. QED
  BY <1>1, <1>2, <1>3, <1>4 DEF Next

(* The slicer keeps its types.                                             *)
THEOREM SlicerTypeCorrect == Spec => []TypeOK
<1>1. SlicerInv => TypeOK
  BY DEF SlicerInv
<1>2. QED
  BY <1>1, SlicerInit, SlicerNext, PTL DEF Spec

(* A slice has a frame to send exactly when its output is behind, through  *)
(* every order of loading, sending and waiting.                            *)
THEOREM SlicesReadyWhenBehind == Spec => []ReadyMeansBehind
<1>1. SlicerInv => ReadyMeansBehind
  BY DEF SlicerInv
<1>2. QED
  BY <1>1, SlicerInit, SlicerNext, PTL DEF Spec

-----------------------------------------------------------------------------
(* Refinement.                                                             *)

LEMMA DeliveryInit == Init => Delivery!Init
BY DEF Init, Delivery!Init

(* Waiting until no slice with sync has a frame left is waiting until no   *)
(* lossless output is behind; a slice that has a frame sends the newest.   *)
LEMMA DeliveryStep == SlicerInv /\ [Next]_vars => [Delivery!Next]_<<buffer, out>>
<1> SUFFICES ASSUME SlicerInv, [Next]_vars
             PROVE  Delivery!Next \/ UNCHANGED <<buffer, out>>
  OBVIOUS
<1>1. CASE RunLoop
  <2>1. Order[turn] \in Slices \cup {Source}
    BY TurnFacts DEF SlicerInv, TypeOK
  <2>2. CASE LoadFrame
    <3>1. \A s \in Sync : s \in Slices /\ ~frameReady[s]
      BY <2>2, SlicerAssumption DEF LoadFrame, CanLoad, SlicerReady
    <3>2. \A s \in Sync : out[s] = buffer
      BY <3>1 DEF SlicerInv, TypeOK, ReadyMeansBehind
    <3>3. Delivery!Load
      BY <2>2, <3>2 DEF LoadFrame, Delivery!Load
    <3>4. QED
      BY <3>3 DEF Delivery!Next
  <2>3. CASE Order[turn] # Source /\ SendSlice(Order[turn])
    <3>1. Order[turn] \in Slices /\ out[Order[turn]] < buffer
      BY <2>1, <2>3 DEF SlicerInv, ReadyMeansBehind, SendSlice, CanSend
    <3>2. Delivery!Deliver(Order[turn])
      BY <2>3, <3>1 DEF SendSlice, Delivery!Deliver
    <3>3. QED
      BY <3>1, <3>2 DEF Delivery!Next
  <2>4. CASE Idle(Order[turn])
    BY <2>4 DEF Idle
  <2>5. QED
    BY <1>1, <2>2, <2>3, <2>4 DEF RunLoop, ProcessChain
<1>2. CASE SourceArrives
  BY <1>2 DEF SourceArrives
<1>3. ASSUME NEW s \in Slices, OutputReady(s)
      PROVE  UNCHANGED <<buffer, out>>
  BY <1>3 DEF OutputReady
<1>4. CASE UNCHANGED vars
  BY <1>4 DEF vars
<1>5. QED
  BY <1>1, <1>2, <1>3, <1>4 DEF Next

(* The slicer implements FrameDelivery: with sync no frame is skipped or   *)
(* sent twice, without it the newest frame is sent, for every number of    *)
(* slices and every order of the chains in the run loop.                   *)
THEOREM SlicerImplementsDelivery == Spec => DeliverySpec
<1>1. Init => Delivery!Init
  BY DeliveryInit
<1>2. SlicerInv /\ [Next]_vars => [Delivery!Next]_(Delivery!vars)
  BY DeliveryStep DEF Delivery!vars
<1>3. QED
  BY <1>1, <1>2, SlicerInit, SlicerNext, PTL DEF Spec, DeliverySpec, Delivery!Spec

-----------------------------------------------------------------------------
(* Combine.                                                                *)


(* A part has delivered one frame more than the output was given exactly   *)
(* when it is dirty.                                                       *)
OneAheadWhenDirty ==
  \A p \in Parts : sent[p] = used[p] + (IF dirty[p] THEN 1 ELSE 0)

(* A part has a size since its first frame; a dirty part has its newest    *)
(* frame in the buffer, unless the buffer was replaced.                    *)
PartsKnown ==
  \A p \in Parts :
    /\ length[p] = 0 => ~dirty[p]
    /\ ~resized /\ dirty[p] => region[p] = sent[p]

(* The assumption on the constants is carried along: a constant formula.   *)
CombineInv == C!CombineAssumption /\ C!TypeOK /\ OneAheadWhenDirty /\ PartsKnown /\ C!NewestOrBlank

LEMMA CombineInit == C!Init => CombineInv
<1> SUFFICES ASSUME C!Init PROVE CombineInv
  OBVIOUS
<1> C!CombineAssumption
  BY RoutingAssumption
<1>1. 0 \in 0 .. CombineFrames
  BY DEF C!CombineAssumption
<1>2. C!TypeOK
  BY <1>1 DEF C!Init, C!TypeOK, C!Blank
<1>3. OneAheadWhenDirty
  <2>1. ASSUME NEW p \in Parts
        PROVE  sent[p] = 0 /\ used[p] = 0 /\ ~dirty[p]
    BY DEF C!Init
  <2>2. \A p \in Parts : sent[p] = used[p] + (IF dirty[p] THEN 1 ELSE 0)
    <3>1. ASSUME NEW p \in Parts
          PROVE  sent[p] = used[p] + (IF dirty[p] THEN 1 ELSE 0)
      <4>1. sent[p] = 0 /\ used[p] = 0 /\ (IF dirty[p] THEN 1 ELSE 0) = 0
        BY <2>1, Zenon
      <4>2. QED
        BY <4>1
    <3>2. QED
      BY <3>1
  <2>3. QED
    BY <2>2 DEF OneAheadWhenDirty
<1>4. PartsKnown /\ C!NewestOrBlank
  BY DEF C!Init, PartsKnown, C!NewestOrBlank, C!Blank
<1>5. QED
  BY <1>2, <1>3, <1>4 DEF CombineInv

LEMMA PartProcessStep ==
  ASSUME CombineInv, NEW p \in Parts, NEW len \in Lengths, C!PartProcess(p, len)
  PROVE  CombineInv'
<1>1. sent[p] + 1 \in 0 .. CombineFrames /\ len # 0
  BY DEF C!CombineAssumption, CombineInv, C!TypeOK, C!PartProcess
<1>2. /\ sent' = [sent EXCEPT ![p] = sent[p] + 1] /\ dirty' = [dirty EXCEPT ![p] = TRUE]
      /\ ~dirty[p] /\ length' = [length EXCEPT ![p] = len]
      /\ UNCHANGED <<emitted, used>>
      /\ resized' = (resized \/ len # length[p])
  BY DEF C!PartProcess
<1>3. /\ region' \in [Parts -> 0 .. CombineFrames]
      /\ region'[p] = sent[p] + 1
      /\ \A q \in Parts \ {p} : region'[q] = 0 \/ region'[q] = region[q]
      /\ ~resized' => \A q \in Parts \ {p} : region'[q] = region[q]
  <2>1. CASE len # length[p]
    <3>1. C!Blank \in [Parts -> 0 .. CombineFrames] /\ \A q \in Parts : C!Blank[q] = 0
      BY <1>1 DEF C!Blank, C!CombineAssumption, CombineInv
    <3>2. region' = [C!Blank EXCEPT ![p] = sent[p] + 1] /\ resized'
      BY <1>2, <2>1 DEF C!PartProcess, CombineInv, C!TypeOK
    <3>3. QED
      BY <1>1, <3>1, <3>2
  <2>2. CASE len = length[p]
    <3>1. region' = [region EXCEPT ![p] = sent[p] + 1]
      BY <1>2, <2>2 DEF C!PartProcess, CombineInv, C!TypeOK
    <3>2. QED
      BY <1>1, <3>1 DEF CombineInv, C!TypeOK
  <2>3. QED
    BY <2>1, <2>2
<1>4. C!TypeOK'
  BY <1>1, <1>2, <1>3 DEF CombineInv, C!TypeOK
<1>5. OneAheadWhenDirty'
  BY <1>1, <1>2 DEF C!CombineAssumption, CombineInv, C!TypeOK, OneAheadWhenDirty
<1>6. PartsKnown'
  <2>1. ASSUME NEW q \in Parts
        PROVE  /\ length'[q] = 0 => ~dirty'[q]
               /\ ~resized' /\ dirty'[q] => region'[q] = sent'[q]
    <3>1. CASE q = p
      BY <1>1, <1>2, <1>3, <3>1 DEF CombineInv, C!TypeOK
    <3>2. CASE q # p
      BY <1>2, <1>3, <3>2 DEF CombineInv, C!TypeOK, PartsKnown
    <3>3. QED
      BY <3>1, <3>2
  <2>2. QED
    BY <2>1 DEF PartsKnown
<1>7. C!NewestOrBlank'
  <2>1. ASSUME NEW q \in Parts
        PROVE  region'[q] \in {0, sent'[q]}
    <3>1. CASE q = p
      BY <1>2, <1>3, <3>1 DEF CombineInv, C!TypeOK
    <3>2. CASE q # p
      BY <1>2, <1>3, <3>2 DEF CombineInv, C!TypeOK, C!NewestOrBlank
    <3>3. QED
      BY <3>1, <3>2
  <2>2. QED
    BY <2>1 DEF C!NewestOrBlank
<1>8. QED
  BY <1>4, <1>5, <1>6, <1>7 DEF CombineInv, C!CombineAssumption

(* Parts that have no size yet are not dirty, so that a frame that the     *)
(* chain drops takes nothing away.                                         *)
LEMMA ProcessStep == ASSUME CombineInv, C!Process PROVE CombineInv'
<1>1. CASE \A p \in Parts : length[p] = 0
  <2>1. dirty' = dirty
    BY <1>1, Zenon DEF C!Process, CombineInv, C!TypeOK, PartsKnown
  <2>2. UNCHANGED C!vars
    BY <1>1, <2>1 DEF C!Process, C!vars
  <2>3. QED
    BY <2>2 DEF C!vars, CombineInv, C!CombineAssumption, C!TypeOK, OneAheadWhenDirty, PartsKnown, C!NewestOrBlank
<1>2. CASE ~\A p \in Parts : length[p] = 0
  <2>1. /\ dirty' = [p \in Parts |-> FALSE] /\ emitted' = region /\ used' = sent
        /\ resized' = FALSE /\ UNCHANGED <<length, region, sent>>
    BY <1>2 DEF C!Process
  <2>2. C!TypeOK' /\ PartsKnown' /\ C!NewestOrBlank'
    BY <2>1 DEF CombineInv, C!TypeOK, PartsKnown, C!NewestOrBlank
  <2>3. OneAheadWhenDirty'
    BY <2>1 DEF C!CombineAssumption, CombineInv, C!TypeOK, OneAheadWhenDirty
  <2>4. QED
    BY <2>2, <2>3 DEF CombineInv, C!CombineAssumption
<1>3. QED
  BY <1>1, <1>2

LEMMA CombineNext == CombineInv /\ [C!Next]_(C!vars) => CombineInv'
<1> SUFFICES ASSUME CombineInv, [C!Next]_(C!vars)
             PROVE  CombineInv'
  OBVIOUS
<1>1. ASSUME NEW p \in Parts, NEW len \in Lengths, C!PartProcess(p, len) PROVE CombineInv'
  BY <1>1, PartProcessStep
<1>2. CASE C!Process
  BY <1>2, ProcessStep
<1>3. CASE UNCHANGED C!vars
  BY <1>3 DEF C!vars, CombineInv, C!CombineAssumption, C!TypeOK, OneAheadWhenDirty, PartsKnown, C!NewestOrBlank
<1>4. QED
  BY <1>1, <1>2, <1>3 DEF C!Next

LEMMA CombineInvariant == C!Spec => []CombineInv
BY CombineInit, CombineNext, PTL DEF C!Spec

(* A combined frame is made by Process only, of parts that are all dirty.  *)
LEMMA EmitsWhenReady ==
  ASSUME CombineInv, [C!Next]_(C!vars), used' # used
  PROVE  C!Process /\ C!Ready /\ used' = sent /\ emitted' = region
<1>1. C!Process
  BY DEF C!Next, C!PartProcess, C!vars
<1>2. QED
  BY <1>1 DEF C!Process

LEMMA TakesOneEach ==
  ASSUME CombineInv, [C!Next]_(C!vars)
  PROVE  [used' # used => \A p \in PartsSync : used'[p] = used[p] + 1]_(C!vars)
<1>1. ASSUME used' # used, NEW p \in PartsSync
      PROVE  used'[p] = used[p] + 1
  <2>1. p \in Parts /\ dirty[p] /\ used' = sent
    BY <1>1, EmitsWhenReady DEF C!CombineAssumption, CombineInv, C!Ready
  <2>2. sent[p] = used[p] + 1
    BY <2>1 DEF CombineInv, OneAheadWhenDirty
  <2>3. QED
    BY <2>1, <2>2
<1>2. QED
  BY <1>1

LEMMA TakesNewest ==
  ASSUME CombineInv, [C!Next]_(C!vars)
  PROVE  [used' # used /\ ~resized => \A p \in PartsSync : emitted'[p] = sent[p]]_(C!vars)
<1>1. ASSUME used' # used, ~resized, NEW p \in PartsSync
      PROVE  emitted'[p] = sent[p]
  <2>1. p \in Parts /\ dirty[p] /\ emitted' = region
    BY <1>1, EmitsWhenReady DEF C!CombineAssumption, CombineInv, C!Ready
  <2>2. QED
    BY <1>1, <2>1 DEF CombineInv, PartsKnown
<1>2. QED
  BY <1>1

(* No part of the combined buffer ever holds an older frame than the       *)
(* newest one it was sent, whichever parts change their size in between.   *)
THEOREM NothingOldComesBack == C!Spec => []C!NewestOrBlank
<1>1. CombineInv => C!NewestOrBlank
  BY DEF CombineInv
<1>2. QED
  BY <1>1, CombineInvariant, PTL

(* Every combined frame takes exactly one new frame of each part with      *)
(* sync: none is skipped and none is shown twice.                          *)
THEOREM CombineTakesOneEach == C!Spec => C!OneFrameEach
BY TakesOneEach, CombineInvariant, PTL DEF C!Spec, C!OneFrameEach

(* As long as no part changes its size, a combined frame holds the newest  *)
(* frame of every part with sync.                                          *)
THEOREM CombineIsSteady == C!Spec => C!SteadyFrames
BY TakesNewest, CombineInvariant, PTL DEF C!Spec, C!SteadyFrames

-----------------------------------------------------------------------------
(* RepeatFallback.                                                         *)

(* The output is level with the input exactly when there is no new frame,  *)
(* and one frame behind when there is.                                     *)
OneBehindWhenReady ==
  /\ hasFrame => lastBuffer > 0 /\ shown = lastBuffer - 1
  /\ ~hasFrame => shown = lastBuffer

RepeatInv == R!TypeOK /\ OneBehindWhenReady

LEMMA RepeatInit == R!Init => RepeatInv
<1> SUFFICES ASSUME R!Init PROVE RepeatInv
  OBVIOUS
<1>1. Timeout \in Nat /\ RepeatFrames \in Nat
  BY RoutingAssumption DEF R!RepeatAssumption
<1>2. R!TypeOK
  <2>1. hasFrame \in BOOLEAN /\ outBusy \in BOOLEAN
    BY DEF R!Init
  <2>2. QED
    BY <1>1, <2>1 DEF R!Init, R!TypeOK
<1>3. OneBehindWhenReady
  BY DEF R!Init, OneBehindWhenReady
<1>4. QED
  BY <1>2, <1>3 DEF RepeatInv

LEMMA RepeatNext == RepeatInv /\ [R!Next]_(R!vars) => RepeatInv'
<1> SUFFICES ASSUME RepeatInv, [R!Next]_(R!vars)
             PROVE  RepeatInv'
  OBVIOUS
<1>1. Timeout \in Nat /\ RepeatFrames \in Nat
  BY RoutingAssumption DEF R!RepeatAssumption
<1>2. R!TypeOK /\ OneBehindWhenReady
  BY DEF RepeatInv
<1>3. CASE R!InputChain
  <2>1. CASE R!Receive
    BY <1>1, <1>2, <1>3, <2>1
    DEF R!InputChain, R!Receive, R!TypeOK, OneBehindWhenReady, RepeatInv
  <2>2. CASE UNCHANGED <<lastBuffer, hasFrame, age>>
    BY <1>2, <1>3, <2>2 DEF R!InputChain, R!TypeOK, OneBehindWhenReady, RepeatInv
  <2>3. QED
    BY <1>3, <2>1, <2>2 DEF R!InputChain
<1>4. CASE R!OutputChain
  <2>1. CASE R!Send
    <3>1. hasFrame' \in BOOLEAN /\ outBusy' \in BOOLEAN
      BY <1>2, <2>1 DEF R!Send, R!TypeOK
    <3>2. ~hasFrame'
      BY <2>1 DEF R!Send
    <3>3. shown' = lastBuffer
      <4>1. lastBuffer = 0 => shown = 0
        BY <1>2 DEF R!TypeOK, OneBehindWhenReady
      <4>2. CASE lastBuffer = 0
        BY <2>1, <4>1, <4>2 DEF R!Send
      <4>3. CASE lastBuffer # 0
        BY <2>1, <4>3 DEF R!Send
      <4>4. QED
        BY <4>2, <4>3
    <3>4. sinceShown' \in 0 .. Timeout
      BY <1>1, <1>2, <2>1 DEF R!Send, R!TypeOK
    <3>5. QED
      BY <1>2, <1>4, <3>1, <3>2, <3>3, <3>4
      DEF R!OutputChain, R!TypeOK, OneBehindWhenReady, RepeatInv
  <2>2. CASE UNCHANGED <<hasFrame, outBusy, shown, sinceShown>>
    BY <1>2, <1>4, <2>2 DEF R!OutputChain, R!TypeOK, OneBehindWhenReady, RepeatInv
  <2>3. QED
    BY <1>4, <2>1, <2>2 DEF R!OutputChain
<1>5. CASE R!Sleep
  <2>1. outBusy' \in BOOLEAN
    BY <1>2, <1>5 DEF R!Sleep, R!TypeOK
  <2>2. age' \in 0 .. Timeout /\ sinceShown' \in 0 .. Timeout
    BY <1>1, <1>2, <1>5 DEF R!Sleep, R!Older, R!TypeOK
  <2>3. QED
    BY <1>2, <1>5, <2>1, <2>2 DEF R!Sleep, R!TypeOK, OneBehindWhenReady, RepeatInv
<1>6. CASE UNCHANGED R!vars
  BY <1>2, <1>6 DEF R!vars, R!TypeOK, OneBehindWhenReady, RepeatInv
<1>7. QED
  BY <1>3, <1>4, <1>5, <1>6 DEF R!Next

LEMMA RepeatWaits ==
  ASSUME RepeatInv, [R!Next]_(R!vars)
  PROVE  [lastBuffer' # lastBuffer => shown = lastBuffer]_(R!vars)
<1>1. ASSUME lastBuffer' # lastBuffer
      PROVE  R!Receive
  BY <1>1 DEF R!Next, R!InputChain, R!OutputChain, R!Sleep, R!vars
<1>2. QED
  BY <1>1 DEF RepeatInv, R!TypeOK, OneBehindWhenReady, R!Receive

LEMMA RepeatIsLate ==
  ASSUME RepeatInv, R!Send, shown = lastBuffer, lastBuffer # 0
  PROVE  age >= Timeout
BY DEF RepeatInv, OneBehindWhenReady, R!TypeOK, R!Send, R!SourceReady

-----------------------------------------------------------------------------
(* Switch.                                                                 *)

(* Once something was chosen, the active receiver is the one named last.   *)
ActiveIsDue == due # S!None => active = S!SetReceiver(due)

SwitchInv == S!TypeOK /\ ActiveIsDue

LEMMA SwitchInit == S!Init => SwitchInv
<1> SUFFICES ASSUME S!Init PROVE SwitchInv
  OBVIOUS
<1>1. N \in Nat /\ N > 0 /\ SwitchTimeout \in Nat
  BY RoutingAssumption DEF S!SwitchAssumption
<1>2. S!TypeOK
  <2>1. full \in BOOLEAN /\ switchBusy \in BOOLEAN
    BY DEF S!Init
  <2>2. signal \in [S!Inputs -> 0 .. SwitchTimeout + 1]
    BY DEF S!Init
  <2>3. QED
    BY <1>1, <2>1, <2>2 DEF S!Init, S!TypeOK, S!Inputs, S!None
<1>3. QED
  BY <1>2 DEF S!Init, SwitchInv, ActiveIsDue

(* What a choice does to the receivers.                                    *)
LEMMA ChoiceIsDue ==
  ASSUME S!TypeOK, ActiveIsDue, S!CheckSwitchFunc, kind' = kind
  PROVE  /\ active' \in [S!Inputs -> BOOLEAN]
         /\ due' \in S!Inputs \cup {S!None} \cup (IF kind' = "fallback" THEN {} ELSE {N})
         /\ ActiveIsDue'
<1>1. N \in Nat /\ N > 0
  BY RoutingAssumption DEF S!SwitchAssumption
<1>2. CASE kind = "set"
  BY <1>2 DEF S!CheckSwitchFunc, S!TypeOK, ActiveIsDue, S!SetReceiver
<1>3. CASE kind # "set"
  <2>1. active' = S!SetReceiver(S!Chosen) /\ due' = S!Chosen
    BY <1>3 DEF S!CheckSwitchFunc
  <2>2. S!Chosen \in S!Inputs \cup (IF kind = "fallback" THEN {} ELSE {N})
    BY <1>1, <1>3 DEF S!Chosen, S!FallbackFunc, S!TypeOK, S!Inputs
  <2>3. QED
    BY <2>1, <2>2 DEF S!SetReceiver, ActiveIsDue
<1>4. QED
  BY <1>2, <1>3

LEMMA SwitchNext == SwitchInv /\ [S!Next]_(S!vars) => SwitchInv'
<1> SUFFICES ASSUME SwitchInv, [S!Next]_(S!vars)
             PROVE  SwitchInv'
  OBVIOUS
<1>1. N \in Nat /\ N > 0 /\ SwitchTimeout \in Nat
  BY RoutingAssumption DEF S!SwitchAssumption
<1>2. CASE S!InputChain
  <2>1. PICK i \in S!Inputs :
          /\ next = i /\ next' = i + 1
          /\ signal' = IF i \in live THEN [signal EXCEPT ![i] = 0] ELSE signal
          /\ (full' = TRUE /\ from' = i) \/ UNCHANGED <<full, from>>
          /\ UNCHANGED <<kind, wanted, active, live, switchBusy, onStage, due>>
    BY <1>2 DEF S!InputChain
  <2>2. full' \in BOOLEAN
    BY <2>1 DEF SwitchInv, S!TypeOK
  <2>3. from' \in S!Inputs \cup {S!None}
    BY <2>1 DEF SwitchInv, S!TypeOK
  <2>4. next' \in 0 .. N + 1
    BY <1>1, <2>1 DEF S!Inputs
  <2>5. signal' \in [S!Inputs -> 0 .. SwitchTimeout + 1]
    BY <1>1, <2>1 DEF SwitchInv, S!TypeOK
  <2>6. QED
    BY <2>1, <2>2, <2>3, <2>4, <2>5
    DEF SwitchInv, S!TypeOK, ActiveIsDue, S!SetReceiver
<1>3. CASE S!OutputChain
  <2>1. turn = turn /\ next' \in 0 .. N + 1 /\ kind' = kind
    BY <1>1, <1>3 DEF S!OutputChain
  <2>2. CASE S!Deliver
    BY <1>3, <2>1, <2>2, ChoiceIsDue DEF S!OutputChain, S!Deliver, SwitchInv, S!TypeOK
  <2>3. CASE ~S!Deliver
    BY <1>3, <2>1, <2>3 DEF S!OutputChain, SwitchInv, S!TypeOK, ActiveIsDue, S!SetReceiver
  <2>4. QED
    BY <2>2, <2>3
<1>4. CASE S!Sleep
  <2>1. wanted' \in S!Inputs \cup {N}
    BY <1>4 DEF S!Sleep, SwitchInv, S!TypeOK
  <2>2. signal' \in [S!Inputs -> 0 .. SwitchTimeout + 1]
    BY <1>1, <1>4 DEF S!Sleep, SwitchInv, S!TypeOK
  <2>3. switchBusy' \in BOOLEAN /\ live' \subseteq S!Inputs /\ next' \in 0 .. N + 1
    <3>1. switchBusy' \in BOOLEAN
      BY <1>4 DEF S!Sleep, SwitchInv, S!TypeOK
    <3>2. QED
      BY <1>1, <1>4, <3>1 DEF S!Sleep
  <2>4. QED
    BY <1>4, <2>1, <2>2, <2>3
    DEF S!Sleep, SwitchInv, S!TypeOK, ActiveIsDue, S!SetReceiver
<1>5. CASE S!CallSetReceiver
  BY <1>5 DEF S!CallSetReceiver, SwitchInv, S!TypeOK, ActiveIsDue, S!SetReceiver
<1>6. CASE UNCHANGED S!vars
  BY <1>6 DEF S!vars, SwitchInv, S!TypeOK, ActiveIsDue, S!SetReceiver
<1>7. QED
  BY <1>2, <1>3, <1>4, <1>5, <1>6 DEF S!Next, S!Loop

LEMMA SwitchObeys ==
  ASSUME SwitchInv, [S!Next]_(S!vars), ~full, full', due # S!None
  PROVE  from' = due
<1>1. S!InputChain
  BY DEF S!Next, S!Loop, S!OutputChain, S!Deliver, S!Sleep, S!CallSetReceiver, S!vars
<1>2. PICK i \in S!Inputs : active[i] /\ from' = i
  BY <1>1 DEF S!InputChain
<1>3. QED
  BY <1>2 DEF SwitchInv, ActiveIsDue, S!SetReceiver

-----------------------------------------------------------------------------
(* The program.                                                            *)

SlicerStep  == [Next]_vars
CombineStep == [C!Next]_(C!vars)
RepeatStep  == [R!Next]_(R!vars)
SwitchStep  == [S!Next]_(S!vars)

(* A step of the program is a step of one element and leaves the others    *)
(* alone.                                                                  *)
LEMMA StepOfEach ==
  [RoutingNext]_routingVars => SlicerStep /\ CombineStep /\ RepeatStep /\ SwitchStep
BY DEF RoutingNext, routingVars, InSlicer, InCombine, InRepeat, InSwitch,
       slicerVars, combineVars, repeatVars, switchVars, vars, C!vars, R!vars, S!vars,
       SlicerStep, CombineStep, RepeatStep, SwitchStep

AllInv == SlicerInv /\ CombineInv /\ RepeatInv /\ SwitchInv

LEMMA AllInit == RoutingInit => AllInv
BY SlicerInit, CombineInit, RepeatInit, SwitchInit, RoutingAssumption DEF RoutingInit, AllInv

LEMMA AllNext == AllInv /\ [RoutingNext]_routingVars => AllInv'
BY StepOfEach, SlicerNext, CombineNext, RepeatNext, SwitchNext
DEF AllInv, SlicerStep, CombineStep, RepeatStep, SwitchStep

LEMMA AllInvariant == RoutingSpec => []AllInv
BY AllInit, AllNext, PTL DEF RoutingSpec

(* The types of all elements; slices ready exactly when behind; nothing    *)
(* old comes back in a combined buffer.                                    *)
THEOREM RoutingIsSafe == RoutingSpec => []RoutingInv
<1>1. AllInv => RoutingInv
  BY DEF AllInv, SlicerInv, CombineInv, RepeatInv, SwitchInv, RoutingInv
<1>2. QED
  BY <1>1, AllInvariant, PTL

(* In every program the slices do what FrameDelivery promises.             *)
THEOREM RoutingDelivers == RoutingSpec => DeliverySpec
<1>1. RoutingInit => Delivery!Init
  BY DeliveryInit DEF RoutingInit
<1>2. AllInv /\ [RoutingNext]_routingVars => [Delivery!Next]_(Delivery!vars)
  BY StepOfEach, DeliveryStep DEF AllInv, SlicerStep, Delivery!vars
<1>3. QED
  BY <1>1, <1>2, AllInvariant, PTL DEF RoutingSpec, DeliverySpec, Delivery!Spec

(* Every combined frame takes exactly one new frame of each part with      *)
(* sync, the newest one while no size changes.                             *)
THEOREM RoutingCombines == RoutingSpec => OneFrameEach
<1>1. ASSUME CombineInv, CombineStep
      PROVE  /\ [used' # used => \A p \in PartsSync : used'[p] = used[p] + 1]_(C!vars)
             /\ [used' # used /\ ~resized => \A p \in PartsSync : emitted'[p] = sent[p]]_(C!vars)
  BY <1>1, TakesOneEach, TakesNewest DEF CombineStep
<1>2. ASSUME AllInv, [RoutingNext]_routingVars
      PROVE  /\ [used' # used => \A p \in PartsSync : used'[p] = used[p] + 1]_(C!vars)
             /\ [used' # used /\ ~resized => \A p \in PartsSync : emitted'[p] = sent[p]]_(C!vars)
  BY <1>1, <1>2, StepOfEach DEF AllInv
<1>3. QED
  BY <1>2, AllInvariant, PTL DEF RoutingSpec, OneFrameEach, C!OneFrameEach, C!SteadyFrames

(* A frame that was accepted reaches the output of RepeatFallback before   *)
(* the next one is accepted, and is not repeated before the timeout.       *)
THEOREM RepeatLosesNothing == RoutingSpec => NoFrameLost
<1>1. ASSUME AllInv, [RoutingNext]_routingVars
      PROVE  /\ [lastBuffer' # lastBuffer => shown = lastBuffer]_(R!vars)
             /\ [R!Send /\ shown = lastBuffer /\ lastBuffer # 0 => age >= Timeout]_(R!vars)
  BY <1>1, StepOfEach, RepeatWaits, RepeatIsLate DEF AllInv, RepeatStep
<1>2. QED
  BY <1>1, AllInvariant, PTL DEF RoutingSpec, NoFrameLost, R!NoFrameLost, R!NoEarlyRepeat

(* With any number of inputs, and whoever chooses, a switch accepts frames *)
(* of the receiver that was named last only.                               *)
THEOREM SwitchIsObeyed == RoutingSpec => OnlyTheChosenSpeaks
<1>1. ASSUME AllInv, [RoutingNext]_routingVars
      PROVE  [~full /\ full' /\ due # S!None => from' = due]_(S!vars)
  BY <1>1, StepOfEach, SwitchObeys DEF AllInv, SwitchStep
<1>2. QED
  BY <1>1, AllInvariant, PTL DEF RoutingSpec, OnlyTheChosenSpeaks, S!OnlyTheChosenSpeaks

=============================================================================
