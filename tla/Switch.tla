------------------------------- MODULE Switch -------------------------------
(***************************************************************************)
(* A Switch and a Fallback between several input chains and one output     *)
(* chain.  A round of the run loop gives each chain one turn and sleeps    *)
(* for one unit of time.  Frames are known by the input they come from.    *)
(***************************************************************************)
EXTENDS Integers

CONSTANTS
  N,            (* number of inputs                                        *)
  Timeout       (* of the fallback, in rounds of the loop                  *)

SwitchAssumption == N \in Nat \ {0} /\ Timeout \in Nat

Inputs == 0 .. N - 1
None == -1

VARIABLES
  kind,         (* how the receiver is chosen: switchFunc, setReceiver or  *)
                (* the function of Fallback                                *)
  wanted,       (* what switchFunc would answer now                        *)
  turn,         (* the chain whose turn it is; N the output, N+1 sleep     *)
  active, dirty,
  from,         (* the input whose frame is in buffer                      *)
  age,          (* per input millis() - lastSignal, at most Timeout + 1    *)
  live,         (* the inputs that have a frame at each turn               *)
  outBusy,      (* the output is not ready                                 *)
  shown,        (* the input of the last frame the output was given        *)
  due           (* history: what the last choice was, None before          *)

vars == <<kind, wanted, turn, active, dirty, from, age, live, outBusy, shown, due>>

TypeOK ==
  /\ kind \in {"func", "set", "fallback"}
  /\ wanted \in Inputs \cup {N} /\ turn \in 0 .. N + 1
  /\ active \in [Inputs -> BOOLEAN] /\ dirty \in BOOLEAN
  /\ from \in Inputs \cup {None} /\ shown \in Inputs \cup {None}
  /\ age \in [Inputs -> 0 .. Timeout + 1]
  /\ live \subseteq Inputs /\ outBusy \in BOOLEAN
  /\ due \in Inputs \cup {None} \cup (IF kind = "fallback" THEN {} ELSE {N})

(* SwitchReceiver::active is not initialised; lastSignal is 0 for all.     *)
Init ==
  /\ kind \in {"func", "set", "fallback"}
  /\ wanted \in Inputs
  /\ turn = 0
  /\ active \in [Inputs -> BOOLEAN]
  /\ dirty = FALSE /\ from = None
  /\ \E t \in 0 .. Timeout + 1 : age = [i \in Inputs |-> t]
  /\ live \in SUBSET Inputs
  /\ outBusy = FALSE /\ shown = None /\ due = None

(* Wrong on purpose: forgets to deactivate the others.                     *)
OnlyActivates(r) == [i \in Inputs |-> active[i] \/ i = r]

ReceiverReady(i) == ~dirty

(* setReceiver: an index out of bounds deactivates every receiver.         *)
SetReceiver(r) == [i \in Inputs |-> i = r]

(* The chain of input i: its source is asked first, then the receiver,     *)
(* which notes the time even when it is not ready.                         *)
InputChain ==
  \E i \in Inputs :
    /\ turn = i
    /\ turn' = i + 1
    /\ age' = IF i \in live THEN [age EXCEPT ![i] = 0] ELSE age
    /\ IF i \in live /\ ReceiverReady(i) /\ active[i]
       THEN dirty' = TRUE /\ from' = i
       ELSE UNCHANGED <<dirty, from>>
    /\ UNCHANGED <<kind, wanted, active, live, outBusy, shown, due>>

(* The function of Fallback: index is never counted up.                    *)
FallbackFunc == IF \E i \in Inputs : age[i] > Timeout THEN 0 ELSE N - 1

Chosen == IF kind = "func" THEN wanted ELSE FallbackFunc

CheckSwitchFunc ==
  IF kind = "set"
  THEN UNCHANGED <<active, due>>
  ELSE active' = SetReceiver(Chosen) /\ due' = Chosen

(* Switch::process.                                                        *)
Deliver ==
  /\ turn = N /\ dirty /\ ~outBusy
  /\ CheckSwitchFunc
  /\ dirty' = FALSE
  /\ shown' = from
  /\ outBusy' = TRUE

OutputChain ==
  /\ turn = N
  /\ turn' = N + 1
  /\ Deliver \/ (~(dirty /\ ~outBusy) /\ UNCHANGED <<active, due, dirty, shown, outBusy>>)
  /\ UNCHANGED <<kind, wanted, from, age, live>>

(* Meanwhile inputs stop and come back, the output gets ready and the      *)
(* program changes its mind, possibly to a receiver that does not exist.   *)
Sleep ==
  /\ turn = N + 1
  /\ turn' = 0
  /\ age' = [i \in Inputs |-> IF age[i] > Timeout THEN age[i] ELSE age[i] + 1]
  /\ live' \in SUBSET Inputs
  /\ outBusy' \in {FALSE, outBusy}
  /\ wanted' \in IF kind = "func" THEN Inputs \cup {N} ELSE {wanted}
  /\ UNCHANGED <<kind, active, dirty, from, shown, due>>

(* Code of the program calls setReceiver, between two turns.               *)
CallSetReceiver ==
  /\ kind = "set"
  /\ \E r \in Inputs \cup {N} : active' = SetReceiver(r) /\ due' = r
  /\ UNCHANGED <<kind, wanted, turn, dirty, from, age, live, outBusy, shown>>

Loop == InputChain \/ OutputChain \/ Sleep
Next == Loop \/ CallSetReceiver

Spec == Init /\ [][Next]_vars

(* The loop runs for ever, and an output comes back again and again.       *)
FairSpec == Spec /\ WF_vars(Loop) /\ SF_vars(Sleep /\ ~outBusy')

-----------------------------------------------------------------------------
(* Properties.                                                             *)

(* The switch is one frame late and no more: whoever made the last choice, *)
(* every frame accepted since comes from the receiver it named.            *)
OnlyTheChosenSpeaks ==
  [][~dirty /\ dirty' /\ due # None => from' = due]_vars

(* A fallback that ever sent sends again when its inputs are all back: its *)
(* choice never ends on a receiver that does not exist.                    *)
RecoversWithItsInputs ==
  <>(kind = "fallback" /\ due # None) /\ <>[](live = Inputs)
    => []<><<Deliver>>_vars

=============================================================================
