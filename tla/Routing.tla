------------------------------ MODULE Routing -------------------------------
(***************************************************************************)
(* The elements that stand between inputs and outputs, side by side: a     *)
(* program uses one of a Slicer, a Combine, a RepeatFallback or a Switch.  *)
(* The others stay as they were created, so that what is said of an        *)
(* element is said of the programs that use it.                            *)
(***************************************************************************)
EXTENDS Slicer

CONSTANTS
  Parts,        (* of the Combine                                          *)
  PartsSync,
  Lengths,
  CombineFrames,
  Timeout,      (* of the RepeatFallback                                   *)
  RepeatFrames,
  N,            (* inputs of the Switch                                    *)
  SwitchTimeout

VARIABLES
  element,      (* the one the program uses                                *)
  length, dirty, region, sent, emitted, used, resized,
  loop, lastBuffer, hasFrame, age, outBusy, shown, sinceShown,
  kind, wanted, next, active, full, from, signal, live, switchBusy, onStage, due

slicerVars == <<turn, sourceReady, buffer, frameReady, busy, out>>
combineVars == <<length, dirty, region, sent, emitted, used, resized>>
repeatVars == <<loop, lastBuffer, hasFrame, age, outBusy, shown, sinceShown>>
switchVars == <<kind, wanted, next, active, full, from, signal, live, switchBusy,
                onStage, due>>
routingVars == <<element, slicerVars, combineVars, repeatVars, switchVars>>

C == INSTANCE Combine WITH Sync <- PartsSync, MaxFrames <- CombineFrames

R == INSTANCE RepeatFallback
       WITH MaxFrames <- RepeatFrames, turn <- loop, frameReady <- hasFrame

S == INSTANCE Switch
       WITH Timeout <- SwitchTimeout, turn <- next, dirty <- full, age <- signal,
            outBusy <- switchBusy, shown <- onStage

ASSUME RoutingAssumption ==
  C!CombineAssumption /\ R!RepeatAssumption /\ S!SwitchAssumption

RoutingInit ==
  /\ element \in {"Slicer", "Combine", "RepeatFallback", "Switch"}
  /\ Init /\ C!Init /\ R!Init /\ S!Init
  /\ element # "RepeatFallback" => age = 0
  /\ element # "Switch" =>
       /\ kind = "set" /\ wanted = 0 /\ live = {}
       /\ \A i \in S!Inputs : ~active[i] /\ signal[i] = 0

-----------------------------------------------------------------------------

(* What a step of one element leaves alone.                                *)
InSlicer == element = "Slicer" /\ UNCHANGED <<element, combineVars, repeatVars, switchVars>>
InCombine == element = "Combine" /\ UNCHANGED <<element, slicerVars, repeatVars, switchVars>>
InRepeat == element = "RepeatFallback" /\ UNCHANGED <<element, slicerVars, combineVars, switchVars>>
InSwitch == element = "Switch" /\ UNCHANGED <<element, slicerVars, combineVars, repeatVars>>

RoutingNext ==
  \/ InSlicer /\ Next
  \/ InCombine /\ C!Next
  \/ InRepeat /\ R!Next
  \/ InSwitch /\ S!Next

(* The run loop of the program and its outputs, as in the specifications   *)
(* of the elements; a Combine needs no fairness.                           *)
LoopRuns ==
  \/ InSlicer /\ RunLoop
  \/ InRepeat /\ R!Next
  \/ InSwitch /\ S!Loop

OutputComesBack ==
  \/ InRepeat /\ R!Sleep /\ ~outBusy'
  \/ InSwitch /\ S!Sleep /\ ~switchBusy'

RoutingSpec ==
  /\ RoutingInit /\ [][RoutingNext]_routingVars
  /\ WF_routingVars(LoopRuns)
  /\ SF_routingVars(OutputComesBack)
  /\ WF_routingVars(InSlicer /\ SourceArrives)
  /\ \A s \in Sync : WF_routingVars(InSlicer /\ OutputReady(s))

-----------------------------------------------------------------------------
(* Properties, beside those of Slicer.                                     *)

(* The types; a slice has a frame to send exactly when its output is       *)
(* behind; no part of the combined buffer ever holds an older frame than   *)
(* the newest it was sent (a resize blanks it but brings nothing back).    *)
RoutingInv ==
  /\ TypeOK /\ C!TypeOK /\ R!TypeOK /\ S!TypeOK
  /\ ReadyMeansBehind
  /\ C!NewestOrBlank

(* The cycle never ends: every output with sync gets every frame once it   *)
(* gets ready again; and as "If you set one sync to false, that slice is   *)
(* ignored", an output without sync that never gets ready again does not   *)
(* stop the others.                                                        *)
FramesGoOn ==
  /\ SyncGetsEveryFrame
  /\ \A n \in 0 .. MaxFrames - 1 :
       (element = "Slicer" /\ buffer = n) ~> (buffer = n + 1)

(* Every combined frame has one new frame of each part with sync: none is  *)
(* skipped and none shown twice, however the inputs are interleaved ("This *)
(* avoids jitter"); while sizes stay the same it is the newest one.        *)
OneFrameEach == C!OneFrameEach /\ C!SteadyFrames

(* The input chain of RepeatFallback waits for its output chain: a frame   *)
(* that was accepted reaches the output before the next one, and is not    *)
(* repeated before the timeout.                                            *)
NoFrameLost == R!NoFrameLost /\ R!NoEarlyRepeat

(* "Keep the lights on in case of a problem": after the first frame the    *)
(* output of RepeatFallback is refreshed for ever, whether the input goes  *)
(* on or not; and a Fallback that ever sent sends again when its inputs    *)
(* are all back, as its choice never ends on a receiver that is not there. *)
LightsStayOn == R!LightsStayOn /\ S!RecoversWithItsInputs

(* The switch is one frame late and no more: whoever made the last choice, *)
(* every frame accepted since comes from the receiver it named.            *)
OnlyTheChosenSpeaks == S!OnlyTheChosenSpeaks

=============================================================================
