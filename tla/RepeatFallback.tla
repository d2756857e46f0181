--------------------------- MODULE RepeatFallback ---------------------------
(***************************************************************************)
(* RepeatFallback between an input chain and an output chain.  A round of  *)
(* the run loop gives each chain one turn, then sleeps for one unit of     *)
(* time.  Ages are millis() differences, capped where nothing compares     *)
(* them any further.                                                       *)
(***************************************************************************)
EXTENDS Integers

CONSTANTS
  Timeout,      (* fallbackTimeout, in rounds of the loop                  *)
  MaxFrames     (* bound on the frames of the input                        *)

RepeatAssumption == Timeout \in Nat \ {0} /\ MaxFrames \in Nat

VARIABLES
  turn,         (* "input", "output" or "sleep"                            *)
  lastBuffer,   (* number of the frame in lastBuffer, 0 for none           *)
  frameReady,
  age,          (* millis() - lastFrameTime, at most Timeout               *)
  outBusy,      (* the output is not ready                                 *)
  shown,        (* the last frame the output was given                     *)
  sinceShown    (* time since then, at most Timeout                        *)

vars == <<turn, lastBuffer, frameReady, age, outBusy, shown, sinceShown>>

TypeOK ==
  /\ turn \in {"input", "output", "sleep"}
  /\ lastBuffer \in 0 .. MaxFrames
  /\ frameReady \in BOOLEAN
  /\ age \in 0 .. Timeout
  /\ outBusy \in BOOLEAN
  /\ shown \in 0 .. MaxFrames
  /\ sinceShown \in 0 .. Timeout

(* lastFrameTime is 0, so the age is the time since boot.                  *)
Init ==
  /\ turn = "input"
  /\ lastBuffer = 0
  /\ frameReady = FALSE
  /\ age \in 0 .. Timeout
  /\ outBusy = FALSE
  /\ shown = 0
  /\ sinceShown = Timeout

ReceiveAnyway ==
  /\ lastBuffer < MaxFrames
  /\ lastBuffer' = lastBuffer + 1
  /\ frameReady' = TRUE
  /\ age' = 0

(* Sink::ready, and the input has a frame: Sink::process.                  *)
Receive ==
  /\ ~frameReady
  /\ lastBuffer < MaxFrames
  /\ lastBuffer' = lastBuffer + 1
  /\ frameReady' = TRUE
  /\ age' = 0

InputChain ==
  /\ turn = "input"
  /\ turn' = "output"
  /\ Receive \/ UNCHANGED <<lastBuffer, frameReady, age>>
  /\ UNCHANGED <<outBusy, shown, sinceShown>>

(* Wrong on purpose: never repeats.                                       *)
NeverRepeats == frameReady

(* Source::ready.                                                          *)
SourceReady == frameReady \/ age >= Timeout

(* Source::process; the chain drops the empty buffer of the start.         *)
Send ==
  /\ SourceReady /\ ~outBusy
  /\ frameReady' = FALSE
  /\ IF lastBuffer = 0
     THEN UNCHANGED <<outBusy, shown, sinceShown>>
     ELSE shown' = lastBuffer /\ sinceShown' = 0 /\ outBusy' = TRUE

OutputChain ==
  /\ turn = "output"
  /\ turn' = "sleep"
  /\ \/ Send
     \/ ~(SourceReady /\ ~outBusy) /\ UNCHANGED <<frameReady, outBusy, shown, sinceShown>>
  /\ UNCHANGED <<lastBuffer, age>>

Older(t) == IF t < Timeout THEN t + 1 ELSE t

(* The loop sleeps; an output may have become ready again meanwhile.       *)
Sleep ==
  /\ turn = "sleep"
  /\ turn' = "input"
  /\ age' = Older(age)
  /\ sinceShown' = Older(sinceShown)
  /\ outBusy' \in {FALSE, outBusy}
  /\ UNCHANGED <<lastBuffer, frameReady, shown>>

Next == InputChain \/ OutputChain \/ Sleep

Spec == Init /\ [][Next]_vars

(* The loop runs for ever, and an output comes back again and again.       *)
FairSpec == Spec /\ WF_vars(Next) /\ SF_vars(Sleep /\ ~outBusy')

-----------------------------------------------------------------------------
(* Properties.                                                             *)

(* The input chain waits for the output chain: a frame that was accepted   *)
(* reaches the output before the next one is accepted.                     *)
NoFrameLost ==
  [][lastBuffer' # lastBuffer => shown = lastBuffer]_vars

(* As long as frames keep coming within the timeout nothing is repeated:   *)
(* every new frame is sent once.                                           *)
NoEarlyRepeat ==
  [][Send /\ shown = lastBuffer /\ lastBuffer # 0 => age >= Timeout]_vars

(* "Keep the lights on in case of a problem": after the first frame the    *)
(* output is refreshed for ever, whether the input goes on or not.         *)
LightsStayOn ==
  (shown # 0) ~> []<>(sinceShown = 0 /\ turn = "sleep")

=============================================================================
