------------------------------- MODULE Fades --------------------------------
(***************************************************************************)
(* How patterns come and go: a Transition fades a pattern in and out, each *)
(* pixel with a delay of its own, and a TriggerFade falls from full to     *)
(* dark whenever the pattern is switched on or a beat comes.  Both measure *)
(* time since a start, in millis() that wrap, as a signed number.          *)
(* A brightness is in ms of the fade; the eases do not change what is dark *)
(* and what is full.                                                       *)
(***************************************************************************)
EXTENDS Integers

CONSTANTS
  Width,        (* millis() counts modulo this, 2^32 on the hardware       *)
  FadeIn, FadeOut, Trigger,     (* durations in ms                         *)
  InDelay, OutDelay, MaxDelay,  (* the largest delays                      *)
  BeatNumbers,
  MaxStep       (* ms between two frames, at most                          *)

FadesAssumption ==
  /\ {FadeIn, FadeOut, Trigger} \subseteq Nat \ {0}
  /\ {InDelay, OutDelay, MaxDelay} \subseteq Nat
  /\ Width \in Nat \ {0}
  /\ MaxStep \in Nat /\ MaxStep < Width \div 2
  /\ OutDelay < Width \div 2    (* it is an int, the clock is unsigned     *)

VARIABLES
  millis,
  fadein, fadeout, lastActive,  (* the Transition                          *)
  calculates,                   (* what its Calculate returned             *)
  start, lastPatternActive, lastValue,  (* the TriggerFade and its watcher *)
  fading,                       (* what isActive returned                  *)
  beat,
  steady,       (* history: ms since the pattern was switched              *)
  since         (* history: ms since it was switched on or a beat came     *)

vars == <<millis, fadein, fadeout, lastActive, calculates, start, lastPatternActive,
          lastValue, fading, beat, steady, since>>

Clock == 0 .. Width - 1

TypeOK ==
  /\ {millis, fadein, fadeout, start} \subseteq Clock
  /\ {lastActive, calculates, lastPatternActive, fading} \subseteq BOOLEAN
  /\ {lastValue, beat} \subseteq BeatNumbers
  /\ {steady, since} \subseteq 0 .. Width

(* The watcher of the beat is not initialised.                             *)
Init ==
  /\ millis = 0 /\ fadein = 0 /\ fadeout = 0 /\ start = 0
  /\ lastActive = FALSE /\ calculates = TRUE
  /\ lastPatternActive = FALSE /\ fading = TRUE
  /\ lastValue \in BeatNumbers /\ beat \in BeatNumbers
  /\ steady = 0 /\ since = 0

-----------------------------------------------------------------------------

(* What is left of an unsigned difference when it becomes an int.          *)
Signed(ms) == IF ms % Width < Width \div 2 THEN ms % Width ELSE (ms % Width) - Width

(* getPhase, with the phase of a fade that waits for its delay.            *)
Phase(now, from, delay, duration, waiting) ==
  LET phase == Signed(now - from - delay) IN
  IF phase < 0 THEN waiting ELSE IF phase > duration THEN duration ELSE phase

In(now, from, delay)    == Phase(now, from, delay, FadeIn, 0)
Out(now, from, delay)   == FadeOut - Phase(now, from, delay, FadeOut, 0)
Flash(now, from, delay) == Trigger - Phase(now, from, delay, Trigger, Trigger)

(* Calculate asks for the pixel that is the last to get dark.              *)
LastPixel == OutDelay

(* getValue: a pixel of the Transition that waits i ms to come, o to go.   *)
Brightness(i, o) ==
  In(millis, fadein, i) * (IF lastActive THEN FadeOut ELSE Out(millis, fadeout, o))

(* isFinished of a fade that was started at `from`.                        *)
IsFinished(now, from) == (now - from) % Width > Trigger + MaxDelay

Capped(ms) == IF ms > Width THEN Width ELSE ms

(* One frame, d ms after the one before, of a pattern that is active or    *)
(* not, at beat b.                                                         *)
Frame(d, active, b) ==
  LET now     == (millis + d) % Width
      rising  == active /\ ~lastPatternActive
      changed == active /\ b # lastValue
  IN  /\ millis' = now /\ beat' = b
      /\ fadein' = IF active /\ ~lastActive THEN now ELSE fadein
      /\ fadeout' = IF ~active /\ lastActive THEN now ELSE fadeout
      /\ lastActive' = active
      /\ calculates' = (active \/ Out(now, fadeout', LastPixel) > 0)
      /\ start' = IF rising \/ changed THEN now ELSE start
      /\ lastValue' = IF active THEN b ELSE lastValue
      /\ lastPatternActive' = active
      /\ fading' = ~IsFinished(now, start')
      /\ steady' = IF active # lastActive THEN 0 ELSE Capped(steady + d)
      /\ since' = IF active /\ (~lastActive \/ b # beat) THEN 0 ELSE Capped(since + d)

Next == \E d \in 0 .. MaxStep, active \in BOOLEAN, b \in BeatNumbers : Frame(d, active, b)

Spec == Init /\ [][Next]_vars

-----------------------------------------------------------------------------
(* Properties.  They hold until the phases get negative, 24 days after the *)
(* pattern was switched.                                                   *)

(* "Let the pattern know if getValue is going to return anything other     *)
(* than 0, if not, the pattern can early exit": a pattern that exits is    *)
(* dark in every pixel; and one that was switched on or off long enough    *)
(* ago for the last pixel is full, or exits.                               *)
ExitsWhenDark ==
  steady < Width \div 2 =>
    /\ ~calculates => \A i \in 0 .. InDelay, o \in 0 .. OutDelay : Brightness(i, o) = 0
    /\ ~lastActive /\ steady >= FadeOut + OutDelay => ~calculates
    /\ lastActive /\ steady >= FadeIn + InDelay =>
         \A i \in 0 .. InDelay : Brightness(i, 0) = FadeIn * FadeOut

(* Every beat that comes while the pattern is active starts the fade anew, *)
(* though the watcher sleeps while it is not, and starts uninitialised;    *)
(* when the fade says that it is finished, no pixel is lit.                *)
EveryBeatFades ==
  since < Width =>
    /\ (millis - start) % Width = since
    /\ ~fading => \A delay \in 0 .. MaxDelay : Flash(millis, start, delay) = 0

=============================================================================
