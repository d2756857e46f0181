------------------------------- MODULE Timeline -------------------------------
(***************************************************************************)
(* The timelines of the patterns: a position in ms that starts over after  *)
(* `duration`, and the moments that lie between the positions of the last  *)
(* two frames.  millis() and the positions are unsigned and wrap.          *)
(***************************************************************************)
EXTENDS Integers

CONSTANTS
  Width,        (* millis() counts modulo this, 2^32 on the hardware       *)
  Durations,    (* repeatAfter, 0 for a timeline that does not repeat      *)
  MaxStep,      (* ms between two frames, at most                          *)
  Resets,       (* the pattern resets its timeline while it is not active  *)
  Changes       (* the duration is changed                                 *)

TimelineAssumption ==
  /\ Width \in Nat \ {0} /\ Durations \subseteq 0 .. Width
  /\ MaxStep \in 1 .. Width - 1 /\ {Resets, Changes} \subseteq BOOLEAN

VARIABLES
  millis, startingpoint, duration, startInterval, endInterval,
  passed,       (* history: positions since the last FrameStart            *)
  frame,        (* history: those of the frame that is being calculated    *)
  whole, calm   (* history: one loop that fits since the last FrameStart,  *)
                (* between the last two                                    *)

history == <<passed, frame, whole, calm>>
vars == <<millis, startingpoint, duration, startInterval, endInterval, history>>

Clock == 0 .. Width - 1

TypeOK ==
  /\ {millis, startingpoint, startInterval, endInterval} \subseteq Clock
  /\ duration \in Durations
  /\ passed \subseteq Clock /\ frame \subseteq Clock
  /\ calm /\ duration > 0 => endInterval < duration
  /\ {whole, calm} \subseteq BOOLEAN

Loop(t, d) == IF d > 0 THEN t % d ELSE t

(* GetTimelinePosition, at time t.                                         *)
Position(t) == Loop((t - startingpoint) % Width, duration)

(* Wrong on purpose: the end of a frame counts in two frames.              *)
HappenedTwice(m) ==
  /\ startInterval # endInterval
  /\ IF startInterval < endInterval
     THEN startInterval <= m /\ m <= endInterval
     ELSE startInterval <= m \/ m <= endInterval

Happened(m) ==
  /\ startInterval # endInterval
  /\ IF startInterval < endInterval
     THEN startInterval <= m /\ m < endInterval
     ELSE startInterval <= m \/ m < endInterval

GetDelta == (endInterval - startInterval) % Width

Init ==
  /\ millis \in Clock /\ startingpoint = millis
  /\ duration \in Durations
  /\ startInterval = 0 /\ endInterval = 0
  /\ passed = {} /\ frame = {} /\ whole = TRUE /\ calm = TRUE

-----------------------------------------------------------------------------

(* d ms that do not go through the whole loop at once, nor through the end *)
(* of the clock, where a loop breaks off unless it divides the clock.      *)
Fits(d) ==
  duration > 0 =>
    /\ d < duration
    /\ Width % duration = 0 \/ ((millis - startingpoint) % Width) + d < Width

(* Time between frames, in which reset may be called.                      *)
Pass ==
  /\ passed = {}
  /\ \E d \in 1 .. MaxStep :
       /\ millis' = (millis + d) % Width
       /\ passed' = {Position((millis + k) % Width) : k \in 0 .. d - 1}
       /\ whole' = (whole /\ Fits(d))
  /\ UNCHANGED <<startingpoint, duration, startInterval, endInterval, frame, calm>>

NewStart == endInterval

FrameStart ==
  /\ startInterval' = NewStart
  /\ endInterval' = Position(millis)
  /\ frame' = passed /\ passed' = {}
  /\ calm' = whole /\ whole' = TRUE
  /\ UNCHANGED <<millis, startingpoint, duration>>

Reset ==
  /\ Resets
  /\ startingpoint' = millis
  /\ whole' = FALSE /\ calm' = FALSE
  /\ UNCHANGED <<millis, duration, startInterval, endInterval, passed, frame>>

(* The phase is a position in ms, which is multiplied by the duration.     *)
SetDuration(d) ==
  /\ Changes /\ d # duration
  /\ startingpoint' = (millis - Position(millis) * d) % Width
  /\ duration' = d
  /\ whole' = FALSE /\ calm' = FALSE
  /\ UNCHANGED <<millis, startInterval, endInterval, passed, frame>>

Next == Pass \/ FrameStart \/ Reset \/ \E d \in Durations : SetDuration(d)

Spec == Init /\ [][Next]_vars

(* The pattern is active: time passes and every frame starts.              *)
FairSpec == Spec /\ WF_vars(Pass) /\ WF_vars(FrameStart)

-----------------------------------------------------------------------------
(* Properties.                                                             *)

(* The moments of a timeline: those of its loop.                            *)
Moments == IF duration > 0 THEN 0 .. duration - 1 ELSE Clock

(* "Returns true if the moment happened within the frame": the moments     *)
(* that happened are the positions that the frame went through, whether it *)
(* looped or not; so none is skipped and none comes twice.                 *)
HappenedInFrame ==
  \A m \in Moments : Happened(m) <=> m \in frame

(* After a reset, another duration, the end of the clock or a frame that   *)
(* is longer than the loop, the second frame is right again.               *)
RightAgain == calm => HappenedInFrame

=============================================================================
