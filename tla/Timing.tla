------------------------------- MODULE Timing -------------------------------
(***************************************************************************)
(* What keeps time: the tempo sources with their broadcast (Tempo), how    *)
(* the players' source counts what it hears (ProDjLink), the timelines of  *)
(* the patterns (Timeline) and their fades (Fades).  They share no state,  *)
(* so that one of them is looked at while the others stay as they were     *)
(* created.                                                                *)
(***************************************************************************)
EXTENDS Tempo

CONSTANTS
  Players, NoMaster, LinkBeats,
  Width, Durations, MaxStep, Resets, Changes,
  FadeIn, FadeOut, Trigger, InDelay, OutDelay, MaxDelay, BeatNumbers, FadeStep

VARIABLES
  part,         (* the one that is looked at                               *)
  master, lastbeat, count, heard,
  millis, startingpoint, duration, startInterval, endInterval, passed, frame,
  whole, calm,
  fadeMillis, fadein, fadeout, lastActive, calculates, start, lastPatternActive,
  lastValue, fading, beat, steady, since

linkVars == <<master, lastbeat, count, heard>>
lineVars == <<millis, startingpoint, duration, startInterval, endInterval, passed, frame,
              whole, calm>>
fadeVars == <<fadeMillis, fadein, fadeout, lastActive, calculates, start, lastPatternActive,
              lastValue, fading, beat, steady, since>>
timingVars == <<part, vars, linkVars, lineVars, fadeVars>>

Link == INSTANCE ProDjLink WITH MaxBeat <- LinkBeats, beatNumber <- count
Line == INSTANCE Timeline
Fade == INSTANCE Fades WITH MaxStep <- FadeStep, millis <- fadeMillis

ASSUME TimingAssumption == 
  Link!ProDjAssumption /\ Line!TimelineAssumption /\ Fade!FadesAssumption

TimingInit ==
  /\ part \in {"tempo", "link", "line", "fade"}
  /\ Init /\ Link!Init /\ Line!Init /\ Fade!Init
  /\ part # "tempo" => order = registered /\ ~tapping /\ ~severalTaps
  /\ part # "line" => millis = 0 /\ duration = 0
  /\ part # "fade" => lastValue = beat /\ beat = CHOOSE b \in BeatNumbers : TRUE

TimingNext ==
  \/ part = "tempo" /\ Next /\ UNCHANGED <<part, linkVars, lineVars, fadeVars>>
  \/ part = "link" /\ Link!Next /\ UNCHANGED <<part, vars, lineVars, fadeVars>>
  \/ part = "line" /\ Line!Next /\ UNCHANGED <<part, vars, linkVars, fadeVars>>
  \/ part = "fade" /\ Fade!Next /\ UNCHANGED <<part, vars, linkVars, lineVars>>

TimingSpec == TimingInit /\ [][TimingNext]_timingVars

-----------------------------------------------------------------------------
(* Properties, beside those of Tempo.                                      *)

(* The types; "Dont become negative": whatever the sources count and lose, *)
(* aligning again and again keeps the offset at a whole number of bars,    *)
(* never negative and below two phrases.  And a fade that is over is dark, *)
(* one that lasts long enough is full, and each beat starts the fades anew *)
(* (Fades).                                                                *)
TimingInv ==
  /\ part = "tempo" => TypeOK /\ OffsetIsWholeBars
  /\ part = "link" => Link!TypeOK
  /\ part = "line" => Line!TypeOK
  /\ part = "fade" => Fade!TypeOK /\ Fade!ExitsWhenDark /\ Fade!EveryBeatFades

(* A beat of a player that counts leaves the local count at the player's   *)
(* place in the bar, never turns it back and moves it by less than a bar,  *)
(* whoever was the master before; and after a handoff the first beat of    *)
(* the new master counts (ProDJLinkTempo).                                 *)
CountFollowsMaster == Link!InStep /\ Link!HandoffIsFollowed

(* "Returns true if the moment happened within the frame": the moments     *)
(* that happened are the positions the frame went through, whether it      *)
(* looped or not, so none is skipped and none comes twice; and again from  *)
(* the second frame after a reset, a change of the duration, the end of    *)
(* the clock or a frame longer than the loop (Timeline).                   *)
RightAgain == Line!RightAgain

=============================================================================
