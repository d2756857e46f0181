---------------------------- MODULE MCSequencer -----------------------------
(***************************************************************************)
(* Small instances of the sequencer for TLC.                               *)
(***************************************************************************)
EXTENDS Sequencer

NoFlags  == {}
OneLevel == {255}
NoMasks  == {}

(* Both steps of the grid, one of them after a wrap, and the beat of MIDI  *)
(* stop.                                                                   *)
Beats    == {-1, 1, 2}

(* Bound: nothing is explored after a state in which more than one slot is *)
(* on by its button or by preview.                                         *)
OneHand ==
  \A c, d \in Columns, s, t \in Slots, f, g \in {DEFAULT, PREVIEW} :
    f \in activated[c][s] /\ g \in activated[d][t] => <<c, s, f>> = <<d, t, g>>

=============================================================================
