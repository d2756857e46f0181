---------------------------- MODULE MCControllers ---------------------------
(***************************************************************************)
(* Small instances.  The hub without a lock: a MIDI surface with a flash   *)
(* row, a web page and the sequencer; slot 0 flashes and is the surface's  *)
(* alone; slot 1 releases the column, slot 2 flashes, and web page and     *)
(* sequencer share the two.  Three MIDI devices, one of them unknown; the  *)
(* two names of a korg, on up to three ports of each direction in every    *)
(* order; two bridges with a known and an unknown device; two pages and a  *)
(* build with another number of columns.                                   *)
(***************************************************************************)
EXTENDS Controllers

CONSTANTS midi, web, tempo, apc, korg, keyboard, nanoSlider, nanoCtrl, p1, p2

OwnButtons  == [t \in Threads |-> CASE t = midi -> {0} [] t = web -> {1, 2} [] OTHER -> {}]
OwnSteps    == [t \in Threads |-> IF t = tempo THEN {1, 2} ELSE {}]
TwoLevels   == {0, 255}
KorgPair    == [n \in {nanoSlider} |-> nanoCtrl]

=============================================================================
