---------------------------- MODULE MCControlHub ----------------------------
(***************************************************************************)
(* Small instances of the control hub for TLC.                             *)
(***************************************************************************)
EXTENDS ControlHub

CONSTANT k1

NoFlags     == {}
StepFlags   == {SEQUENCE}
NoMasks     == {}

OneLevel  == {255}

=============================================================================
