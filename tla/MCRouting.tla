------------------------------ MODULE MCRouting -----------------------------
(***************************************************************************)
(* Small instances: a slicer with two outputs that are waited for, a       *)
(* monitor that is not and the source chain in between; a combine with two *)
(* parts with sync and one without; a switch with two inputs.              *)
(***************************************************************************)
EXTENDS Routing

CONSTANTS led, dmx, monitor, source, a, b, c

SourceInTheMiddle == <<led, source, monitor, dmx>>

=============================================================================
