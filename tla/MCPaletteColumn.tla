-------------------------- MODULE MCPaletteColumn ---------------------------
(***************************************************************************)
(* Small instances of the hub with a palette column and one more           *)
(* controller.                                                             *)
(***************************************************************************)
EXTENDS PaletteColumn

CONSTANT k1

StepsAndPreview == {SEQUENCE, PREVIEW}
TwoLevels   == {0, 255}
PreviewMask == {{PREVIEW}}

(* Bounds: the buttons are tried while all faders and masks are as in the  *)
(* beginning and a controller was told about them all at once, if at all;  *)
(* the faders with no button on and slots that look alike.                 *)
ButtonsAlone ==
  /\ \A c \in Columns : dim[c] = FullLevel
  /\ masterDim = FullLevel /\ inputs = <<>> /\ nParams = 1
  /\ \A p \in ParamSlots, f \in Fields : params[p][f] = InitValue
  /\ \A k \in Controllers :
       /\ seenMask[k] \notin Masks
       /\ \A f \in Fields : seenParam[k][0][f] = Unknown <=> seenMaster[k] = Unknown
       /\ seenMaster[k] = Unknown => \A c \in Columns : seenDim[k][c] = Unknown

FadersAlone ==
  /\ palette = NoPalette
  /\ \A c \in Columns :
       /\ ~forced[c]
       /\ \A s \in Slots : ~releaseColumn[c][s] /\ ~flash[c][s] /\ activated[c][s] = {}
       /\ \A k \in Controllers, s, t \in Slots : seenSlot[k][c][s] = seenSlot[k][c][t]

OneSide == ButtonsAlone \/ FadersAlone

=============================================================================
