SPECIFICATION PaletteSpec

CONSTANTS
  k1 = k1
  Unknown = Unknown
  MaxColumns = 1
  MaxSlots = 2
  MaxParams = 2
  MaxInputs = 2
  Controllers = {k1}
  SetFlags <- StepsAndPreview
  Levels <- TwoLevels
  Fields = {"size"}
  Values = {0, 1}
  InitValue = 0
  Masks <- PreviewMask
  PaletteCol = 0
  NPalettes = 2
  NoPalette = NoPalette

INVARIANTS PaletteInv NoGhostLight FadersMirrored
PROPERTIES RadioColumn ForcedSelectionKept LastOneWins StaysTold
CONSTRAINT OneSide
