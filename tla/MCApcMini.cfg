SPECIFICATION ApcSpec
CONSTANTS
  apc = apc
  Width = 1
  Unknown = Unknown
  MaxColumns = 2
  MaxSlots = 2
  MaxParams = 1
  MaxInputs = 0
  Controllers = {apc}
  SetFlags = {"SEQUENCE"}
  Levels = {0, 255}
  Fields = {"size"}
  Values = {0}
  InitValue = 0
  Masks = {}
INVARIANT SurfaceInv
