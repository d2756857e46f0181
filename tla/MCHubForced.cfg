SPECIFICATION Spec
CONSTANTS
  k1 = k1
  Unknown = Unknown
  MaxColumns = 1
  MaxSlots = 3
  MaxParams = 1
  MaxInputs = 0
  Controllers = {}
  SetFlags <- NoFlags
  Levels <- OneLevel
  Fields = {"size"}
  Values = {0}
  InitValue = 0
  Masks <- NoMasks
PROPERTY ForcedSelection
CHECK_DEADLOCK FALSE
