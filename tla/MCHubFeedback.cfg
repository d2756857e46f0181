SPECIFICATION Spec
CONSTANTS
  k1 = k1
  Unknown = Unknown
  MaxColumns = 1
  MaxSlots = 2
  MaxParams = 1
  MaxInputs = 0
  Controllers = {k1}
  SetFlags <- StepFlags
  Levels <- OneLevel
  Fields = {"size"}
  Values = {0}
  InitValue = 0
  Masks <- NoMasks
INVARIANT LampsAgree
