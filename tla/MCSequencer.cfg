SPECIFICATION SeqSpec
CONSTANTS
  Unknown = Unknown
  MaxColumns = 1
  MaxSlots = 2
  MaxParams = 1
  MaxInputs = 0
  Controllers = {}
  SetFlags <- NoFlags
  Levels <- OneLevel
  Fields = {"size"}
  Values = {0}
  InitValue = 0
  Masks <- NoMasks
  STEPS = 2
  MaxIndex = 2
  BeatNumbers <- Beats
  Pages = {"p"}
INVARIANT SequencerInv
PROPERTIES StaysSynced BeatRepairs
CONSTRAINT OneHand
