SPECIFICATION Spec
CONSTANTS
  Player = player
  Tap = tap
  Clocks = {}
  TempoThread = t0
  MidiThread = t0
  WebThread = t0
  BarSize = 2
  PhraseSize = 4
  TicksPerBeat = 2
  MaxBeat = 2
  NoSource = NoSource
INVARIANT HighestPriorityActive
