SPECIFICATION TimingSpec
CONSTANTS
  Player = player
  Tap = tap
  Clocks = {clock}
  TempoThread = tempoThread
  MidiThread = midiThread
  WebThread = webThread
  BarSize = 2
  PhraseSize = 4
  TicksPerBeat = 2
  MaxBeat = 2
  NoSource = NoSource
  Players = {p1, p2}
  NoMaster = NoMaster
  LinkBeats = 12
  Width = 12
  Durations = {0, 2, 4, 5}
  MaxStep = 3
  Resets = TRUE
  Changes = TRUE
  FadeIn = 2
  FadeOut = 2
  Trigger = 2
  InDelay = 1
  OutDelay = 1
  MaxDelay = 1
  BeatNumbers = {0, 1}
  FadeStep = 2

INVARIANTS TimingInv RightAgain
PROPERTIES AlignStartsPhrase  CountFollowsMaster
