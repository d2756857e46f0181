SPECIFICATION Spec

CONSTANTS
  midi = midi
  web = web
  tempo = tempo
  apc = apc
  korg = korg
  keyboard = keyboard
  nanoSlider = nanoSlider
  nanoCtrl = nanoCtrl
  p1 = p1
  p2 = p2
  Threads = {midi, web, tempo}
  Buttons <- OwnButtons
  SetSlots <- OwnSteps
  Dimmers = {web}
  NSlots = 3
  FlashSlots = {0, 2}
  Releasing = {1}
  Forced = FALSE
  Levels <- TwoLevels
  Plug = {apc, korg, keyboard}
  Known = {apc, korg}
  NativeAddress = {1, 2, 3}
  OneAtATime = TRUE
  Names = {apc, nanoSlider, nanoCtrl}
  NamePairs <- KorgPair
  MaxPorts = 3
  Bridge = {1, 2}
  BridgePlug = {apc, keyboard}
  BridgeKnown = {apc}
  BridgeAddress = {1, 2}
  MaxId = 2
  Pages = {p1, p2}
  MaxColumns = 2
  PageSlots = 1
  OtherThread = FALSE
  MaxSessions = 2
  MaxInbox = 3

INVARIANTS NoStuckFlash NoDangling OpenIsServed ServerMirrorsPage InSync
PROPERTY DevicesSettle

\* ports are paired once, and a bridge and a page end
CHECK_DEADLOCK FALSE
