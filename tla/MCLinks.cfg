SPECIFICATION Spec

CONSTANTS
  Second = 10
  ThrottleFps = 5
  OutputFps = 5
  Durations = {2, 3}
  Delays = {1}
  UdpFrames = 3
  UdpTime = 11
  Strips = {0, 1}
  Lengths = {3, 8, 9}
  MaxLate = 2
  Universe = 2
  DmxInFrames = 2
  QueueLength = 3
  Dark = {1}
  Errors = 1
  Outputs = {"a", "b"}
  MinChannels = 1
  TrailingChannels = 0
  DmxOutFrames = 2
  EspChannels = 2
  EspFrames = 3
  Address = {d1}
  Device = d1
  Known = TRUE
  Data = {n1, high}
  TooHigh = high
  Unset = unset

INVARIANTS LinksInv NoneThrownAway SendsItsFrame
PROPERTIES NeverBack HeardAsSent EveryLinkGoesOn

\* the wires fall silent after their last frames
CHECK_DEADLOCK FALSE
