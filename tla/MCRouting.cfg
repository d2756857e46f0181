SPECIFICATION RoutingSpec

CONSTANTS
  led = led
  dmx = dmx
  monitor = monitor
  source = source
  a = a
  b = b
  c = c
  Slices = {led, dmx, monitor}
  Sync = {led, dmx}
  Source = source
  Order <- SourceInTheMiddle
  MaxFrames = 4
  Parts = {a, b, c}
  PartsSync = {a, b}
  Lengths = {1, 2}
  CombineFrames = 3
  Timeout = 3
  RepeatFrames = 4
  N = 2
  SwitchTimeout = 1

INVARIANTS RoutingInv
PROPERTIES DeliverySpec FramesGoOn OneFrameEach NoFrameLost LightsStayOn OnlyTheChosenSpeaks

\* the inputs end after their last frame
CHECK_DEADLOCK FALSE
