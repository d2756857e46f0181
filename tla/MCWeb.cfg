SPECIFICATION WebSpec

CONSTANTS
  Sender = {tempo, midi}
  Session = {s1, s2}
  Io = io
  MaxSent = 2
  Limit = 2
  Requests = 4
  Pipelining = TRUE
  Addresses = {old, new}
  Retry = 1
  Refresh = 2
  Tasks = {t1, t2}
  Unknown = Unknown

INVARIANTS WebInv NoWriteToFreed
PROPERTIES PagesAreServed NotAskedTooOften NameSettles

\* connections end, and broadcasts are bounded
CHECK_DEADLOCK FALSE
