SPECIFICATION FairSpec
CONSTANTS
  MaxMessages = 2
  Streams = {s1, s2}
  None = None
  PageSize = 1
  MaxLeases = 1
  Lifetime = 2
  MaxEpoch = 2
  Fresh = 2
  MaxEvents = 2
  Sandboxed = TRUE
  MaxFaults = 2
INVARIANTS TypeOK NoGap StopIsFinal
PROPERTIES CutOff Delivered
