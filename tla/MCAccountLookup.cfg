SPECIFICATION Spec
CONSTANTS
  Requests = {r1}
  Crons = {c1}
  Served = {"openrouter"}
  FaultKinds = {"lookup_fails"}
  MaxKeys = 2
  MaxTokens = 1
  MaxPeriod = 1
  MaxFaults = 1
PROPERTY OnlyDeadKeysReplaced
