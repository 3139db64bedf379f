SPECIFICATION Spec
CONSTANTS
  Requests = {r1, r2}
  Crons = {c1}
  Served = {"openrouter"}
  FaultKinds = {}
  MaxKeys = 0
  MaxTokens = 3
  MaxPeriod = 1
  MaxFaults = 0
SYMMETRY RequestSymmetry
PROPERTY OnlyRevocationReplacesToken
