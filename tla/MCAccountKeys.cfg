SPECIFICATION Spec
CONSTANTS
  Requests = {r1, r2}
  Crons = {c1}
  Served = {"tinfoil"}
  FaultKinds = {"activity_lost", "mint_refused", "key_dies", "purge_fails", "cron_dies"}
  MaxKeys = 3
  MaxTokens = 3
  MaxPeriod = 2
  MaxFaults = 1
SYMMETRY RequestSymmetry
INVARIANTS KeysAccountedFor KeyLineage RetirementSparesCurrent
PROPERTIES UsedAccountSpared KeepsCustody
