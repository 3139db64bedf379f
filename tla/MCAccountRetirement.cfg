SPECIFICATION FairSpec
CONSTANTS
  Requests = {r1}
  Crons = {c1}
  Served = {"openrouter", "tinfoil"}
  FaultKinds = {"activity_lost", "lookup_fails", "mint_refused", "mint_lost", "destroy_fails", "request_dies", "key_dies", "fence_fails", "purge_fails", "cron_dies", "inbox_restored"}
  MaxKeys = 2
  MaxTokens = 2
  MaxPeriod = 2
  MaxFaults = 2
PROPERTIES FencesArrive OutboxDrains
