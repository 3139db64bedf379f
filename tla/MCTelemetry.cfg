SPECIFICATION FairSpec
CONSTANTS
  Exporters = {x1}
  Events = {e1}
  EventTime <- Times
  None = None
  Retentions = {2, 3}
  Deployed = 3
  OutboxTTL = 3
  MaxWindows = 2
  MaxCount = 2
  PerExport = 1
  PurgeRows = 1
  MaxTime = 3
  LastWindow = 1
  MaxRequests = 1
  MaxFaults = 1
INVARIANTS TypeOK NeverClashes SentIsCounted StatusIsNewest
PROPERTIES CountedOnce WindowResolved
