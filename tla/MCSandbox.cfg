SPECIFICATION FairSpec
CONSTANTS
  Machines = {m1, m2}
  Creds = {c1, c2}
  Services = {s1}
  Attaching = {}
  None = None
  MaxFaults = 1
  MaxRequests = 2
INVARIANTS TypeOK SecretsTracked ActiveIsMounted CreatedOnce AccessRevoked
PROPERTIES OperationsEnd GoneIsErased
CHECK_DEADLOCK FALSE
