SPECIFICATION Spec
CONSTANTS
  Owners = {o1}
  Inboxes = {i1}
  Messages = {m1, m2, m3}
  OwnerTasks = {}
  Sweepers = {}
  Never = Never
  TotalSize <- UnitSizes
  Lifetimes = {1}
  MaxInboxBytes = 3
  MaxOwnerBytes = 3
  MaxInboxMessages = 3
  MaxDailyReceipts = 1
  MaxInboxesPerOwner = 1
  Retention = 2
  Quiesce = 1
  DayLength = 1
  MaxTime = 1
  MaxFaults = 0
SYMMETRY MessageSymmetry
INVARIANT DailyLimit
