SPECIFICATION Spec
CONSTANTS
  Owners = {o1}
  Inboxes = {i1, i2}
  Messages = {m1, m2}
  OwnerTasks = {t1}
  Sweepers = {}
  Never = Never
  TotalSize <- UnitSizes
  Lifetimes = {}
  MaxInboxBytes = 2
  MaxOwnerBytes = 1
  MaxInboxMessages = 2
  MaxDailyReceipts = 1
  MaxInboxesPerOwner = 2
  Retention = 2
  Quiesce = 1
  DayLength = 9
  MaxTime = 1
  MaxFaults = 1
SYMMETRY MessageSymmetry
INVARIANTS CountersExact QuotaHeld
PROPERTY ImplementsContract
