SPECIFICATION Spec
CONSTANTS
  Owners = {o1}
  Inboxes = {i1}
  Messages = {m1}
  OwnerTasks = {}
  Sweepers = {s1}
  Never = Never
  TotalSize <- UnitSizes
  Lifetimes = {}
  MaxInboxBytes = 1
  MaxOwnerBytes = 1
  MaxInboxMessages = 1
  MaxDailyReceipts = 1
  MaxInboxesPerOwner = 1
  Retention = 9
  Quiesce = 1
  DayLength = 9
  MaxTime = 3
  MaxFaults = 0

PROPERTY SweepTakesOnlyEnded
