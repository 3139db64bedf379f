SPECIFICATION FairSpec
CONSTANTS
  Owners = {o1}
  Inboxes = {i1}
  Messages = {m1}
  OwnerTasks = {t1}
  Sweepers = {s1}
  Never = Never
  TotalSize <- UnitSizes
  Lifetimes = {1}
  MaxInboxBytes = 1
  MaxOwnerBytes = 1
  MaxInboxMessages = 1
  MaxDailyReceipts = 1
  MaxInboxesPerOwner = 1
  Retention = 1
  Quiesce = 0
  DayLength = 9
  MaxTime = 1
  MaxFaults = 1
INVARIANTS TypeOK ErasedLeavesNothing ObjectsTracked VisibleHasObject
PROPERTIES DestroyedIsErased LeftoversRemoved ImplementsContract
