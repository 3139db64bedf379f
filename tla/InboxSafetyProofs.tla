------------------------- MODULE InboxSafetyProofs -------------------------
(***************************************************************************)
(* The safety invariants of InboxStore hold for every number of owners,    *)
(* inboxes, receptions and overlapping sweeps.                             *)
(*                                                                         *)
(* The argument: ten actions touch the D1 tables (Frame), and they only    *)
(* ever move a row forward (Forward, LiveStays).  Every invocation's       *)
(* knowledge across an await is of a kind that forward steps preserve, so  *)
(* each part of IInv is checked against the few actions that disturb it.   *)
(***************************************************************************)
EXTENDS InboxInvariant, FiniteSetTheorems, TLAPS

-----------------------------------------------------------------------------
(* Shapes *)

\* The phases, one by one: the provers are quicker with the sets unexpanded.
LEMMA Phases ==
    /\ "new" \in RxStates /\ "looked_up" \in RxStates
    /\ "clocked" \in RxStates /\ "reserved" \in RxStates
    /\ "putting" \in RxStates /\ "recheck" \in RxStates
    /\ "drop_object" \in RxStates /\ "acknowledged" \in RxStates
    /\ "not_found" \in RxStates /\ "refused" \in RxStates
    /\ "unavailable" \in RxStates
    /\ "idle" \in RmStages /\ "mark" \in RmStages
    /\ "select" \in RmStages /\ "objects" \in RmStages
    /\ "rows" \in RmStages
    /\ "idle" \in SwStates /\ "expired" \in SwStates
    /\ "stale" \in SwStates /\ "retried" \in SwStates
    /\ "destroying" \in SwStates /\ "step" \in SwStates
    /\ "finalize" \in SwStates /\ "list" \in SwStates
    /\ "purge" \in SwStates /\ "relist" \in SwStates
    /\ "erase" \in SwStates /\ "prefixes" \in SwStates
    /\ "reconcile" \in SwStates /\ "check" \in SwStates
    /\ "orphans" \in SwStates /\ "admit" \in SwStates
    /\ "admitting" \in SwStates
    /\ "none" \in InboxStates /\ "active" \in InboxStates
    /\ "destroying" \in InboxStates /\ "gone" \in InboxStates
    /\ "none" \in MessageStates /\ "pending" \in MessageStates
    /\ "stored" \in MessageStates /\ "deleting" \in MessageStates
    /\ "gone" \in MessageStates
  BY DEF RxStates, RmStages, SwStates, InboxStates, MessageStates

LEMMA Defaults == AnInbox \in Inboxes /\ AnOwner \in Owners /\ NoInbox \in InboxRow
  BY IdAssumption, Phases DEF AnInbox, AnOwner, NoInbox, InboxRow

LEMMA DayType == \A t \in Nat : Day(t) \in Int
  BY LimitsAssumption DEF Day

LEMMA SetType ==
    \A S \in SUBSET Messages : TotalSize[S] \in Nat /\ Cardinality(S) \in Nat
  BY SizeAssumption, IdAssumption, FS_Subset, FS_CardinalityType

\* What the updates of a row leave.
LEMMA RowUpdates ==
    ASSUME NEW row \in InboxRow, NEW a \in Nat, NEW b \in Nat
    PROVE /\ [row EXCEPT !.state = "destroying", !.destroy_requested_at = a]
               \in InboxRow
          /\ [row EXCEPT !.bytes_stored = @ - a, !.message_count = @ - b]
               \in InboxRow
          /\ [row EXCEPT !.event_seq = @ + 1] \in InboxRow
<1>1. "destroying" \in InboxStates /\ a \in Int
  BY Phases
<1>2. [row EXCEPT !.state = "destroying", !.destroy_requested_at = a] \in InboxRow
  BY <1>1 DEF InboxRow
<1>3. row.bytes_stored - a \in Int /\ row.message_count - b \in Int
  BY DEF InboxRow
<1>4. [row EXCEPT !.bytes_stored = @ - a, !.message_count = @ - b] \in InboxRow
  BY <1>3 DEF InboxRow
<1>5. [row EXCEPT !.event_seq = @ + 1] \in InboxRow
  BY DEF InboxRow
<1>6. QED BY <1>2, <1>4, <1>5

LEMMA InitType == Init => TypeOK
  BY Defaults, LimitsAssumption, Phases
  DEF Init, TypeOK, MessageRow, RxRow, OtRow, RmRow, SwRow, SweepIdle

LEMMA ReserveType == ASSUME TypeOK, NEW m \in Messages, Reserve(m) PROVE TypeOK'
<1>1. Size(m) \in Int /\ Day(rx[m].clock) \in Int /\ target[m] \in Inboxes
  BY SetType, DayType DEF TypeOK, Size, RxRow
<1>2. inbox' \in [Inboxes -> InboxRow]
  BY <1>1 DEF TypeOK, Reserve, InboxRow
<1>3. message' \in [Messages -> MessageRow] /\ rx' \in [Messages -> RxRow]
  BY Phases DEF TypeOK, Reserve, RxGoto, MessageRow, RxRow
<1>4. QED
  BY <1>2, <1>3 DEF TypeOK, Reserve, r2

LEMMA StoreType ==
    ASSUME TypeOK, NEW m \in Messages, Store(m)
    PROVE inbox' \in [Inboxes -> InboxRow] /\ message' \in [Messages -> MessageRow]
<1>1. /\ inbox \in [Inboxes -> InboxRow] /\ target[m] \in Inboxes
      /\ message \in [Messages -> MessageRow]
  BY DEF TypeOK
<1>2. [inbox[target[m]] EXCEPT !.event_seq = @ + 1] \in InboxRow
  BY <1>1, RowUpdates
<1>3. inbox' \in [Inboxes -> InboxRow]
  BY <1>1, <1>2 DEF Store
<1>4. inbox[target[m]].event_seq + 1 \in Nat /\ "stored" \in MessageStates
  BY <1>1, Phases DEF InboxRow
<1>5. message' \in [Messages -> MessageRow]
  BY <1>1, <1>4 DEF Store, MessageRow
<1>6. QED BY <1>3, <1>5

LEMMA ReconcileFailsType ==
    ASSUME TypeOK, NEW s \in Sweepers, ReconcileFails(s)
    PROVE sw' \in [Sweepers -> SwRow] /\ blobs' \subseteq Messages
<1>1. /\ sw \in [Sweepers -> SwRow] /\ blobs \subseteq Messages
      /\ "reconcile" \in SwStates
  BY Phases DEF TypeOK
<1>2. QED BY <1>1 DEF ReconcileFails, SwRow

LEMMA DestroyType ==
    ASSUME TypeOK, NEW i \in Inboxes, NEW at \in Nat, BeginDestroy(i, at)
    PROVE inbox' \in [Inboxes -> InboxRow] /\ prefixes' \subseteq Inboxes
<1>1. inbox \in [Inboxes -> InboxRow] /\ prefixes \subseteq Inboxes
  BY DEF TypeOK
<1>2. ASSUME NEW row \in InboxRow PROVE Destroyed(row, at) \in InboxRow
  <2>1. Earlier(at, row.expires_at) \in Int
    BY LimitsAssumption DEF Earlier, Reaches, InboxRow
  <2>2. QED BY <2>1, Phases DEF Destroyed, InboxRow
<1>3. QED BY <1>1, <1>2 DEF BeginDestroy

LEMMA OwnerType == ASSUME TypeOK, OwnerStep PROVE TypeOK'
<1> USE Phases DEF TypeOK, d1, r2, tasks
<1>1. ASSUME NEW o \in Owners, NEW i \in Inboxes,
             NEW ttl \in Lifetimes \cup {Never}, CreateInbox(o, i, ttl)
      PROVE TypeOK'
  <2>1. (IF ttl = Never THEN Never ELSE now + ttl) \in {Never} \cup Nat
    BY LimitsAssumption
  <2>2. [NoInbox EXCEPT !.state = "active", !.owner = o,
           !.expires_at = IF ttl = Never THEN Never ELSE now + ttl] \in InboxRow
    BY <2>1, Defaults DEF InboxRow
  <2>3. inbox' \in [Inboxes -> InboxRow]
    BY <1>1, <2>2 DEF CreateInbox
  <2>4. QED BY <1>1, <2>3 DEF CreateInbox
<1>2. ASSUME NEW i \in Inboxes, NEW ttl \in Lifetimes, UpdateInbox(i, ttl)
      PROVE TypeOK'
  BY <1>2, LimitsAssumption DEF UpdateInbox, InboxRow
<1>3. ASSUME NEW o \in Owners, RetireOwner(o) PROVE TypeOK'
  <2>1. ASSUME NEW i \in Inboxes
        PROVE [inbox[i] EXCEPT !.state = "destroying",
                               !.destroy_requested_at = now] \in InboxRow
    BY RowUpdates
  <2>2. inbox' \in [Inboxes -> InboxRow]
    BY <1>3, <2>1 DEF RetireOwner
  <2>3. QED BY <1>3, <2>2 DEF RetireOwner, OwnedBy
<1>4. ASSUME NEW t \in OwnerTasks, NEW i \in Inboxes, DestroyInbox(t, i)
      PROVE TypeOK'
  BY <1>4, DestroyType DEF DestroyInbox, OtRow
<1>5. ASSUME NEW t \in OwnerTasks, NEW m \in Messages, DeleteMessage(t, m)
      PROVE TypeOK'
  BY <1>5 DEF DeleteMessage, CallRemove, Tasks, RmRow
<1> QED BY <1>1, <1>2, <1>3, <1>4, <1>5 DEF OwnerStep

LEMMA RemoveType == ASSUME TypeOK, NEW t \in Tasks, Remove(t) PROVE TypeOK'
<1> USE Phases DEF TypeOK, d1, r2, tasks, RmRow, RemoveDone
<1>1. CASE RemoveMark(t)
  BY <1>1 DEF RemoveMark, PendingHomes, MessageRow
<1>2. CASE RemoveSelect(t)
  BY <1>2 DEF RemoveSelect
<1>3. CASE RemoveObjects(t)
  BY <1>3 DEF RemoveObjects
<1>4. CASE RemoveRows(t)
  <2>1. \A i \in Inboxes :
           LET mine == {m \in Doomed(t) : target[m] = i} IN
           TotalSize[mine] \in Nat /\ Cardinality(mine) \in Nat
    BY SetType DEF Doomed
  <2>2. inbox' \in [Inboxes -> InboxRow]
    <3>1. inbox \in [Inboxes -> InboxRow]
      OBVIOUS
    <3>2. ASSUME NEW row \in InboxRow, NEW b \in Nat, NEW n \in Nat
          PROVE [row EXCEPT !.bytes_stored = @ - b, !.message_count = @ - n]
                  \in InboxRow
      BY RowUpdates
    <3>3. QED BY <1>4, <2>1, <3>1, <3>2 DEF RemoveRows
  <2>3. QED BY <1>4, <2>2 DEF RemoveRows, MessageRow
<1> QED BY <1>1, <1>2, <1>3, <1>4 DEF Remove

\* A sweep step leaves a well-formed invocation row.
LEMMA SweepRowType ==
    ASSUME TypeOK, NEW s \in Sweepers, Sweep(s)
    PROVE sw' \in [Sweepers -> SwRow]
<1>1. /\ sw \in [Sweepers -> SwRow] /\ now \in Nat
      /\ prefixes \subseteq Inboxes /\ blobs \subseteq Messages
  BY DEF TypeOK
<1> USE <1>1, Phases DEF SwRow, SwGoto
<1>2. CASE SweepBegin(s)
  BY <1>2 DEF SweepBegin
<1>3. CASE SweepExpired(s)
  BY <1>3 DEF SweepExpired, SweepRows
<1>4. CASE SweepStale(s)
  BY <1>4 DEF SweepStale, SweepRows
<1>5. CASE SweepRetried(s)
  BY <1>5 DEF SweepRetried, SweepRows
<1>6. CASE SweepDestroying(s)
  BY <1>6 DEF SweepDestroying
<1>7. CASE DestroyStep(s)
  <2>1. CASE sw[s].todo = {}
    BY <1>7, <2>1 DEF DestroyStep
  <2>2. CASE sw[s].todo # {}
    <3>1. PICK i \in sw[s].todo :
             sw' = [sw EXCEPT ![s].pc = "finalize", ![s].at = i,
                              ![s].todo = @ \ {i}]
      BY <1>7, <2>2 DEF DestroyStep
    <3>2. QED BY <3>1
  <2>3. QED BY <2>1, <2>2
<1>8. CASE FinalizeCheck(s)
  BY <1>8 DEF FinalizeCheck
<1>9. CASE FinalizeList(s)
  BY <1>9 DEF FinalizeList, Objects
<1>10. CASE FinalizePurge(s)
  BY <1>10 DEF FinalizePurge
<1>11. CASE FinalizeRelist(s)
  BY <1>11 DEF FinalizeRelist
<1>12. CASE EraseInbox(s)
  BY <1>12 DEF EraseInbox
<1>13. CASE SweepPrefixes(s)
  BY <1>13 DEF SweepPrefixes
<1>14. CASE ReconcileList(s)
  <2>1. CASE sw[s].todo = {}
    BY <1>14, <2>1 DEF ReconcileList
  <2>2. CASE sw[s].todo # {}
    <3>1. PICK i \in sw[s].todo :
             sw' = [sw EXCEPT ![s].pc = "check", ![s].at = i,
                              ![s].todo = @ \ {i}, ![s].objs = Objects(i)]
      BY <1>14, <2>2 DEF ReconcileList
    <3>2. Objects(i) \subseteq Messages
      BY DEF Objects
    <3>3. QED BY <3>1, <3>2
  <2>3. QED BY <2>1, <2>2
<1>15. CASE ReconcileCheck(s)
  BY <1>15 DEF ReconcileCheck, Orphans
<1>16. CASE ReconcileDelete(s)
  BY <1>16 DEF ReconcileDelete
<1>17. CASE SweepAdmit(s)
  BY <1>17 DEF SweepAdmit
<1>18. CASE AdmitOne(s)
  BY <1>18 DEF AdmitOne
<1>19. CASE SweepEnd(s)
  BY <1>19, Defaults DEF SweepEnd, SweepIdle
<1> QED BY <1>2, <1>3, <1>4, <1>5, <1>6, <1>7, <1>8, <1>9, <1>10, <1>11, <1>12, <1>13, <1>14, <1>15, <1>16, <1>17, <1>18, <1>19 DEF Sweep

LEMMA SweepType == ASSUME TypeOK, NEW s \in Sweepers, Sweep(s) PROVE TypeOK'
<1>1. sw' \in [Sweepers -> SwRow]
  BY SweepRowType
<1> USE <1>1, Phases DEF TypeOK, d1, r2, tasks
<1>2. CASE SwKeeps
  BY <1>2 DEF SwKeeps
<1>3. ASSUME NEW from, NEW to, NEW batch \in SUBSET Messages,
             SweepRows(s, from, to, batch)
      PROVE TypeOK'
  BY <1>3 DEF SweepRows, CallRemove, Tasks, RmRow
<1>4. CASE SweepExpired(s)
  BY <1>3, <1>4 DEF SweepExpired, Expired
<1>5. CASE SweepStale(s)
  BY <1>3, <1>5 DEF SweepStale, Stale
<1>6. CASE SweepRetried(s)
  BY <1>3, <1>6 DEF SweepRetried, Unfinished
<1>7. CASE DestroyStep(s)
  <2>1. ASSUME NEW i \in Inboxes
        PROVE CallRemove(s, Rows(i)) \in [Tasks -> RmRow]
    BY DEF CallRemove, Rows, Tasks, RmRow
  <2>2. sw[s].todo \subseteq Inboxes
    BY DEF SwRow
  <2>3. rm' \in [Tasks -> RmRow]
    BY <1>7, <2>1, <2>2 DEF DestroyStep
  <2>4. QED BY <1>7, <2>3 DEF DestroyStep
<1>8. CASE FinalizePurge(s)
  BY <1>8 DEF FinalizePurge
<1>9. CASE EraseInbox(s)
  BY <1>9, Defaults DEF EraseInbox, NoInbox, InboxRow
<1>10. CASE ReconcileDelete(s)
  BY <1>10 DEF ReconcileDelete
<1>11. CASE AdmitOne(s)
  <2>1. PICK i \in sw[s].todo :
           IF InboxExists(i) THEN BeginDestroy(i, sw[s].now)
           ELSE UNCHANGED <<prefixes, inbox>>
    BY <1>11 DEF AdmitOne
  <2>2. sw[s].now \in Nat /\ i \in Inboxes
    BY DEF SwRow
  <2>3. inbox' \in [Inboxes -> InboxRow] /\ prefixes' \subseteq Inboxes
    BY <2>1, <2>2, DestroyType
  <2>4. QED BY <1>11, <2>3 DEF AdmitOne
<1> QED
  BY <1>2, <1>4, <1>5, <1>6, <1>7, <1>8, <1>9, <1>10, <1>11
  DEF Sweep, SweepBegin, SweepDestroying, FinalizeCheck, FinalizeList,
      FinalizeRelist, SweepPrefixes, ReconcileList, ReconcileCheck, SweepAdmit,
      SweepEnd

LEMMA FailureType == ASSUME TypeOK, Failures PROVE TypeOK'
<1> USE Phases DEF TypeOK, d1, r2, tasks, Fault, Tasks, RmRow, RemoveDone,
            CallRemove
<1>1. ASSUME NEW t \in Tasks, RemoveObjectsFail(t) PROVE TypeOK'
  BY <1>1 DEF RemoveObjectsFail
<1>2. ASSUME NEW t \in Tasks, RemoveThrows(t) PROVE TypeOK'
  BY <1>2, Defaults DEF RemoveThrows, SweepIdle, SwRow
<1>3. ASSUME NEW m \in Messages, PutFails(m) PROVE TypeOK'
  BY <1>3 DEF PutFails, RxEnd, RxRow
<1>4. ASSUME NEW m \in Messages, RxDies(m) PROVE TypeOK'
  BY <1>4 DEF RxDies, RxEnd, RxRow
<1>5. ASSUME NEW s \in Sweepers, ReconcileFails(s) PROVE TypeOK'
  <2>1. sw' \in [Sweepers -> SwRow] /\ blobs' \subseteq Messages
    BY <1>5, ReconcileFailsType
  <2>2. UNCHANGED <<now, d1, target, inflight, rx, ot, rm>> /\ faults' = faults + 1
    BY <1>5 DEF ReconcileFails
  <2>3. QED BY <2>1, <2>2
<1>6. ASSUME NEW s \in Sweepers, SweepDies(s) PROVE TypeOK'
  BY <1>6, Defaults DEF SweepDies, SweepIdle, SwRow
<1> QED BY <1>1, <1>2, <1>3, <1>4, <1>5, <1>6 DEF Failures

\* A reception step leaves a well-formed invocation row.
LEMMA ReceiveRowType ==
    ASSUME TypeOK, NEW m \in Messages, Receive(m)
    PROVE rx' \in [Messages -> RxRow]
<1>1. rx \in [Messages -> RxRow] /\ now \in Nat
  BY DEF TypeOK
<1> USE <1>1, Phases DEF RxRow, RxGoto, RxEnd
<1>2. CASE LookUp(m)
  BY <1>2 DEF LookUp
<1>3. CASE ReadClock(m)
  BY <1>3 DEF ReadClock
<1>4. CASE Reserve(m)
  BY <1>4 DEF Reserve
<1>5. CASE ReserveRefused(m)
  BY <1>5 DEF ReserveRefused
<1>6. CASE StartPut(m)
  BY <1>6 DEF StartPut
<1>7. CASE AbortLate(m)
  BY <1>7 DEF AbortLate
<1>8. CASE Store(m)
  BY <1>8 DEF Store
<1>9. CASE StoreRefused(m)
  BY <1>9 DEF StoreRefused
<1>10. CASE Recheck(m)
  BY <1>10 DEF Recheck
<1>11. CASE DropObject(m)
  BY <1>11 DEF DropObject
<1> QED BY <1>2, <1>3, <1>4, <1>5, <1>6, <1>7, <1>8, <1>9, <1>10, <1>11 DEF Receive

LEMMA ReceiveType == ASSUME TypeOK, NEW m \in Messages, Receive(m) PROVE TypeOK'
<1>1. rx' \in [Messages -> RxRow]
  BY ReceiveRowType
<1> USE <1>1, Phases DEF TypeOK, d1, r2, tasks, CallRemove, Tasks, RmRow
<1>2. CASE LookUp(m)
  BY <1>2 DEF LookUp
<1>3. CASE ReadClock(m)
  BY <1>3 DEF ReadClock
<1>4. CASE Reserve(m)
  BY <1>4, ReserveType
<1>5. CASE ReserveRefused(m)
  BY <1>5 DEF ReserveRefused
<1>6. CASE StartPut(m)
  BY <1>6 DEF StartPut
<1>7. CASE AbortLate(m)
  BY <1>7 DEF AbortLate
<1>8. CASE Store(m)
  BY <1>8, StoreType DEF Store
<1>9. CASE StoreRefused(m)
  BY <1>9 DEF StoreRefused
<1>10. CASE Recheck(m)
  BY <1>10 DEF Recheck
<1>11. CASE DropObject(m)
  BY <1>11 DEF DropObject
<1> QED BY <1>2, <1>3, <1>4, <1>5, <1>6, <1>7, <1>8, <1>9, <1>10, <1>11 DEF Receive

LEMMA TypeStep == TypeOK /\ [Next]_vars => TypeOK'
<1> SUFFICES ASSUME TypeOK, [Next]_vars PROVE TypeOK'
  OBVIOUS
<1> USE Phases DEF d1, r2, tasks
<1>1. CASE Tick
  BY <1>1 DEF Tick, TypeOK
<1>2. ASSUME NEW m \in Messages, PutLands(m) PROVE TypeOK'
  BY <1>2 DEF PutLands, TypeOK
<1>3. ASSUME NEW m \in Messages, Receive(m) PROVE TypeOK'
  BY <1>3, ReceiveType
<1>4. ASSUME NEW t \in OwnerTasks, DestroyInline(t) PROVE TypeOK'
  BY <1>4 DEF DestroyInline, TypeOK, CallRemove, Rows, Tasks, OtRow, RmRow
<1>5. CASE OwnerStep
  BY <1>5, OwnerType
<1>6. ASSUME NEW s \in Sweepers, Sweep(s) PROVE TypeOK'
  BY <1>6, SweepType
<1>7. ASSUME NEW t \in Tasks, Remove(t) PROVE TypeOK'
  BY <1>7, RemoveType
<1>8. CASE Failures
  BY <1>8, FailureType
<1>9. CASE UNCHANGED vars
  BY <1>9 DEF vars, TypeOK
<1> QED BY <1>1, <1>2, <1>3, <1>4, <1>5, <1>6, <1>7, <1>8, <1>9 DEF Next

\* Every row, object set and invocation keeps its shape in every behaviour.
THEOREM TypeCorrect == Spec => []TypeOK
  BY InitType, TypeStep, PTL DEF Spec

-----------------------------------------------------------------------------
(* The D1 steps *)

\* The actions that write a D1 table this module models.
D1Step ==
    \/ \E m \in Messages : Reserve(m) \/ Store(m)
    \/ \E o \in Owners, i \in Inboxes, ttl \in Lifetimes \cup {Never} :
          CreateInbox(o, i, ttl)
    \/ \E i \in Inboxes, ttl \in Lifetimes : UpdateInbox(i, ttl)
    \/ \E o \in Owners : RetireOwner(o)
    \/ \E t \in OwnerTasks, i \in Inboxes : DestroyInbox(t, i)
    \/ \E t \in Tasks : RemoveMark(t) \/ RemoveRows(t)
    \/ \E s \in Sweepers : EraseInbox(s) \/ AdmitOne(s)

LEMMA Frame == [Next]_vars => D1Step \/ UNCHANGED d1
<1> SUFFICES ASSUME [Next]_vars, ~D1Step PROVE UNCHANGED d1
  OBVIOUS
<1>1. CASE Tick
  BY <1>1 DEF Tick
<1>2. ASSUME NEW m \in Messages, PutLands(m) PROVE UNCHANGED d1
  BY <1>2 DEF PutLands
<1>3. ASSUME NEW m \in Messages, Receive(m) PROVE UNCHANGED d1
  BY <1>3 DEF D1Step, Receive, LookUp, ReadClock, ReserveRefused, StartPut,
              AbortLate, StoreRefused, Recheck, DropObject
<1>4. ASSUME NEW t \in OwnerTasks, DestroyInline(t) PROVE UNCHANGED d1
  BY <1>4 DEF DestroyInline
<1>5. CASE OwnerStep
  BY <1>5 DEF D1Step, OwnerStep, DeleteMessage
<1>6. ASSUME NEW s \in Sweepers, Sweep(s) PROVE UNCHANGED d1
  BY <1>6
  DEF D1Step, Sweep, SwKeeps, SweepBegin, SweepExpired, SweepStale, SweepRetried,
      SweepRows, SweepDestroying, DestroyStep, FinalizeCheck, FinalizeList,
      FinalizePurge, FinalizeRelist, SweepPrefixes, ReconcileList, ReconcileCheck,
      ReconcileDelete, SweepAdmit, SweepEnd
<1>7. ASSUME NEW t \in Tasks, Remove(t) PROVE UNCHANGED d1
  BY <1>7 DEF D1Step, Remove, RemoveSelect, RemoveObjects
<1>8. CASE Failures
  BY <1>8 DEF Failures, RemoveObjectsFail, RemoveThrows, PutFails, RxDies,
              ReconcileFails, SweepDies
<1>9. CASE UNCHANGED vars
  BY <1>9 DEF vars, d1
<1> QED BY <1>1, <1>2, <1>3, <1>4, <1>5, <1>6, <1>7, <1>8, <1>9 DEF Next

LEMMA TargetFixed == [Next]_vars => target' = target
<1> SUFFICES ASSUME [Next]_vars PROVE target' = target
  OBVIOUS
<1>1. CASE D1Step
  BY <1>1
  DEF D1Step, Reserve, Store, CreateInbox, UpdateInbox, RetireOwner, DestroyInbox,
      RemoveMark, RemoveRows, EraseInbox, AdmitOne
<1>2. CASE Tick
  BY <1>2 DEF Tick
<1>3. ASSUME NEW m \in Messages, PutLands(m) \/ Receive(m) PROVE target' = target
  BY <1>1, <1>3
  DEF D1Step, PutLands, Receive, LookUp, ReadClock, ReserveRefused, StartPut,
      AbortLate, StoreRefused, Recheck, DropObject
<1>4. ASSUME NEW t \in OwnerTasks, DestroyInline(t) PROVE target' = target
  BY <1>4 DEF DestroyInline
<1>5. CASE OwnerStep
  BY <1>1, <1>5 DEF D1Step, OwnerStep, DeleteMessage
<1>6. ASSUME NEW s \in Sweepers, Sweep(s) PROVE target' = target
  BY <1>1, <1>6
  DEF D1Step, Sweep, SwKeeps, SweepBegin, SweepExpired, SweepStale, SweepRetried,
      SweepRows, SweepDestroying, DestroyStep, FinalizeCheck, FinalizeList,
      FinalizePurge, FinalizeRelist, SweepPrefixes, ReconcileList, ReconcileCheck,
      ReconcileDelete, SweepAdmit, SweepEnd
<1>7. ASSUME NEW t \in Tasks, Remove(t) PROVE target' = target
  BY <1>1, <1>7 DEF D1Step, Remove, RemoveSelect, RemoveObjects
<1>8. CASE Failures
  BY <1>8 DEF Failures, RemoveObjectsFail, RemoveThrows, PutFails, RxDies,
              ReconcileFails, SweepDies
<1>9. CASE UNCHANGED vars
  BY <1>9 DEF vars
<1> QED BY <1>2, <1>3, <1>4, <1>5, <1>6, <1>7, <1>8, <1>9 DEF Next

-----------------------------------------------------------------------------
(* D1 rows only move forward *)

\* What any step may do to message m and to inbox i.
MessageForward(m) ==
    /\ message[m].state # "none" => message'[m].state # "none"
    /\ message[m].state \in Ending => message'[m].state \in Ending
    /\ message[m].state = "gone" => message'[m].state = "gone"
    /\ message[m].state = "none" => message'[m].state = "none" \/ Reserve(m)
    /\ message'[m].state = "stored" => message[m].state = "stored" \/ Store(m)
    /\ message'[m].state = "pending" => message[m].state = "pending" \/ Reserve(m)
    /\ message[m].state = "pending" /\ message'[m].state \in Ending
         => target[m] \in prefixes'
    /\ message'[m].state = "gone"
         => \/ message[m].state = "gone"
            \/ \E t \in Tasks : rm[t].stage = "rows" /\ m \in rm[t].ids

InboxForward(i) ==
    /\ inbox[i].state # "none" => inbox'[i].state # "none"
    /\ inbox[i].state \in {"destroying", "gone"}
         => inbox'[i].state \in {"destroying", "gone"}
    /\ inbox[i].state = "gone" => inbox'[i].state = "gone"
    /\ inbox[i].state # "none" /\ inbox'[i].state = "active"
         => /\ inbox[i].state = "active"
            /\ inbox'[i].owner = inbox[i].owner
            /\ inbox'[i].expires_at = inbox[i].expires_at \/ Live(i)

Forward ==
    /\ prefixes \subseteq prefixes' /\ retired \subseteq retired'
    /\ \A m \in Messages : MessageForward(m)
    /\ \A i \in Inboxes : InboxForward(i)

LEMMA DestroyForward ==
    ASSUME TypeOK, NEW i \in Inboxes, NEW at \in Nat, BeginDestroy(i, at),
           InboxExists(i)
    PROVE /\ prefixes \subseteq prefixes' /\ i \in prefixes'
          /\ \A j \in Inboxes : InboxForward(j)
          /\ \A j \in Inboxes : j # i => inbox'[j] = inbox[j]
          /\ inbox'[i].state = "destroying"
  BY DEF TypeOK, BeginDestroy, Destroyed, InboxForward, InboxExists, InboxRow

LEMMA ForwardStep == TypeOK /\ ReceiveInv /\ [Next]_vars => Forward
<1> SUFFICES ASSUME TypeOK, ReceiveInv, [Next]_vars PROVE Forward
  OBVIOUS
<1>0. /\ inbox \in [Inboxes -> InboxRow] /\ message \in [Messages -> MessageRow]
      /\ target \in [Messages -> Inboxes]
  BY DEF TypeOK
<1> USE <1>0 DEF Forward, MessageForward, InboxForward, Ending, InboxRow, MessageRow
<1>1. ASSUME NEW m \in Messages, Reserve(m) PROVE Forward
  <2>1. target[m] \in Inboxes /\ inbox[target[m]].state = "active"
    BY <1>1 DEF Reserve, Live
  <2>2. \A x \in Messages : MessageForward(x)
    <3>1. message[m].state = "none"
      BY <1>1 DEF Reserve, ReceiveInv, Early
    <3>2. message'[m].state = "pending"
      BY <1>1 DEF Reserve
    <3>3. \A x \in Messages : x # m => message'[x] = message[x]
      BY <1>1 DEF Reserve
    <3>4. QED BY <1>1, <3>1, <3>2, <3>3
  <2>3. ASSUME NEW i \in Inboxes
        PROVE /\ inbox'[i].state = inbox[i].state /\ inbox'[i].owner = inbox[i].owner
              /\ inbox'[i].expires_at = inbox[i].expires_at
    BY <1>1, <2>1 DEF Reserve
  <2>4. QED BY <1>1, <2>2, <2>3 DEF Reserve
<1>2. ASSUME NEW m \in Messages, Store(m) PROVE Forward
  BY <1>2 DEF Store, Storable
<1>3. ASSUME NEW o \in Owners, NEW i \in Inboxes,
             NEW ttl \in Lifetimes \cup {Never}, CreateInbox(o, i, ttl)
      PROVE Forward
  BY <1>3 DEF CreateInbox, NoInbox
<1>4. ASSUME NEW i \in Inboxes, NEW ttl \in Lifetimes, UpdateInbox(i, ttl)
      PROVE Forward
  BY <1>4 DEF UpdateInbox
<1>5. ASSUME NEW o \in Owners, RetireOwner(o) PROVE Forward
  BY <1>5 DEF RetireOwner
<1>6. ASSUME NEW t \in OwnerTasks, NEW i \in Inboxes, DestroyInbox(t, i)
      PROVE Forward
  BY <1>6, DestroyForward DEF DestroyInbox, TypeOK
<1>7. ASSUME NEW t \in Tasks, RemoveMark(t) PROVE Forward
  <2>1. \A m \in Messages : message'[m] = message[m] \/ message'[m].state = "deleting"
    BY <1>7 DEF RemoveMark
  <2>2. \A m \in Messages : message'[m] # message[m] => Present(m) /\ m \in rm[t].ids
    BY <1>7 DEF RemoveMark
  <2>3. prefixes \subseteq prefixes' /\ UNCHANGED <<retired, inbox>>
    BY <1>7 DEF RemoveMark
  <2>4. \A m \in Messages : message[m].state = "pending" /\ m \in rm[t].ids
                            => target[m] \in prefixes'
    BY <1>7 DEF RemoveMark, PendingHomes
  <2>5. QED BY <2>1, <2>2, <2>3, <2>4 DEF Present
<1>8. ASSUME NEW t \in Tasks, RemoveRows(t) PROVE Forward
  BY <1>8 DEF RemoveRows, Doomed, InboxExists
<1>9. ASSUME NEW s \in Sweepers, EraseInbox(s) PROVE Forward
  BY <1>9 DEF EraseInbox, NoInbox
<1>10. ASSUME NEW s \in Sweepers, AdmitOne(s) PROVE Forward
  <2>1. PICK i \in sw[s].todo :
           IF InboxExists(i) THEN BeginDestroy(i, sw[s].now)
           ELSE UNCHANGED <<prefixes, inbox>>
    BY <1>10 DEF AdmitOne
  <2>2. i \in Inboxes /\ sw[s].now \in Nat
    BY DEF TypeOK, SwRow
  <2>3. UNCHANGED <<retired, message>>
    BY <1>10 DEF AdmitOne
  <2>4. CASE InboxExists(i)
    BY <2>1, <2>2, <2>3, <2>4, DestroyForward
  <2>5. CASE ~InboxExists(i)
    BY <2>1, <2>3, <2>5
  <2>6. QED BY <2>4, <2>5
<1>11. CASE UNCHANGED d1
  BY <1>11 DEF d1
<1> QED BY Frame, <1>1, <1>2, <1>3, <1>4, <1>5, <1>6, <1>7, <1>8, <1>9, <1>10,
           <1>11 DEF D1Step

LEMMA ClockForward == TypeOK /\ [Next]_vars => now' = now \/ now' = now + 1
<1> SUFFICES ASSUME TypeOK, [Next]_vars PROVE now' = now \/ now' = now + 1
  OBVIOUS
<1>1. CASE Tick
  BY <1>1 DEF Tick
<1>2. CASE D1Step
  BY <1>2
  DEF D1Step, Reserve, Store, CreateInbox, UpdateInbox, RetireOwner, DestroyInbox,
      RemoveMark, RemoveRows, EraseInbox, AdmitOne
<1>3. ASSUME NEW m \in Messages, PutLands(m) \/ Receive(m) PROVE now' = now
  BY <1>3
  DEF PutLands, Receive, LookUp, ReadClock, Reserve, ReserveRefused, StartPut,
      AbortLate, Store, StoreRefused, Recheck, DropObject
<1>4. ASSUME NEW t \in OwnerTasks, DestroyInline(t) PROVE now' = now
  BY <1>4 DEF DestroyInline
<1>5. CASE OwnerStep
  BY <1>2, <1>5 DEF D1Step, OwnerStep, DeleteMessage
<1>6. ASSUME NEW s \in Sweepers, Sweep(s) PROVE now' = now
  BY <1>6
  DEF Sweep, SwKeeps, SweepBegin, SweepExpired, SweepStale, SweepRetried,
      SweepRows, SweepDestroying, DestroyStep, FinalizeCheck, FinalizeList,
      FinalizePurge, FinalizeRelist, SweepPrefixes, ReconcileList, ReconcileCheck,
      ReconcileDelete, SweepAdmit, SweepEnd, EraseInbox, AdmitOne
<1>7. ASSUME NEW t \in Tasks, Remove(t) PROVE now' = now
  BY <1>7 DEF Remove, RemoveSelect, RemoveObjects, RemoveMark, RemoveRows
<1>8. CASE Failures
  BY <1>8 DEF Failures, RemoveObjectsFail, RemoveThrows, PutFails, RxDies,
              ReconcileFails, SweepDies
<1>9. CASE UNCHANGED vars
  BY <1>9 DEF vars
<1> QED BY <1>1, <1>3, <1>4, <1>5, <1>6, <1>7, <1>8, <1>9 DEF Next

\* An inbox that exists and is live after a step was live before it.
LEMMA LiveStays ==
    ASSUME TypeOK, ReceiveInv, [Next]_vars,
           NEW i \in Inboxes, inbox[i].state # "none", Live(i)'
    PROVE Live(i)
<1>1. /\ InboxForward(i) /\ retired \subseteq retired' /\ (now' = now \/ now' = now + 1)
      /\ now \in Nat /\ inbox[i] \in InboxRow
  BY ForwardStep, ClockForward DEF Forward, TypeOK
<1>2. inbox'[i].state = "active" /\ inbox'[i].owner \notin retired'
  BY DEF Live
<1>3. CASE inbox'[i].expires_at = inbox[i].expires_at
  <2>1. Outlives(inbox[i].expires_at, now')
    BY <1>3 DEF Live
  <2>2. Outlives(inbox[i].expires_at, now)
    BY <1>1, <2>1, LimitsAssumption DEF Outlives, InboxRow
  <2>3. QED BY <1>1, <1>2, <2>2 DEF InboxForward, Live
<1>4. QED BY <1>1, <1>2, <1>3 DEF InboxForward

-----------------------------------------------------------------------------
(* RowsInv and EndedInv *)

LEMMA RowsInvStep ==
    ASSUME TypeOK, RowsInv, ReceiveInv, [Next]_vars PROVE RowsInv'
<1>1. SUFFICES ASSUME NEW m \in Messages, inbox'[target'[m]].state = "none"
               PROVE message'[m].state = "none"
  BY DEF RowsInv
<1>2. target'[m] = target[m] /\ target[m] \in Inboxes
  BY TargetFixed DEF TypeOK
<1>3. InboxForward(target[m]) /\ MessageForward(m)
  BY <1>2, ForwardStep DEF Forward
<1>4. inbox[target[m]].state = "none" /\ message[m].state = "none"
  BY <1>1, <1>2, <1>3 DEF InboxForward, RowsInv
<1>5. ~Reserve(m)
  BY <1>4 DEF Reserve, Live
<1>6. QED BY <1>3, <1>4, <1>5 DEF MessageForward

\* Nothing enters an inbox that has ended.
LEMMA RowsStayGone ==
    ASSUME TypeOK, ReceiveInv, [Next]_vars, NEW i \in Inboxes,
           inbox[i].state \in {"destroying", "gone"}, Rows(i) = {}
    PROVE Rows(i)' = {}
<1>1. SUFFICES ASSUME NEW m \in Messages, target'[m] = i,
                      message'[m].state \in {"pending", "stored", "deleting"}
               PROVE FALSE
  BY DEF Rows, Present
<1>2. target[m] = i /\ MessageForward(m)
  BY <1>1, TargetFixed, ForwardStep DEF Forward
<1>3. message[m].state \in MessageStates
  BY DEF TypeOK, MessageRow
<1>4. message[m].state \in {"none", "gone"}
  BY <1>2, <1>3 DEF Rows, Present, MessageStates
<1>5. ~Reserve(m)
  BY <1>2 DEF Reserve, Live
<1>6. QED BY <1>1, <1>2, <1>4, <1>5 DEF MessageForward

LEMMA EndedInvStep ==
    ASSUME TypeOK, EndedInv, ReceiveInv, [Next]_vars PROVE EndedInv'
<1> SUFFICES ASSUME NEW i \in Inboxes
             PROVE /\ inbox'[i].state \in {"destroying", "gone"} => i \in prefixes'
                   /\ inbox'[i].state = "gone" => Rows(i)' = {}
                   /\ inbox'[i].state = "active" => inbox'[i].owner \notin retired'
  BY DEF EndedInv
<1>0. /\ inbox \in [Inboxes -> InboxRow] /\ target \in [Messages -> Inboxes]
      /\ prefixes \subseteq prefixes' /\ InboxForward(i)
      /\ inbox[i].state \in {"destroying", "gone"} => i \in prefixes
      /\ inbox[i].state = "active" => inbox[i].owner \notin retired
  BY ForwardStep DEF TypeOK, Forward, EndedInv
<1>g. ASSUME inbox'[i].state = "gone", inbox[i].state = "gone" PROVE Rows(i)' = {}
  BY <1>g, RowsStayGone DEF EndedInv
<1> DEFINE P == /\ inbox'[i].state \in {"destroying", "gone"} => i \in prefixes'
                /\ inbox'[i].state = "gone" => inbox[i].state = "gone"
                /\ inbox'[i].state = "active" => inbox'[i].owner \notin retired'
<1>1. ASSUME NEW m \in Messages, Reserve(m) PROVE P
  <2>1. inbox'[i].state = inbox[i].state /\ inbox'[i].owner = inbox[i].owner
    BY <1>0, <1>1 DEF Reserve, InboxRow
  <2>2. QED BY <1>0, <1>1, <2>1 DEF Reserve
<1>2. ASSUME NEW m \in Messages, Store(m) PROVE P
  BY <1>0, <1>2 DEF Store, InboxRow
<1>3. ASSUME NEW o \in Owners, NEW j \in Inboxes,
             NEW ttl \in Lifetimes \cup {Never}, CreateInbox(o, j, ttl)
      PROVE P
  BY <1>0, <1>3 DEF CreateInbox, NoInbox, MayCreate, InboxRow
<1>4. ASSUME NEW j \in Inboxes, NEW ttl \in Lifetimes, UpdateInbox(j, ttl) PROVE P
  BY <1>0, <1>4 DEF UpdateInbox, InboxRow
<1>5. ASSUME NEW o \in Owners, RetireOwner(o) PROVE P
  BY <1>0, <1>5 DEF RetireOwner, OwnedBy, InboxExists, InboxRow
<1>6. ASSUME NEW t \in OwnerTasks, NEW j \in Inboxes, DestroyInbox(t, j) PROVE P
  <2>1. now \in Nat /\ retired' = retired
    BY <1>6 DEF TypeOK, DestroyInbox
  <2>2. QED BY <1>0, <1>6, <2>1, DestroyForward DEF DestroyInbox
<1>7. ASSUME NEW t \in Tasks, RemoveMark(t) PROVE P
  BY <1>0, <1>7 DEF RemoveMark
<1>8. ASSUME NEW t \in Tasks, RemoveRows(t) PROVE P
  BY <1>0, <1>8 DEF RemoveRows, InboxRow
<1>9. ASSUME NEW s \in Sweepers, EraseInbox(s)
      PROVE P \/ (i \in prefixes' /\ inbox'[i].state = "gone" /\ Rows(i)' = {})
  <2>1. CASE inbox'[i] = inbox[i]
    BY <1>0, <1>9, <2>1 DEF EraseInbox
  <2>2. CASE inbox'[i] # inbox[i]
    <3>1. i = sw[s].at /\ inbox[i].state = "destroying" /\ Rows(i) = {}
      BY <1>0, <1>9, <2>2 DEF EraseInbox
    <3>2. inbox'[i].state = "gone"
      BY <1>0, <1>9, <2>2, <3>1 DEF EraseInbox, NoInbox
    <3>3. QED BY <1>0, <3>1, <3>2, RowsStayGone
  <2>3. QED BY <2>1, <2>2
<1>10. ASSUME NEW s \in Sweepers, AdmitOne(s) PROVE P
  <2>1. PICK j \in sw[s].todo :
           IF InboxExists(j) THEN BeginDestroy(j, sw[s].now)
           ELSE UNCHANGED <<prefixes, inbox>>
    BY <1>10 DEF AdmitOne
  <2>2. j \in Inboxes /\ sw[s].now \in Nat /\ retired' = retired
    BY <1>10 DEF TypeOK, SwRow, AdmitOne
  <2>3. CASE InboxExists(j)
    BY <1>0, <2>1, <2>2, <2>3, DestroyForward
  <2>4. CASE ~InboxExists(j)
    BY <1>0, <2>1, <2>2, <2>4
  <2>5. QED BY <2>3, <2>4
<1>11. ASSUME UNCHANGED d1 PROVE P
  BY <1>0, <1>11 DEF d1
<1>12. P \/ (i \in prefixes' /\ inbox'[i].state = "gone" /\ Rows(i)' = {})
  BY Frame, <1>1, <1>2, <1>3, <1>4, <1>5, <1>6, <1>7, <1>8, <1>9, <1>10, <1>11
  DEF D1Step
<1> QED BY <1>g, <1>12

-----------------------------------------------------------------------------
(* CountersExact *)

\* Sizes and counts of a set of rows that gains one row, or loses some.
LEMMA Measure ==
    /\ TotalSize[{}] = 0 /\ Cardinality({}) = 0
    /\ \A S \in SUBSET Messages : \A m \in Messages \ S :
          /\ TotalSize[S \cup {m}] = TotalSize[S] + TotalSize[{m}]
          /\ Cardinality(S \cup {m}) = Cardinality(S) + 1
    /\ \A S, T \in SUBSET Messages : T \subseteq S =>
          /\ TotalSize[S \ T] = TotalSize[S] - TotalSize[T]
          /\ Cardinality(S \ T) = Cardinality(S) - Cardinality(T)
<1>1. TotalSize[{}] = 0 /\ Cardinality({}) = 0
  <2>1. TotalSize[{} \cup {}] = TotalSize[{}] + TotalSize[{}] /\ TotalSize[{}] \in Nat
    BY SizeAssumption
  <2>2. TotalSize[{}] = TotalSize[{}] + TotalSize[{}]
    BY <2>1, {} \cup {} = {}
  <2>3. \A n \in Nat : n = n + n => n = 0
    OBVIOUS
  <2>4. QED BY <2>1, <2>2, <2>3, FS_EmptySet
<1>2. ASSUME NEW S \in SUBSET Messages, NEW m \in Messages \ S
      PROVE /\ TotalSize[S \cup {m}] = TotalSize[S] + TotalSize[{m}]
            /\ Cardinality(S \cup {m}) = Cardinality(S) + 1
  <2>1. S \cap {m} = {} /\ {m} \in SUBSET Messages
    OBVIOUS
  <2>2. IsFiniteSet(S)
    BY IdAssumption, FS_Subset
  <2>3. QED BY <2>1, <2>2, SizeAssumption, FS_AddElement
<1>3. ASSUME NEW S \in SUBSET Messages, NEW T \in SUBSET Messages, T \subseteq S
      PROVE /\ TotalSize[S \ T] = TotalSize[S] - TotalSize[T]
            /\ Cardinality(S \ T) = Cardinality(S) - Cardinality(T)
  <2>1. /\ (S \ T) \cap T = {} /\ (S \ T) \cup T = S /\ S \cap T = T
        /\ S \ T \in SUBSET Messages
    BY <1>3
  <2>2. TotalSize[S] = TotalSize[S \ T] + TotalSize[T]
    BY <2>1, SizeAssumption
  <2>3. TotalSize[S \ T] \in Nat /\ TotalSize[T] \in Nat
    BY <2>1, SizeAssumption
  <2>4. IsFiniteSet(S)
    BY IdAssumption, FS_Subset
  <2>5. Cardinality(S \ T) = Cardinality(S) - Cardinality(T)
    BY <2>1, <2>4, FS_Difference
  <2>6. QED BY <2>2, <2>3, <2>5
<1>4. QED BY <1>1, <1>2, <1>3

\* The counters of inbox i agree with its rows.
Exact(i) ==
    InboxExists(i) => /\ inbox[i].bytes_stored = TotalSize[Rows(i)]
                      /\ inbox[i].message_count = Cardinality(Rows(i))

\* A step that keeps the rows and the counters of an existing inbox.
LEMMA ExactKept ==
    ASSUME TypeOK, NEW i \in Inboxes, Exact(i), target' = target,
           Rows(i)' = Rows(i),
           InboxExists(i)' => /\ InboxExists(i)
                              /\ inbox'[i].bytes_stored = inbox[i].bytes_stored
                              /\ inbox'[i].message_count = inbox[i].message_count
    PROVE Exact(i)'
  BY DEF Exact

LEMMA RowsKept ==
    ASSUME NEW i \in Inboxes, target' = target,
           \A m \in Messages : Present(m)' <=> Present(m)
    PROVE Rows(i)' = Rows(i)
  BY DEF Rows

LEMMA CountersStep ==
    ASSUME TypeOK, RowsInv, ReceiveInv, CountersExact, [Next]_vars
    PROVE CountersExact'
<1> SUFFICES ASSUME NEW i \in Inboxes PROVE Exact(i)'
  BY DEF CountersExact, Exact
<1>0. /\ inbox \in [Inboxes -> InboxRow] /\ message \in [Messages -> MessageRow]
      /\ target \in [Messages -> Inboxes] /\ target' = target /\ Exact(i)
      /\ Rows(i) \in SUBSET Messages
  BY TargetFixed DEF TypeOK, CountersExact, Exact, Rows
<1>1. ASSUME NEW m \in Messages, Reserve(m) PROVE Exact(i)'
  <2>1. message[m].state = "none" /\ m \notin Rows(i)
    BY <1>1 DEF Reserve, ReceiveInv, Early, Rows, Present
  <2>2. CASE target[m] = i
    <3>1. Rows(i)' = Rows(i) \cup {m}
      BY <1>0, <1>1, <2>1, <2>2 DEF Reserve, Rows, Present
    <3>2. /\ InboxExists(i) /\ inbox'[i].state = inbox[i].state
          /\ inbox'[i].bytes_stored = inbox[i].bytes_stored + TotalSize[{m}]
          /\ inbox'[i].message_count = inbox[i].message_count + 1
      BY <1>0, <1>1, <2>2 DEF Reserve, Live, InboxExists, Size, InboxRow
    <3>3. QED BY <1>0, <2>1, <3>1, <3>2, Measure DEF Exact
  <2>3. CASE target[m] # i
    <3>1. inbox'[i] = inbox[i]
      BY <1>0, <1>1, <2>3 DEF Reserve
    <3>2. Rows(i)' = Rows(i)
      BY <1>0, <1>1, <2>3 DEF Reserve, Rows, Present
    <3>3. QED BY <1>0, <3>1, <3>2, ExactKept DEF InboxExists
  <2>4. QED BY <2>2, <2>3
<1>2. ASSUME NEW m \in Messages, Store(m) PROVE Exact(i)'
  <2>1. \A x \in Messages : Present(x)' <=> Present(x)
    BY <1>0, <1>2 DEF Store, Storable, Present, MessageRow
  <2>2. /\ inbox'[i].state = inbox[i].state
        /\ inbox'[i].bytes_stored = inbox[i].bytes_stored
        /\ inbox'[i].message_count = inbox[i].message_count
    BY <1>0, <1>2 DEF Store, InboxRow
  <2>3. QED BY <1>0, <2>1, <2>2, RowsKept, ExactKept DEF InboxExists
<1>3. ASSUME NEW o \in Owners, NEW j \in Inboxes,
             NEW ttl \in Lifetimes \cup {Never}, CreateInbox(o, j, ttl)
      PROVE Exact(i)'
  <2>1. Rows(i)' = Rows(i)
    BY <1>0, <1>3, RowsKept DEF CreateInbox, Present
  <2>2. CASE i = j
    <3>1. Rows(i) = {}
      BY <1>0, <1>3, <2>2 DEF CreateInbox, RowsInv, Rows, Present
    <3>2. inbox'[i].bytes_stored = 0 /\ inbox'[i].message_count = 0
      BY <1>0, <1>3, <2>2 DEF CreateInbox, NoInbox
    <3>3. QED BY <2>1, <3>1, <3>2, Measure DEF Exact
  <2>3. CASE i # j
    BY <1>0, <1>3, <2>1, <2>3, ExactKept DEF CreateInbox, InboxExists
  <2>4. QED BY <2>2, <2>3
<1>4. ASSUME NEW j \in Inboxes, NEW ttl \in Lifetimes, UpdateInbox(j, ttl)
      PROVE Exact(i)'
  <2>1. Rows(i)' = Rows(i)
    BY <1>0, <1>4, RowsKept DEF UpdateInbox, Present
  <2>2. /\ inbox'[i].state = inbox[i].state
        /\ inbox'[i].bytes_stored = inbox[i].bytes_stored
        /\ inbox'[i].message_count = inbox[i].message_count
    BY <1>0, <1>4 DEF UpdateInbox, InboxRow
  <2>3. QED BY <1>0, <2>1, <2>2, ExactKept DEF InboxExists
<1>5. ASSUME NEW o \in Owners, RetireOwner(o) PROVE Exact(i)'
  <2>1. Rows(i)' = Rows(i)
    BY <1>0, <1>5, RowsKept DEF RetireOwner, Present
  <2>2. /\ InboxExists(i)' => InboxExists(i)
        /\ inbox'[i].bytes_stored = inbox[i].bytes_stored
        /\ inbox'[i].message_count = inbox[i].message_count
    BY <1>0, <1>5 DEF RetireOwner, InboxExists, InboxRow
  <2>3. QED BY <1>0, <2>1, <2>2, ExactKept
<1>6. ASSUME NEW j \in Inboxes, NEW at, BeginDestroy(j, at), message' = message
      PROVE Exact(i)'
  <2>1. Rows(i)' = Rows(i)
    BY <1>0, <1>6, RowsKept DEF Present
  <2>2. /\ InboxExists(i)' => InboxExists(i)
        /\ inbox'[i].bytes_stored = inbox[i].bytes_stored
        /\ inbox'[i].message_count = inbox[i].message_count
    BY <1>0, <1>6 DEF BeginDestroy, Destroyed, InboxExists, InboxRow
  <2>3. QED BY <1>0, <2>1, <2>2, ExactKept
<1>7. ASSUME NEW t \in Tasks, RemoveMark(t) PROVE Exact(i)'
  <2>1. \A x \in Messages : Present(x)' <=> Present(x)
    BY <1>0, <1>7 DEF RemoveMark, Present, MessageRow
  <2>2. inbox' = inbox
    BY <1>7 DEF RemoveMark
  <2>3. QED BY <1>0, <2>1, <2>2, RowsKept, ExactKept DEF InboxExists
<1>8. ASSUME NEW t \in Tasks, RemoveRows(t) PROVE Exact(i)'
  <2> DEFINE mine == {m \in Doomed(t) : target[m] = i}
  <2>0. rm[t].ids \subseteq Messages
    BY DEF TypeOK, RmRow
  <2>1. mine \in SUBSET Messages /\ mine \subseteq Rows(i)
    BY <2>0 DEF Doomed, Rows, Present
  <2>2. Rows(i)' = Rows(i) \ mine
    BY <1>0, <1>8, <2>0 DEF RemoveRows, Doomed, Rows, Present, MessageRow
  <2>3. CASE InboxExists(i)
    <3>1. /\ inbox'[i].bytes_stored = inbox[i].bytes_stored - TotalSize[mine]
          /\ inbox'[i].message_count = inbox[i].message_count - Cardinality(mine)
      BY <1>0, <1>8, <2>3 DEF RemoveRows, InboxRow
    <3>2. QED BY <1>0, <2>1, <2>2, <2>3, <3>1, Measure DEF Exact
  <2>4. CASE ~InboxExists(i)
    BY <1>8, <2>4 DEF RemoveRows, Exact, InboxExists
  <2>5. QED BY <2>3, <2>4
<1>9. ASSUME NEW s \in Sweepers, EraseInbox(s) PROVE Exact(i)'
  <2>1. Rows(i)' = Rows(i)
    BY <1>0, <1>9, RowsKept DEF EraseInbox, Present
  <2>2. InboxExists(i)' => inbox'[i] = inbox[i]
    BY <1>0, <1>9 DEF EraseInbox, NoInbox, InboxExists
  <2>3. QED BY <1>0, <2>1, <2>2, ExactKept DEF InboxExists
<1>10. ASSUME NEW t \in OwnerTasks, NEW j \in Inboxes, DestroyInbox(t, j)
       PROVE Exact(i)'
  BY <1>6, <1>10 DEF DestroyInbox
<1>11. ASSUME UNCHANGED <<inbox, message>> PROVE Exact(i)'
  BY <1>0, <1>11, RowsKept, ExactKept DEF Present, InboxExists
<1>12. ASSUME NEW s \in Sweepers, AdmitOne(s) PROVE Exact(i)'
  <2>1. PICK j \in sw[s].todo :
           IF InboxExists(j) THEN BeginDestroy(j, sw[s].now)
           ELSE UNCHANGED <<prefixes, inbox>>
    BY <1>12 DEF AdmitOne
  <2>2. j \in Inboxes /\ message' = message
    BY <1>12 DEF TypeOK, SwRow, AdmitOne
  <2>3. QED BY <1>6, <1>11, <2>1, <2>2
<1> QED BY Frame, <1>1, <1>2, <1>3, <1>4, <1>5, <1>7, <1>8, <1>9, <1>10, <1>11,
           <1>12 DEF D1Step, d1

-----------------------------------------------------------------------------
(* What a step leaves alone outside D1 *)

\* The actions that touch R2.
R2Step ==
    \/ \E m \in Messages : PutLands(m) \/ StartPut(m) \/ DropObject(m)
    \/ \E t \in Tasks : RemoveObjects(t) \/ RemoveObjectsFail(t)
    \/ \E s \in Sweepers : FinalizePurge(s) \/ ReconcileDelete(s) \/ ReconcileFails(s)

LEMMA R2Frame == [Next]_vars => R2Step \/ UNCHANGED r2
<1> SUFFICES ASSUME [Next]_vars, ~R2Step PROVE UNCHANGED r2
  OBVIOUS
<1>1. CASE Tick
  BY <1>1 DEF Tick
<1>2. ASSUME NEW m \in Messages, PutLands(m) \/ Receive(m) PROVE UNCHANGED r2
  BY <1>2
  DEF R2Step, Receive, LookUp, ReadClock, Reserve, ReserveRefused, AbortLate,
      Store, StoreRefused, Recheck
<1>3. ASSUME NEW t \in OwnerTasks, DestroyInline(t) PROVE UNCHANGED r2
  BY <1>3 DEF DestroyInline
<1>4. CASE OwnerStep
  BY <1>4 DEF OwnerStep, CreateInbox, UpdateInbox, RetireOwner, DestroyInbox,
              DeleteMessage
<1>5. ASSUME NEW s \in Sweepers, Sweep(s) PROVE UNCHANGED r2
  BY <1>5
  DEF R2Step, Sweep, SwKeeps, SweepBegin, SweepExpired, SweepStale, SweepRetried,
      SweepRows, SweepDestroying, DestroyStep, FinalizeCheck, FinalizeList,
      FinalizeRelist, EraseInbox, SweepPrefixes, ReconcileList, ReconcileCheck,
      SweepAdmit, AdmitOne, SweepEnd
<1>6. ASSUME NEW t \in Tasks, Remove(t) PROVE UNCHANGED r2
  BY <1>6 DEF R2Step, Remove, RemoveMark, RemoveSelect, RemoveRows
<1>7. CASE Failures
  BY <1>7 DEF R2Step, Failures, RemoveThrows, PutFails, RxDies, SweepDies
<1>8. CASE UNCHANGED vars
  BY <1>8 DEF vars, r2
<1> QED BY <1>1, <1>2, <1>3, <1>4, <1>5, <1>6, <1>7, <1>8 DEF Next

\* Objects appear only by landing, puts only by being issued.
LEMMA Lands ==
    ASSUME [Next]_vars
    PROVE /\ blobs' \subseteq blobs \cup inflight
          /\ \A m \in inflight' : m \in inflight \/ StartPut(m)
          /\ \A m \in inflight : m \in inflight' \/ m \in blobs'
<1>1. ASSUME NEW m \in Messages, PutLands(m) \/ StartPut(m) \/ DropObject(m)
      PROVE /\ blobs' \subseteq blobs \cup inflight
            /\ \A x \in inflight' : x \in inflight \/ StartPut(x)
            /\ \A x \in inflight : x \in inflight' \/ x \in blobs'
  BY <1>1 DEF PutLands, StartPut, DropObject
<1>2. ASSUME NEW t \in Tasks, RemoveObjects(t) \/ RemoveObjectsFail(t)
      PROVE blobs' \subseteq blobs /\ inflight' = inflight
  BY <1>2 DEF RemoveObjects, RemoveObjectsFail
<1>3. ASSUME NEW s \in Sweepers,
             FinalizePurge(s) \/ ReconcileDelete(s) \/ ReconcileFails(s)
      PROVE blobs' \subseteq blobs /\ inflight' = inflight
  BY <1>3 DEF FinalizePurge, ReconcileDelete, ReconcileFails
<1>4. CASE UNCHANGED r2
  BY <1>4 DEF r2
<1>5. QED BY R2Frame, <1>1, <1>2, <1>3, <1>4 DEF R2Step

\* What the removals and the reconciliation delete is never a live receipt.
LEMMA Deletes ==
    ASSUME TypeOK, ReceiveInv, RemoveInv, SweepInv, [Next]_vars,
           NEW m \in blobs, m \notin blobs'
    PROVE message[m].state \in Ending \/ rx[m].pc = "drop_object"
<1>0. m \in Messages /\ message[m].state # "none" /\ message[m].state \in MessageStates
  BY DEF TypeOK, ReceiveInv, MessageRow
<1>1. ASSUME NEW x \in Messages, PutLands(x) \/ StartPut(x) \/ DropObject(x)
      PROVE rx[m].pc = "drop_object"
  BY <1>1 DEF PutLands, StartPut, DropObject
<1>2. ASSUME NEW t \in Tasks, RemoveObjects(t) \/ RemoveObjectsFail(t)
      PROVE message[m].state \in Ending
  BY <1>0, <1>2 DEF RemoveObjects, RemoveObjectsFail, RemoveInv
<1>3. ASSUME NEW s \in Sweepers, FinalizePurge(s) PROVE message[m].state \in Ending
  <2>1. target[m] = sw[s].at /\ Rows(sw[s].at) = {}
    BY <1>3 DEF FinalizePurge, SweepInv
  <2>2. QED BY <1>0, <2>1 DEF Rows, Present, MessageStates, Ending
<1>4. ASSUME NEW s \in Sweepers, ReconcileDelete(s) \/ ReconcileFails(s)
      PROVE message[m].state \in Ending
  <2>1. sw[s].pc = "orphans" /\ m \in sw[s].objs
    BY <1>4 DEF ReconcileDelete, ReconcileFails
  <2>2. QED BY <2>1 DEF SweepInv
<1>5. QED BY R2Frame, <1>1, <1>2, <1>3, <1>4 DEF R2Step, r2

LEMMA RxFrame ==
    ASSUME TypeOK, [Next]_vars, NEW m \in Messages
    PROVE rx'[m] = rx[m] \/ Receive(m) \/ rx'[m].pc = "unavailable"
<1>0. rx \in [Messages -> RxRow]
  BY DEF TypeOK
<1>1. CASE Tick
  BY <1>1 DEF Tick, tasks
<1>2. ASSUME NEW x \in Messages, PutLands(x) PROVE rx' = rx
  BY <1>2 DEF PutLands, tasks
<1>3. ASSUME NEW x \in Messages, Receive(x), x # m PROVE rx'[m] = rx[m]
  BY <1>0, <1>3
  DEF Receive, RxGoto, RxEnd, LookUp, ReadClock, Reserve, ReserveRefused, StartPut,
      AbortLate, Store, StoreRefused, Recheck, DropObject
<1>4. ASSUME NEW t \in OwnerTasks, DestroyInline(t) PROVE rx' = rx
  BY <1>4 DEF DestroyInline
<1>5. ASSUME OwnerStep PROVE rx' = rx
  BY <1>5 DEF OwnerStep, CreateInbox, UpdateInbox, RetireOwner, DestroyInbox,
              DeleteMessage, tasks
<1>6. ASSUME NEW s \in Sweepers, Sweep(s) PROVE rx' = rx
  BY <1>6
  DEF Sweep, SwKeeps, SweepBegin, SweepExpired, SweepStale, SweepRetried,
      SweepRows, SweepDestroying, DestroyStep, FinalizeCheck, FinalizeList,
      FinalizePurge, FinalizeRelist, EraseInbox, SweepPrefixes, ReconcileList,
      ReconcileCheck, ReconcileDelete, SweepAdmit, AdmitOne, SweepEnd
<1>7. ASSUME NEW t \in Tasks, Remove(t) PROVE rx' = rx
  BY <1>7 DEF Remove, RemoveMark, RemoveSelect, RemoveObjects, RemoveRows
<1>8. ASSUME Failures PROVE rx'[m] = rx[m] \/ rx'[m].pc = "unavailable"
  <2>1. ASSUME NEW t \in Tasks, RemoveObjectsFail(t) \/ RemoveThrows(t)
        PROVE rx' = rx
    BY <2>1 DEF RemoveObjectsFail, RemoveThrows
  <2>2. ASSUME NEW x \in Messages, PutFails(x) \/ RxDies(x)
        PROVE rx'[m] = rx[m] \/ rx'[m].pc = "unavailable"
    BY <1>0, <2>2 DEF PutFails, RxDies, RxEnd
  <2>3. ASSUME NEW s \in Sweepers, ReconcileFails(s) \/ SweepDies(s)
        PROVE rx' = rx
    BY <2>3 DEF ReconcileFails, SweepDies
  <2>4. QED BY <1>8, <2>1, <2>2, <2>3 DEF Failures
<1>9. CASE UNCHANGED vars
  BY <1>9 DEF vars, tasks
<1> QED BY <1>1, <1>2, <1>3, <1>4, <1>5, <1>6, <1>7, <1>8, <1>9 DEF Next

LEMMA SwFrame ==
    ASSUME TypeOK, [Next]_vars, NEW s \in Sweepers
    PROVE sw'[s] = sw[s] \/ Sweep(s) \/ sw'[s].pc \in {"idle", "reconcile"}
<1>0. sw \in [Sweepers -> SwRow]
  BY DEF TypeOK
<1>1. CASE Tick
  BY <1>1 DEF Tick, tasks
<1>2. ASSUME NEW m \in Messages, PutLands(m) \/ Receive(m) PROVE sw' = sw
  BY <1>2
  DEF PutLands, Receive, LookUp, ReadClock, Reserve, ReserveRefused, StartPut,
      AbortLate, Store, StoreRefused, Recheck, DropObject, tasks
<1>3. ASSUME NEW t \in OwnerTasks, DestroyInline(t) PROVE sw' = sw
  BY <1>3 DEF DestroyInline
<1>4. ASSUME OwnerStep PROVE sw' = sw
  BY <1>4 DEF OwnerStep, CreateInbox, UpdateInbox, RetireOwner, DestroyInbox,
              DeleteMessage, tasks
<1>5. ASSUME NEW x \in Sweepers, Sweep(x), x # s PROVE sw'[s] = sw[s]
  BY <1>0, <1>5
  DEF Sweep, SwGoto, SweepBegin, SweepExpired, SweepStale, SweepRetried,
      SweepRows, SweepDestroying, DestroyStep, FinalizeCheck, FinalizeList,
      FinalizePurge, FinalizeRelist, EraseInbox, SweepPrefixes, ReconcileList,
      ReconcileCheck, ReconcileDelete, SweepAdmit, AdmitOne, SweepEnd
<1>6. ASSUME NEW t \in Tasks, Remove(t) PROVE sw' = sw
  BY <1>6 DEF Remove, RemoveMark, RemoveSelect, RemoveObjects, RemoveRows
<1>7. ASSUME Failures PROVE sw'[s] = sw[s] \/ sw'[s].pc \in {"idle", "reconcile"}
  <2>1. ASSUME NEW t \in Tasks, RemoveObjectsFail(t) \/ RemoveThrows(t)
        PROVE sw'[s] = sw[s] \/ sw'[s].pc = "idle"
    BY <1>0, <2>1 DEF RemoveObjectsFail, RemoveThrows, SweepIdle
  <2>2. ASSUME NEW x \in Messages, PutFails(x) \/ RxDies(x) PROVE sw' = sw
    BY <2>2 DEF PutFails, RxDies
  <2>3. ASSUME NEW x \in Sweepers, ReconcileFails(x)
        PROVE sw'[s] = sw[s] \/ sw'[s].pc = "reconcile"
    BY <1>0, <2>3 DEF ReconcileFails, SwRow
  <2>4. ASSUME NEW x \in Sweepers, SweepDies(x)
        PROVE sw'[s] = sw[s] \/ sw'[s].pc = "idle"
    BY <1>0, <2>4 DEF SweepDies, SweepIdle
  <2>5. QED BY <1>7, <2>1, <2>2, <2>3, <2>4 DEF Failures
<1>8. CASE UNCHANGED vars
  BY <1>8 DEF vars, tasks
<1> QED BY <1>1, <1>2, <1>3, <1>4, <1>5, <1>6, <1>7, <1>8 DEF Next

LEMMA RmFrame ==
    ASSUME TypeOK, [Next]_vars, NEW t \in Tasks
    PROVE \/ rm'[t] = rm[t] \/ RemoveSelect(t) \/ RemoveObjects(t)
          \/ rm'[t].stage \in {"idle", "mark", "select"}
<1>0. rm \in [Tasks -> RmRow]
  BY DEF TypeOK
<1> USE DEF CallRemove, RemoveDone
<1>1. CASE Tick
  BY <1>1 DEF Tick, tasks
<1>2. ASSUME NEW m \in Messages, PutLands(m) \/ Receive(m)
      PROVE rm'[t] = rm[t] \/ rm'[t].stage = "mark"
  BY <1>0, <1>2
  DEF PutLands, Receive, LookUp, ReadClock, Reserve, ReserveRefused, StartPut,
      AbortLate, Store, StoreRefused, Recheck, DropObject, tasks
<1>3. ASSUME NEW x \in OwnerTasks, DestroyInline(x)
      PROVE rm'[t] = rm[t] \/ rm'[t].stage = "mark"
  BY <1>0, <1>3 DEF DestroyInline
<1>4. ASSUME OwnerStep PROVE rm'[t] = rm[t] \/ rm'[t].stage = "mark"
  <2>1. ASSUME NEW x \in OwnerTasks, NEW m \in Messages, DeleteMessage(x, m)
        PROVE rm'[t] = rm[t] \/ rm'[t].stage = "mark"
    BY <1>0, <2>1 DEF DeleteMessage
  <2>2. QED BY <1>4, <2>1 DEF OwnerStep, CreateInbox, UpdateInbox, RetireOwner,
                              DestroyInbox, tasks
<1>5. ASSUME NEW x \in Sweepers, Sweep(x)
      PROVE rm'[t] = rm[t] \/ rm'[t].stage = "mark"
  <2>1. ASSUME NEW from, NEW to, NEW batch, SweepRows(x, from, to, batch)
        PROVE rm'[t] = rm[t] \/ rm'[t].stage = "mark"
    BY <1>0, <2>1 DEF SweepRows
  <2>2. CASE DestroyStep(x)
    <3>1. rm' = rm \/ \E i \in sw[x].todo : rm' = CallRemove(x, Rows(i))
      BY <2>2 DEF DestroyStep
    <3>2. QED BY <1>0, <3>1
  <2>3. CASE SweepExpired(x) \/ SweepStale(x) \/ SweepRetried(x)
    BY <2>1, <2>3 DEF SweepExpired, SweepStale, SweepRetried
  <2>4. QED
    BY <1>5, <2>2, <2>3
    DEF Sweep, SwKeeps, SweepBegin, SweepDestroying, FinalizeCheck, FinalizeList,
        FinalizePurge, FinalizeRelist, EraseInbox, SweepPrefixes, ReconcileList,
        ReconcileCheck, ReconcileDelete, SweepAdmit, AdmitOne, SweepEnd
<1>6. ASSUME NEW x \in Tasks, Remove(x)
      PROVE \/ rm'[t] = rm[t] \/ RemoveSelect(t) \/ RemoveObjects(t)
            \/ rm'[t].stage \in {"idle", "mark", "select"}
  <2>1. CASE RemoveMark(x)
    <3>1. rm' = [rm EXCEPT ![x].stage = "select"]
      BY <2>1 DEF RemoveMark
    <3>2. QED BY <1>0, <3>1 DEF RmRow
  <2>2. CASE RemoveRows(x)
    BY <1>0, <2>2 DEF RemoveRows
  <2>3. CASE RemoveSelect(x) \/ RemoveObjects(x)
    BY <1>0, <2>3 DEF RemoveSelect, RemoveObjects
  <2>4. QED BY <1>6, <2>1, <2>2, <2>3 DEF Remove
<1>7. ASSUME Failures PROVE rm'[t] = rm[t] \/ rm'[t].stage \in {"idle", "mark"}
  <2>1. ASSUME NEW x \in Tasks, RemoveObjectsFail(x) \/ RemoveThrows(x)
        PROVE rm'[t] = rm[t] \/ rm'[t].stage = "idle"
    BY <1>0, <2>1 DEF RemoveObjectsFail, RemoveThrows
  <2>2. ASSUME NEW m \in Messages, PutFails(m) \/ RxDies(m)
        PROVE rm'[t] = rm[t] \/ rm'[t].stage \in {"idle", "mark"}
    BY <1>0, <2>2 DEF PutFails, RxDies
  <2>3. ASSUME NEW s \in Sweepers, ReconcileFails(s) \/ SweepDies(s)
        PROVE rm'[t] = rm[t] \/ rm'[t].stage = "idle"
    BY <1>0, <2>3 DEF ReconcileFails, SweepDies
  <2>4. QED BY <1>7, <2>1, <2>2, <2>3 DEF Failures
<1>8. CASE UNCHANGED vars
  BY <1>8 DEF vars, tasks
<1> QED BY <1>1, <1>2, <1>3, <1>4, <1>5, <1>6, <1>7, <1>8 DEF Next

-----------------------------------------------------------------------------
(* What invocations know *)

LEMMA SweepInvStep ==
    ASSUME TypeOK, ReceiveInv, SweepInv, [Next]_vars PROVE SweepInv'
<1> DEFINE Knows(s) ==
      /\ sw[s].pc \in {"list", "purge", "relist", "erase"}
           => /\ inbox[sw[s].at].state \in {"destroying", "gone"}
              /\ Rows(sw[s].at) = {}
      /\ sw[s].pc = "purge" => \A m \in sw[s].objs : target[m] = sw[s].at
      /\ sw[s].pc = "check" => \A m \in sw[s].objs : message[m].state # "none"
      /\ sw[s].pc = "orphans"
           => \A m \in sw[s].objs : message[m].state \in Ending
<1> SUFFICES ASSUME NEW s \in Sweepers PROVE Knows(s)'
  BY DEF SweepInv
<1>0. /\ sw \in [Sweepers -> SwRow] /\ target' = target /\ Knows(s)
      /\ sw[s].at \in Inboxes /\ sw[s].objs \subseteq Messages
      /\ sw[s].todo \subseteq Inboxes
      /\ \A m \in Messages : message[m].state \in MessageStates
  BY TargetFixed DEF TypeOK, SwRow, SweepInv, MessageRow
<1>1. CASE sw'[s] = sw[s]
  <2>1. /\ \A m \in Messages : MessageForward(m)
        /\ InboxForward(sw[s].at)
    BY <1>0, ForwardStep DEF Forward
  <2>2. ASSUME sw[s].pc \in {"list", "purge", "relist", "erase"}
        PROVE /\ inbox'[sw[s].at].state \in {"destroying", "gone"}
              /\ Rows(sw[s].at)' = {}
    <3>1. inbox[sw[s].at].state \in {"destroying", "gone"} /\ Rows(sw[s].at) = {}
      BY <1>0, <2>2
    <3>2. \A i \in Inboxes : inbox[i].state \in {"destroying", "gone"} /\ Rows(i) = {}
                            => Rows(i)' = {}
      BY RowsStayGone
    <3>3. PICK i \in Inboxes : i = sw[s].at
      BY <1>0
    <3>4. Rows(i)' = {}
      BY <3>1, <3>2, <3>3
    <3>5. QED BY <1>1, <2>1, <3>1, <3>3, <3>4 DEF InboxForward, Rows
  <2>3. \A m \in sw[s].objs :
          /\ message[m].state # "none" => message'[m].state # "none"
          /\ message[m].state \in Ending => message'[m].state \in Ending
    BY <1>0, <2>1 DEF MessageForward
  <2>4. QED BY <1>0, <1>1, <2>2, <2>3 DEF Rows
<1>2. CASE sw'[s].pc \in {"idle", "reconcile"}
  BY <1>2
<1>3. CASE Sweep(s)
  <2> USE <1>0 DEF SwGoto, SwRow
  <2>1. CASE SweepBegin(s)
    <3>1. sw'[s].pc = "expired"
      BY <2>1 DEF SweepBegin
    <3>2. QED BY <3>1
  <2>2. CASE SweepExpired(s) \/ SweepStale(s) \/ SweepRetried(s)
    <3>1. sw'[s].pc \in {"stale", "retried", "destroying"}
      BY <2>2 DEF SweepExpired, SweepStale, SweepRetried, SweepRows
    <3>2. QED BY <3>1
  <2>3. CASE SweepDestroying(s)
    <3>1. sw'[s].pc = "step"
      BY <2>3 DEF SweepDestroying
    <3>2. QED BY <3>1
  <2>4. CASE DestroyStep(s)
    <3>1. \/ sw' = [sw EXCEPT ![s].pc = "prefixes"]
          \/ \E i \in sw[s].todo :
                sw' = [sw EXCEPT ![s].pc = "finalize", ![s].at = i,
                                 ![s].todo = @ \ {i}]
      BY <2>4 DEF DestroyStep
    <3>2. CASE sw' = [sw EXCEPT ![s].pc = "prefixes"]
      BY <3>2
    <3>3. ASSUME NEW i \in sw[s].todo,
                 sw' = [sw EXCEPT ![s].pc = "finalize", ![s].at = i,
                                  ![s].todo = @ \ {i}]
          PROVE sw'[s].pc = "finalize"
      BY <3>3
    <3>4. QED BY <3>1, <3>2, <3>3
  <2>5. CASE FinalizeCheck(s)
    <3>1. CASE MayFinalize(sw[s].at)
      <4>1. /\ sw'[s].pc = "list" /\ sw'[s].at = sw[s].at
            /\ inbox' = inbox /\ message' = message
        BY <2>5, <3>1 DEF FinalizeCheck, SwKeeps, d1
      <4>2. inbox[sw[s].at].state = "destroying" /\ Rows(sw[s].at) = {}
        BY <3>1 DEF MayFinalize
      <4>3. QED BY <4>1, <4>2 DEF Rows, Present
    <3>2. CASE ~MayFinalize(sw[s].at)
      <4>1. sw'[s].pc = "step"
        BY <2>5, <3>2 DEF FinalizeCheck
      <4>2. QED BY <4>1
    <3>3. QED BY <3>1, <3>2
  <2>6. CASE FinalizeList(s)
    <3>1. /\ sw[s].pc = "list" /\ sw'[s].at = sw[s].at
          /\ sw'[s].pc \in {"erase", "purge"}
          /\ sw'[s].pc = "purge" => sw'[s].objs = Objects(sw[s].at)
          /\ inbox' = inbox /\ message' = message
      BY <2>6 DEF FinalizeList, SwKeeps, d1
    <3>2. QED BY <3>1 DEF Objects, Rows, Present
  <2>7. CASE FinalizePurge(s)
    <3>1. /\ sw[s].pc = "purge" /\ sw'[s].at = sw[s].at /\ sw'[s].pc = "relist"
          /\ inbox' = inbox /\ message' = message
      BY <2>7 DEF FinalizePurge, d1
    <3>2. QED BY <3>1 DEF Rows, Present
  <2>8. CASE FinalizeRelist(s)
    <3>1. /\ sw[s].pc = "relist" /\ sw'[s].at = sw[s].at
          /\ sw'[s].pc \in {"erase", "step"}
          /\ inbox' = inbox /\ message' = message
      BY <2>8 DEF FinalizeRelist, SwKeeps, d1
    <3>2. QED BY <3>1 DEF Rows, Present
  <2>9. CASE EraseInbox(s)
    <3>1. sw'[s].pc = "step"
      BY <2>9 DEF EraseInbox
    <3>2. QED BY <3>1
  <2>10. CASE SweepPrefixes(s)
    <3>1. sw'[s].pc = "reconcile"
      BY <2>10 DEF SweepPrefixes
    <3>2. QED BY <3>1
  <2>11. CASE ReconcileList(s)
    <3>1. /\ message' = message
          /\ \/ sw' = [sw EXCEPT ![s].pc = "admit"]
             \/ \E i \in sw[s].todo :
                   sw' = [sw EXCEPT ![s].pc = "check", ![s].at = i,
                                    ![s].todo = @ \ {i}, ![s].objs = Objects(i)]
      BY <2>11 DEF ReconcileList, SwKeeps, d1
    <3>2. CASE sw' = [sw EXCEPT ![s].pc = "admit"]
      BY <3>2
    <3>3. ASSUME NEW i \in sw[s].todo,
                 sw' = [sw EXCEPT ![s].pc = "check", ![s].at = i,
                                  ![s].todo = @ \ {i}, ![s].objs = Objects(i)]
          PROVE Knows(s)'
      <4>1. sw'[s].pc = "check" /\ sw'[s].objs = Objects(i)
        BY <3>3
      <4>2. blobs \subseteq Messages
        BY DEF TypeOK
      <4>3. \A m \in Objects(i) : message'[m].state # "none"
        BY <3>1, <4>2 DEF ReceiveInv, Objects
      <4>4. QED BY <4>1, <4>3
    <3>4. QED BY <3>1, <3>2, <3>3
  <2>12. CASE ReconcileCheck(s)
    <3>1. /\ sw[s].pc = "check" /\ sw'[s].pc = "orphans" /\ message' = message
          /\ sw'[s].objs = Orphans(sw[s].objs)
      BY <2>12 DEF ReconcileCheck, SwKeeps, d1
    <3>2. \A m \in Orphans(sw[s].objs) : message[m].state \in Ending
      BY <3>1 DEF Orphans, Ending, MessageStates
    <3>3. QED BY <3>1, <3>2
  <2>13. CASE ReconcileDelete(s)
    <3>1. sw'[s].pc = "reconcile"
      BY <2>13 DEF ReconcileDelete
    <3>2. QED BY <3>1
  <2>14. CASE SweepAdmit(s)
    <3>1. sw'[s].pc = "admitting"
      BY <2>14 DEF SweepAdmit
    <3>2. QED BY <3>1
  <2>15. CASE AdmitOne(s)
    <3>1. sw'[s].pc = "admitting"
      BY <2>15 DEF AdmitOne
    <3>2. QED BY <3>1
  <2>16. CASE SweepEnd(s)
    <3>1. sw'[s].pc = "idle"
      BY <2>16 DEF SweepEnd, SweepIdle
    <3>2. QED BY <3>1
  <2>17. QED
    BY <1>3, <2>1, <2>2, <2>3, <2>4, <2>5, <2>6, <2>7, <2>8, <2>9, <2>10, <2>11,
       <2>12, <2>13, <2>14, <2>15, <2>16 DEF Sweep
<1>4. QED BY <1>1, <1>2, <1>3, SwFrame

LEMMA RemoveInvStep ==
    ASSUME TypeOK, ReceiveInv, RemoveInv, [Next]_vars PROVE RemoveInv'
<1> SUFFICES ASSUME NEW t \in Tasks
             PROVE /\ rm'[t].stage \in {"objects", "rows"}
                         => \A m \in rm'[t].ids : message'[m].state \in Ending
                   /\ rm'[t].stage = "rows"
                         => \A m \in rm'[t].ids : \/ target'[m] \in prefixes'
                                                 \/ m \notin blobs' \cup inflight'
  BY DEF RemoveInv
<1>0. /\ rm \in [Tasks -> RmRow] /\ target' = target /\ rm[t].ids \subseteq Messages
      /\ prefixes \subseteq prefixes' /\ \A m \in Messages : MessageForward(m)
  BY TargetFixed, ForwardStep DEF TypeOK, RmRow, Forward
<1>1. CASE rm'[t] = rm[t]
  <2>1. ASSUME rm[t].stage \in {"objects", "rows"}, NEW m \in rm[t].ids
        PROVE message[m].state \in Ending /\ message'[m].state \in Ending
    BY <1>0, <2>1 DEF RemoveInv, MessageForward
  <2>2. ASSUME rm[t].stage = "rows", NEW m \in rm[t].ids, target[m] \notin prefixes'
        PROVE m \notin blobs' \cup inflight'
    <3>1. target[m] \notin prefixes /\ m \notin blobs \cup inflight
      BY <1>0, <2>2 DEF RemoveInv
    <3>2. rx[m].pc # "reserved"
      BY <1>0, <2>1, <2>2, <3>1 DEF ReceiveInv, Settled, BeforeStore
    <3>3. ~StartPut(m)
      BY <3>2 DEF StartPut
    <3>4. QED BY <3>1, <3>3, Lands
  <2>3. QED BY <1>0, <1>1, <2>1, <2>2
<1>2. CASE RemoveSelect(t)
  <2>1. message' = message
    BY <1>2 DEF RemoveSelect, d1
  <2>2. /\ rm'[t].stage \in {"idle", "objects"}
        /\ rm'[t].stage = "objects"
             => rm'[t].ids = {m \in rm[t].ids : message[m].state = "deleting"}
    BY <1>0, <1>2 DEF RemoveSelect, RemoveDone
  <2>3. QED BY <2>1, <2>2 DEF Ending
<1>3. CASE RemoveObjects(t)
  <2>1. /\ message' = message /\ prefixes' = prefixes /\ inflight' = inflight
        /\ rm[t].stage = "objects" /\ blobs' = blobs \ rm[t].ids
        /\ rm'[t].ids = rm[t].ids
    BY <1>0, <1>3 DEF RemoveObjects, d1, RmRow
  <2>2. \A m \in rm[t].ids : message[m].state \in Ending
    BY <2>1 DEF RemoveInv
  <2>3. \A m \in rm[t].ids : target[m] \in prefixes \/ m \notin inflight
    BY <1>0, <2>2 DEF ReceiveInv, Settled
  <2>4. QED BY <1>0, <2>1, <2>2, <2>3
<1>4. CASE rm'[t].stage \in {"idle", "mark", "select"}
  BY <1>4
<1>5. QED BY <1>1, <1>2, <1>3, <1>4, RmFrame

\* Where each reception state comes from.
LEMMA RxMoves ==
    ASSUME TypeOK, [Next]_vars, NEW m \in Messages
    PROVE /\ rx'[m].pc \in Early => rx[m].pc \in Early /\ ~Reserve(m)
          /\ rx'[m].pc = "reserved"
               => (rx[m].pc = "reserved" /\ ~StartPut(m)) \/ Reserve(m)
          /\ rx'[m].pc = "putting"
               => (rx[m].pc = "putting" /\ ~Store(m)) \/ StartPut(m)
          /\ rx'[m].pc = "recheck" => rx[m].pc = "recheck" \/ Store(m)
          /\ rx'[m].pc = "drop_object"
               => \/ rx[m].pc = "drop_object" \/ StoreRefused(m)
                  \/ Recheck(m) /\ ~Live(target[m])
          /\ rx'[m].pc = "drop_object" => ~DropObject(m)
          /\ Reserve(m) => rx[m].pc = "clocked"
          /\ StartPut(m) => rx[m].pc = "reserved"
          /\ Store(m) => rx[m].pc = "putting" /\ rx'[m].pc = "recheck"
<1>0. rx \in [Messages -> RxRow]
  BY DEF TypeOK
<1>1. Reserve(m) => rx[m].pc = "clocked" /\ rx'[m].pc = "reserved"
  BY <1>0 DEF Reserve, RxGoto, RxRow
<1>2. StartPut(m) => rx[m].pc = "reserved" /\ rx'[m].pc = "putting"
  BY <1>0 DEF StartPut, RxGoto, RxRow
<1>3. Store(m) => rx[m].pc = "putting" /\ rx'[m].pc = "recheck"
  BY <1>0 DEF Store, RxGoto, RxRow
<1>4. DropObject(m) => rx[m].pc = "drop_object" /\ rx'[m].pc = "not_found"
  BY <1>0 DEF DropObject, RxEnd
<1>5. LookUp(m) => rx[m].pc = "new" /\ rx'[m].pc \in {"looked_up", "not_found"}
  BY <1>0 DEF LookUp, RxRow
<1>6. ReadClock(m) => rx[m].pc = "looked_up" /\ rx'[m].pc = "clocked"
  BY <1>0 DEF ReadClock, RxRow
<1>7. ReserveRefused(m) => rx'[m].pc \in {"refused", "not_found"}
  BY <1>0 DEF ReserveRefused, RxEnd
<1>8. AbortLate(m) => rx'[m].pc = "unavailable"
  BY <1>0 DEF AbortLate, RxEnd
<1>9. Recheck(m) => \/ rx'[m].pc = "acknowledged"
                    \/ ~Live(target[m]) /\ rx'[m].pc = "drop_object"
  BY <1>0 DEF Recheck, RxEnd, RxGoto, RxRow
<1>10. StoreRefused(m) => rx'[m].pc = "drop_object"
  BY <1>0 DEF StoreRefused, RxGoto, RxRow
<1>11. QED
  BY RxFrame, <1>1, <1>2, <1>3, <1>4, <1>5, <1>6, <1>7, <1>8, <1>9, <1>10
  DEF Receive, Early

LEMMA ReceiveInvStep ==
    ASSUME TypeOK, RowsInv, ReceiveInv, RemoveInv, SweepInv, [Next]_vars
    PROVE ReceiveInv'
<1> SUFFICES ASSUME NEW m \in Messages
    PROVE /\ rx'[m].pc \in Early => message'[m].state = "none"
          /\ message'[m].state = "none" => m \notin blobs' \cup inflight'
          /\ rx'[m].pc \in {"reserved", "putting", "recheck", "drop_object"}
               => message'[m].state # "none"
          /\ rx'[m].pc = "reserved" => m \notin blobs' \cup inflight'
          /\ rx'[m].pc = "putting" /\ message'[m].state = "pending"
               => m \in blobs' \cup inflight'
          /\ rx'[m].pc = "drop_object" /\ message'[m].state = "stored"
               => ~Live(target[m])'
          /\ Settled(m)' => m \notin inflight' /\ rx'[m].pc \notin BeforeStore
  <2>1. target' = target
    BY TargetFixed
  <2>2. QED BY <2>1 DEF ReceiveInv, Live
<1>0. /\ rx \in [Messages -> RxRow] /\ target[m] \in Inboxes /\ target' = target
      /\ message \in [Messages -> MessageRow] /\ MessageForward(m)
      /\ message[m].state \in MessageStates /\ message'[m].state \in MessageStates
      /\ prefixes \subseteq prefixes'
  <2>1. TypeOK'
    BY TypeStep
  <2>2. QED BY <2>1, TargetFixed, ForwardStep DEF TypeOK, Forward, MessageRow
\* What holds of m before the step.
<1>a. /\ rx[m].pc \in Early => message[m].state = "none"
      /\ message[m].state = "none" => m \notin blobs \cup inflight
      /\ rx[m].pc \in {"reserved", "putting", "recheck", "drop_object"}
           => message[m].state # "none"
      /\ rx[m].pc = "reserved" => m \notin blobs \cup inflight
      /\ rx[m].pc = "putting" /\ message[m].state = "pending"
           => m \in blobs \cup inflight
      /\ rx[m].pc = "drop_object" /\ message[m].state = "stored"
           => ~Live(target[m])
      /\ Settled(m) => m \notin inflight /\ rx[m].pc \notin BeforeStore
  BY DEF ReceiveInv
\* What any step does to the row, to its liveness and to being settled.
<1>b. /\ message[m].state # "none" => message'[m].state # "none"
      /\ message[m].state = "none" => message'[m].state = "none" \/ Reserve(m)
      /\ message'[m].state = "pending" => message[m].state = "pending" \/ Reserve(m)
      /\ message'[m].state = "stored" => message[m].state = "stored" \/ Store(m)
  BY <1>0 DEF MessageForward
<1>c. message[m].state # "none" /\ Live(target[m])' => Live(target[m])
  BY <1>0, LiveStays DEF RowsInv
<1>d. Settled(m)' => Settled(m) \/ Store(m)
  <2>1. Reserve(m) => message'[m].state = "pending"
    BY <1>0 DEF Reserve
  <2>2. QED BY <1>0, <2>1 DEF Settled, MessageForward, Ending, MessageStates
<1>e. /\ m \in inflight' => m \in inflight \/ StartPut(m)
      /\ m \in blobs' => m \in blobs \cup inflight
      /\ m \in inflight => m \in inflight' \cup blobs'
  BY Lands
<1>1. rx'[m].pc \in Early => message'[m].state = "none"
  BY <1>a, <1>b, RxMoves
<1>2. message'[m].state = "none" => m \notin blobs' \cup inflight'
  BY <1>a, <1>b, <1>e, RxMoves
<1>3. rx'[m].pc \in {"reserved", "putting", "recheck", "drop_object"}
        => message'[m].state # "none"
  <2>1. Reserve(m) => message'[m].state # "none"
    BY <1>0 DEF Reserve
  <2>2. Store(m) => message[m].state # "none"
    BY DEF Store, Storable
  <2>3. StoreRefused(m) => rx[m].pc = "putting"
    BY DEF StoreRefused
  <2>4. Recheck(m) => rx[m].pc = "recheck"
    BY DEF Recheck
  <2>5. StartPut(m) => rx[m].pc = "reserved"
    BY DEF StartPut
  <2>6. QED BY <1>a, <1>b, <2>1, <2>2, <2>3, <2>4, <2>5, RxMoves
<1>4. rx'[m].pc = "reserved" => m \notin blobs' \cup inflight'
  <2>1. Reserve(m) => blobs' = blobs /\ inflight' = inflight
    BY DEF Reserve, r2
  <2>2. QED BY <1>a, <1>e, <2>1, RxMoves DEF Early
<1>5. rx'[m].pc = "putting" /\ message'[m].state = "pending"
        => m \in blobs' \cup inflight'
  <2>1. StartPut(m) => m \in inflight'
    BY DEF StartPut
  <2>2. rx'[m].pc = "putting" => ~Reserve(m)
    <3>1. Reserve(m) => rx'[m].pc = "reserved"
      BY <1>0 DEF Reserve, RxGoto, RxRow
    <3>2. QED BY <3>1
  <2>3. m \in blobs /\ m \notin blobs' /\ rx[m].pc = "putting"
          => message[m].state \in Ending
    BY Deletes
  <2>4. QED BY <1>a, <1>b, <1>e, <2>1, <2>2, <2>3, RxMoves DEF Ending
<1>6. rx'[m].pc = "drop_object" /\ message'[m].state = "stored" => ~Live(target[m])'
  <2>1. Store(m) => rx'[m].pc = "recheck"
    BY RxMoves
  <2>2. StoreRefused(m) => rx[m].pc = "putting"
    BY DEF StoreRefused
  <2>3. rx[m].pc = "putting" => message[m].state # "stored"
    BY <1>a DEF Settled, BeforeStore
  <2>4. QED BY <1>a, <1>b, <1>c, <2>1, <2>2, <2>3, RxMoves
<1>7. Settled(m)' => m \notin inflight' /\ rx'[m].pc \notin BeforeStore
  <2>1. CASE Store(m)
    <3>1. m \notin inflight /\ inflight' = inflight /\ rx'[m].pc = "recheck"
      BY <2>1, RxMoves DEF Store, r2
    <3>2. QED BY <3>1 DEF BeforeStore, Early
  <2>2. CASE Settled(m) /\ ~Store(m)
    <3>1. m \notin inflight /\ rx[m].pc \notin BeforeStore
      BY <1>a, <2>2
    <3>2. ~StartPut(m) /\ ~Reserve(m)
      BY <3>1, RxMoves DEF BeforeStore, Early
    <3>3. rx'[m].pc \in BeforeStore => rx[m].pc \in BeforeStore
      BY <3>2, RxMoves DEF BeforeStore
    <3>4. QED BY <1>e, <3>1, <3>2, <3>3
  <2>3. QED BY <1>d, <2>1, <2>2
<1> QED BY <1>1, <1>2, <1>3, <1>4, <1>5, <1>6, <1>7

LEMMA ObjectsTrackedStep ==
    ASSUME TypeOK, ReceiveInv, RemoveInv, ObjectsTracked, [Next]_vars
    PROVE ObjectsTracked'
<1>0. /\ target' = target /\ prefixes \subseteq prefixes'
      /\ \A m \in Messages : MessageForward(m) /\ message[m].state \in MessageStates
      /\ \A m \in Messages : message'[m].state \in MessageStates
      /\ blobs' \cup inflight' \subseteq Messages
  <2>1. TypeOK'
    BY TypeStep
  <2>2. QED BY <2>1, TargetFixed, ForwardStep DEF TypeOK, Forward, MessageRow
<1>1. SUFFICES ASSUME NEW m \in Messages, m \in blobs' \cup inflight',
                      target[m] \notin prefixes'
               PROVE message'[m].state \in {"pending", "stored", "deleting"}
  BY <1>0 DEF ObjectsTracked, Present
<1>2. CASE m \in blobs \cup inflight
  <2>1. message[m].state \in {"pending", "stored", "deleting"}
    BY <1>0, <1>1, <1>2 DEF ObjectsTracked, Present
  <2>2. ~\E t \in Tasks : rm[t].stage = "rows" /\ m \in rm[t].ids
    BY <1>0, <1>1, <1>2 DEF RemoveInv
  <2>3. message'[m].state \notin {"none", "gone"}
    BY <1>0, <2>1, <2>2 DEF MessageForward
  <2>4. QED BY <1>0, <2>3 DEF MessageStates
<1>3. CASE m \notin blobs \cup inflight
  <2>1. StartPut(m)
    BY <1>1, <1>3, Lands
  <2>2. rx[m].pc = "reserved" /\ message' = message
    BY <2>1 DEF StartPut, d1
  <2>3. message[m].state # "none" /\ ~Settled(m)
    BY <2>2 DEF ReceiveInv, BeforeStore
  <2>4. QED BY <1>0, <1>1, <2>2, <2>3 DEF Settled, Ending, MessageStates
<1>4. QED BY <1>2, <1>3

LEMMA VisibleStep ==
    ASSUME TypeOK, RowsInv, ReceiveInv, RemoveInv, SweepInv, VisibleHasObject,
           [Next]_vars
    PROVE VisibleHasObject'
<1>0. target' = target
  BY TargetFixed
<1>1. SUFFICES ASSUME NEW m \in Messages, message'[m].state = "stored",
                      Live(target[m])'
               PROVE m \in blobs'
  BY <1>0 DEF VisibleHasObject, Live
<1>2. CASE Store(m)
  BY <1>2 DEF Store, Storable, ReceiveInv, r2
<1>3. CASE ~Store(m)
  <2>1. message[m].state = "stored" /\ target[m] \in Inboxes
    BY <1>1, <1>3, ForwardStep DEF Forward, MessageForward, TypeOK
  <2>2. Live(target[m])
    BY <1>0, <1>1, <2>1, LiveStays DEF RowsInv
  <2>3. m \in blobs /\ rx[m].pc # "drop_object"
    BY <2>1, <2>2 DEF VisibleHasObject, ReceiveInv
  <2>4. QED BY <2>1, <2>3, Deletes DEF Ending
<1>4. QED BY <1>2, <1>3

-----------------------------------------------------------------------------
(* The invariant, and what follows from it *)

LEMMA InvariantInit == Init => IInv
<1> SUFFICES ASSUME Init PROVE IInv
  OBVIOUS
<1>1. TypeOK
  BY InitType
<1>2. /\ \A i \in Inboxes : inbox[i].state = "none"
      /\ \A m \in Messages : message[m].state = "none" /\ rx[m].pc = "new"
      /\ \A t \in Tasks : rm[t].stage = "idle"
      /\ \A s \in Sweepers : sw[s].pc = "idle"
      /\ blobs = {} /\ inflight = {}
  BY DEF Init, NoInbox, SweepIdle
<1>3. RowsInv /\ EndedInv /\ CountersExact /\ ObjectsTracked /\ VisibleHasObject
  BY <1>2 DEF RowsInv, EndedInv, CountersExact, InboxExists, ObjectsTracked,
              VisibleHasObject
<1>4. ReceiveInv
  BY <1>2 DEF ReceiveInv, Settled, Ending
<1>5. RemoveInv /\ SweepInv
  BY <1>2 DEF RemoveInv, SweepInv
<1>6. QED BY <1>1, <1>3, <1>4, <1>5 DEF IInv

LEMMA InvariantStep == IInv /\ [Next]_vars => IInv'
<1> SUFFICES ASSUME IInv, [Next]_vars PROVE IInv'
  OBVIOUS
<1> USE DEF IInv
<1>1. TypeOK'
  BY TypeStep
<1>2. RowsInv' /\ EndedInv'
  BY RowsInvStep, EndedInvStep
<1>3. ReceiveInv' /\ RemoveInv' /\ SweepInv'
  BY ReceiveInvStep, RemoveInvStep, SweepInvStep
<1>4. CountersExact' /\ ObjectsTracked' /\ VisibleHasObject'
  BY CountersStep, ObjectsTrackedStep, VisibleStep
<1>5. QED BY <1>1, <1>2, <1>3, <1>4

\* In every reachable state the tables, the objects and what every invocation
\* remembers across its awaits agree.
THEOREM InvariantHolds == Spec => []IInv
  BY InvariantInit, InvariantStep, PTL DEF Spec

\* The reservation counters of an inbox equal the bytes and the number of its
\* rows, whatever receivers, removals and sweeps overlap, crash or repeat.
THEOREM CountersAreExact == Spec => []CountersExact
<1>1. IInv => CountersExact
  BY DEF IInv
<1>2. QED BY <1>1, InvariantHolds, PTL

\* No received bytes are forgotten in R2: an object that exists or may still
\* land has a row or a cleanup prefix.
THEOREM ObjectsAreTracked == Spec => []ObjectsTracked
<1>1. IInv => ObjectsTracked
  BY DEF IInv
<1>2. QED BY <1>1, InvariantHolds, PTL

\* A stored receipt of a live inbox has its bytes, whatever cleanup overlaps
\* its reception.
THEOREM VisibleReceiptsHaveObjects == Spec => []VisibleHasObject
<1>1. IInv => VisibleHasObject
  BY DEF IInv
<1>2. QED BY <1>1, InvariantHolds, PTL

\* A finalized inbox has no rows left and its prefix stays tracked.
THEOREM ErasureIsComplete == Spec => []ErasedLeavesNothing
<1>1. IInv => ErasedLeavesNothing
  BY DEF IInv, EndedInv, ErasedLeavesNothing
<1>2. QED BY <1>1, InvariantHolds, PTL

\* A retired account generation has no active inbox, ever again.
THEOREM RetirementFences == Spec => []RetiredOwnerFenced
<1>1. IInv => RetiredOwnerFenced
  BY DEF IInv, EndedInv, RetiredOwnerFenced
<1>2. QED BY <1>1, InvariantHolds, PTL

LEMMA LifetimeShortens ==
    ASSUME TypeOK, [Next]_vars, NEW i \in Inboxes, InboxExists(i) PROVE Shortened(i)
<1> SUFFICES ASSUME inbox[i].state = "active", inbox'[i].state = "active"
             PROVE \/ inbox'[i].expires_at = inbox[i].expires_at
                   \/ Reaches(inbox[i].expires_at, inbox'[i].expires_at)
  BY DEF Shortened
<1> DEFINE P == \/ inbox'[i].expires_at = inbox[i].expires_at
                \/ Reaches(inbox[i].expires_at, inbox'[i].expires_at)
<1>0. inbox \in [Inboxes -> InboxRow] /\ target \in [Messages -> Inboxes]
  BY DEF TypeOK
<1> USE <1>0 DEF InboxRow
<1>1. ASSUME NEW m \in Messages, Reserve(m) \/ Store(m) PROVE P
  BY <1>1 DEF Reserve, Store
<1>2. ASSUME NEW o \in Owners, NEW j \in Inboxes,
             NEW ttl \in Lifetimes \cup {Never}, CreateInbox(o, j, ttl)
      PROVE P
  <2>1. j # i
    BY <1>2 DEF CreateInbox
  <2>2. QED BY <1>2, <2>1 DEF CreateInbox
<1>3. ASSUME NEW j \in Inboxes, NEW ttl \in Lifetimes, UpdateInbox(j, ttl)
      PROVE P
  BY <1>3 DEF UpdateInbox, Shortens
<1>4. ASSUME NEW o \in Owners, RetireOwner(o) PROVE P
  BY <1>4 DEF RetireOwner
<1>5. ASSUME NEW j \in Inboxes, NEW at, BeginDestroy(j, at) PROVE P
  BY <1>5 DEF BeginDestroy, Destroyed
<1>6. ASSUME NEW t \in OwnerTasks, NEW j \in Inboxes, DestroyInbox(t, j) PROVE P
  BY <1>5, <1>6 DEF DestroyInbox
<1>7. ASSUME NEW t \in Tasks, RemoveMark(t) \/ RemoveRows(t) PROVE P
  BY <1>7 DEF RemoveMark, RemoveRows
<1>8. ASSUME NEW s \in Sweepers, EraseInbox(s) PROVE P
  BY <1>8 DEF EraseInbox, NoInbox
<1>9. ASSUME NEW s \in Sweepers, AdmitOne(s) PROVE P
  <2>1. PICK j \in sw[s].todo :
           IF InboxExists(j) THEN BeginDestroy(j, sw[s].now)
           ELSE UNCHANGED <<prefixes, inbox>>
    BY <1>9 DEF AdmitOne
  <2>2. j \in Inboxes
    BY DEF TypeOK, SwRow
  <2>3. QED BY <1>5, <2>1, <2>2
<1>10. ASSUME UNCHANGED d1 PROVE P
  BY <1>10 DEF d1
<1> QED BY Frame, <1>1, <1>2, <1>3, <1>4, <1>6, <1>7, <1>8, <1>9, <1>10 DEF D1Step

\* A lifetime is never lengthened, and an endpoint that ended, by expiry,
\* destruction or its owner's retirement, is never live again.
THEOREM EndingIsFinal == Spec => EndedStaysEnded
<1>1. IInv /\ [Next]_vars
        => [\A i \in Inboxes : InboxExists(i) => Ends(i) /\ Shortened(i)]_vars
  <2> SUFFICES ASSUME IInv, [Next]_vars, NEW i \in Inboxes, InboxExists(i)
               PROVE Ends(i) /\ Shortened(i)
    OBVIOUS
  <2>1. inbox[i].state # "none"
    BY DEF InboxExists
  <2>2. QED BY <2>1, LiveStays, LifetimeShortens DEF IInv, Ends
<1>2. QED BY <1>1, InvariantHolds, PTL DEF Spec, EndedStaysEnded
=============================================================================
