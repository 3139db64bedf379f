----------------------------- MODULE InboxStore -----------------------------
(***************************************************************************)
(* Reception, removal and destruction in the inbox Worker                  *)
(* (src/inbox/src/worker.js): D1 rows, R2 objects and the Worker           *)
(* invocations that touch both.                                            *)
(*                                                                         *)
(* A D1 batch is one transaction, so it is one action; every await between *)
(* two D1 or R2 calls is a point where another invocation may run, so the  *)
(* calls of one invocation are separate actions.  An R2 put that has been  *)
(* issued may land at any later time, even after its caller saw an error   *)
(* or was evicted.                                                         *)
(*                                                                         *)
(* The inboxes here need no sender authorisation (type 'email' with no     *)
(* policy, or an open 'http' inbox).                                       *)
(*                                                                         *)
(* A definition named Mutant... is what a plausible bug would make of the  *)
(* one after it; nothing uses it but the mutation runs.                    *)
(***************************************************************************)
EXTENDS Integers, FiniteSets, FiniteSetsExt

CONSTANTS
    Owners,             \* account generations
    Inboxes,            \* inbox ids; addresses are never reused
    Messages,           \* message ids, one for each reception request
    OwnerTasks,         \* concurrent owner RPC invocations
    Sweepers,           \* scheduled invocations that may overlap
    Never,              \* the NULL of inboxes.expires_at
    TotalSize,          \* bytes of a set of messages
    Lifetimes,          \* ttl_seconds an owner may ask for
    MaxInboxBytes, MaxOwnerBytes, MaxInboxMessages, MaxDailyReceipts,
    MaxInboxesPerOwner,
    Retention,          \* RETENTION_SECONDS
    Quiesce,            \* DESTROY_QUIESCE_SECONDS
    DayLength,          \* seconds of a UTC day
    MaxTime,            \* bound of the model's clock
    MaxFaults           \* bound on failed calls and evicted invocations

\* A size is a finitely additive measure on sets of messages.
ASSUME SizeAssumption ==
    /\ TotalSize \in [SUBSET Messages -> Nat]
    /\ \A A, B \in SUBSET Messages :
          A \cap B = {} => TotalSize[A \cup B] = TotalSize[A] + TotalSize[B]

ASSUME LimitsAssumption ==
    /\ {MaxInboxBytes, MaxOwnerBytes, MaxInboxMessages, MaxDailyReceipts,
        MaxInboxesPerOwner, Retention, Quiesce, MaxTime,
        MaxFaults} \subseteq Nat
    /\ DayLength \in Nat \ {0}
    /\ Lifetimes \subseteq Nat \ {0}
    /\ Never \notin Int

ASSUME IdAssumption ==
    /\ IsFiniteSet(Messages) /\ IsFiniteSet(Inboxes)
    /\ Messages \cap OwnerTasks = {}
    /\ Messages \cap Sweepers = {}
    /\ OwnerTasks \cap Sweepers = {}
    /\ Owners # {} /\ Inboxes # {}

VARIABLES
    now,        \* unixepoch()
    retired,    \* table retired_owners
    inbox,      \* table inboxes
    message,    \* table messages, with its row of table events
    prefixes,   \* table cleanup_prefixes
    target,     \* the inbox each reception request is addressed to
    blobs,      \* R2 objects that exist
    inflight,   \* R2 puts issued and not yet landed
    rx,         \* reception invocations
    ot,         \* owner RPC invocations
    sw,         \* scheduled invocations
    rm,         \* each invocation's call of removeMessages
    faults      \* failures so far

d1 == <<retired, inbox, message, prefixes>>
r2 == <<blobs, inflight>>
tasks == <<rx, ot, sw, rm>>
vars == <<now, d1, target, r2, tasks, faults>>

Tasks == Messages \cup OwnerTasks \cup Sweepers

-----------------------------------------------------------------------------
(* Rows *)

\* "none": never inserted; "gone": row deleted.
InboxStates == {"none", "active", "destroying", "gone"}
MessageStates == {"none", "pending", "stored", "deleting", "gone"}

InboxRow ==
    [state : InboxStates, owner : Owners,
     expires_at : {Never} \cup Nat, destroy_requested_at : Int,
     bytes_stored : Int, message_count : Int, day : Int, day_count : Int,
     event_seq : Nat]

MessageRow ==
    [state : MessageStates, received_at : Nat, seq : Nat]

\* Where a field has no value yet.
AnInbox == CHOOSE i \in Inboxes : TRUE
AnOwner == CHOOSE o \in Owners : TRUE

NoInbox ==
    [state |-> "none", owner |-> AnOwner, expires_at |-> Never,
     destroy_requested_at |-> 0, bytes_stored |-> 0, message_count |-> 0,
     day |-> -1, day_count |-> 0, event_seq |-> 0]

Present(m) == message[m].state \in {"pending", "stored", "deleting"}
Rows(i) == {m \in Messages : target[m] = i /\ Present(m)}
InboxExists(i) == inbox[i].state \in {"active", "destroying"}
OwnedBy(o) == {i \in Inboxes : InboxExists(i) /\ inbox[i].owner = o}
Objects(i) == {m \in blobs : target[m] = i}
Size(m) == TotalSize[{m}]
Day(t) == t \div DayLength

\* Whether lifetime e (Never: none) is longer than, or reaches, time t.
Outlives(e, t) == IF e = Never THEN TRUE ELSE e > t
Reaches(e, t) == IF e = Never THEN TRUE ELSE e >= t

\* The LIVE predicate: active, inside its lifetime, owner not retired.
MutantLive(i) ==
    /\ Outlives(inbox[i].expires_at, now)
    /\ inbox[i].owner \notin retired

MutantLiveLate(i) ==
    /\ inbox[i].state = "active"
    /\ inbox[i].owner \notin retired

Live(i) ==
    /\ inbox[i].state = "active"
    /\ Outlives(inbox[i].expires_at, now)
    /\ inbox[i].owner \notin retired

OwnerBytes(o) == MapThenSumSet(LAMBDA i : inbox[i].bytes_stored, OwnedBy(o))

RxStates == {"new", "looked_up", "clocked", "reserved", "putting", "recheck",
             "drop_object", "acknowledged", "not_found", "refused",
             "unavailable"}
RxDone == {"acknowledged", "not_found", "refused", "unavailable"}
RmStages == {"idle", "mark", "select", "objects", "rows"}
SwStates == {"idle", "expired", "stale", "retried", "destroying", "step",
             "finalize", "list", "purge", "relist", "erase", "prefixes",
             "reconcile", "check", "orphans", "admit", "admitting"}

RxRow == [pc : RxStates, clock : Nat, started : Nat]
OtRow == [pc : {"idle", "step"}, at : Inboxes]
RmRow == [stage : RmStages, ids : SUBSET Messages]
SwRow == [pc : SwStates, now : Nat, todo : SUBSET Inboxes, at : Inboxes,
          objs : SUBSET Messages, fin : Nat]

\* Every variable has its shape.
TypeOK ==
    /\ now \in Nat /\ faults \in Nat
    /\ retired \subseteq Owners
    /\ inbox \in [Inboxes -> InboxRow]
    /\ message \in [Messages -> MessageRow]
    /\ prefixes \subseteq Inboxes
    /\ target \in [Messages -> Inboxes]
    /\ blobs \subseteq Messages /\ inflight \subseteq Messages
    /\ rx \in [Messages -> RxRow]
    /\ ot \in [OwnerTasks -> OtRow]
    /\ sw \in [Sweepers -> SwRow]
    /\ rm \in [Tasks -> RmRow]

SweepIdle == [pc |-> "idle", now |-> 0, todo |-> {}, at |-> AnInbox,
              objs |-> {}, fin |-> 0]

Init ==
    /\ now = 0 /\ faults = 0 /\ retired = {} /\ prefixes = {}
    /\ inbox = [i \in Inboxes |-> NoInbox]
    /\ message = [m \in Messages |->
                    [state |-> "none", received_at |-> 0, seq |-> 0]]
    /\ target \in [Messages -> Inboxes]
    /\ blobs = {} /\ inflight = {}
    /\ rx = [m \in Messages |-> [pc |-> "new", clock |-> 0, started |-> 0]]
    /\ ot = [t \in OwnerTasks |-> [pc |-> "idle", at |-> AnInbox]]
    /\ sw = [s \in Sweepers |-> SweepIdle]
    /\ rm = [t \in Tasks |-> [stage |-> "idle", ids |-> {}]]

-----------------------------------------------------------------------------
(* The clock and the object store *)

Tick ==
    /\ now < MaxTime
    /\ now' = now + 1
    /\ UNCHANGED <<d1, target, r2, tasks, faults>>

PutLands(m) ==
    /\ m \in inflight
    /\ inflight' = inflight \ {m}
    /\ blobs' = blobs \cup {m}
    /\ UNCHANGED <<now, d1, target, tasks, faults>>

Fault == faults < MaxFaults /\ faults' = faults + 1

-----------------------------------------------------------------------------
(* removeMessages: mark, select, delete objects, delete rows *)

CallRemove(t, ids) == [rm EXCEPT ![t] = [stage |-> "mark", ids |-> ids]]
RemoveDone(t) == [rm EXCEPT ![t] = [stage |-> "idle", ids |-> {}]]

\* Inboxes to track: a pending row may have a put in flight.
MutantHomes(ids) == {target[m] : m \in {x \in ids : message[x].state = "deleting"}}
PendingHomes(ids) == {target[m] : m \in {x \in ids : message[x].state = "pending"}}

RemoveMark(t) ==
    /\ rm[t].stage = "mark"
    /\ prefixes' = prefixes \cup PendingHomes(rm[t].ids)
    /\ message' = [m \in Messages |->
          IF m \in rm[t].ids /\ Present(m)
          THEN [message[m] EXCEPT !.state = "deleting"] ELSE message[m]]
    /\ rm' = [rm EXCEPT ![t].stage = "select"]
    /\ UNCHANGED <<now, retired, inbox, target, r2, rx, ot, sw, faults>>

RemoveSelect(t) ==
    /\ rm[t].stage = "select"
    /\ LET rows == {m \in rm[t].ids : message[m].state = "deleting"} IN
       rm' = IF rows = {} THEN RemoveDone(t)
             ELSE [rm EXCEPT ![t] = [stage |-> "objects", ids |-> rows]]
    /\ UNCHANGED <<now, d1, target, r2, rx, ot, sw, faults>>

RemoveObjects(t) ==
    /\ rm[t].stage = "objects"
    /\ blobs' = blobs \ rm[t].ids
    /\ rm' = [rm EXCEPT ![t].stage = "rows"]
    /\ UNCHANGED <<now, d1, target, inflight, rx, ot, sw, faults>>

\* A failed delete may have removed some of the objects; the rows stay deleting.
RemoveObjectsFail(t) ==
    /\ rm[t].stage = "objects"
    /\ Fault
    /\ \E some \in SUBSET rm[t].ids : blobs' = blobs \ some
    /\ rm' = RemoveDone(t)
    /\ UNCHANGED <<now, d1, target, inflight, rx, ot, sw>>

\* The rows a final batch takes: it rechecks that they are still deleting.
MutantDoomed(t) == rm[t].ids
Doomed(t) == {m \in rm[t].ids : message[m].state = "deleting"}

RemoveRows(t) ==
    /\ rm[t].stage = "rows"
    /\ LET rows == Doomed(t) IN
       /\ inbox' = [i \in Inboxes |->
             LET mine == {m \in rows : target[m] = i} IN
             IF InboxExists(i)
             THEN [inbox[i] EXCEPT
                     !.bytes_stored = @ - TotalSize[mine],
                     !.message_count = @ - Cardinality(mine)]
             ELSE inbox[i]]
       /\ message' = [m \in Messages |->
             IF m \in rows THEN [message[m] EXCEPT !.state = "gone", !.seq = 0]
             ELSE message[m]]
    /\ rm' = RemoveDone(t)
    /\ UNCHANGED <<now, retired, prefixes, target, r2, rx, ot, sw, faults>>

\* A D1 call throws, before or after its batch took effect.  The receiver and
\* destroyInbox catch it; deleteMessage answers 'unavailable'; a sweep ends.
RemoveThrows(t) ==
    /\ rm[t].stage # "idle"
    /\ Fault
    /\ rm' = RemoveDone(t)
    /\ sw' = IF t \in Sweepers THEN [sw EXCEPT ![t] = SweepIdle] ELSE sw
    /\ UNCHANGED <<now, d1, target, r2, rx, ot>>

Remove(t) ==
    \/ RemoveMark(t) \/ RemoveSelect(t)
    \/ RemoveObjects(t) \/ RemoveRows(t)

-----------------------------------------------------------------------------
(* Reception: look up, reserve, put, mark stored, recheck *)

\* A clock reading is forgotten once nothing later uses it.
RxGoto(m, pc) == rx' = [rx EXCEPT ![m].pc = pc, ![m].clock = 0]
RxEnd(m, pc) ==
    rx' = [rx EXCEPT ![m] = [pc |-> pc, clock |-> 0, started |-> 0]]

\* handleFetch/handleEmail find a live inbox; startedMs is taken.
LookUp(m) ==
    /\ rx[m].pc = "new"
    /\ rx' = IF Live(target[m])
             THEN [rx EXCEPT ![m].pc = "looked_up", ![m].started = now]
             ELSE [rx EXCEPT ![m].pc = "not_found"]
    /\ UNCHANGED <<now, d1, target, r2, ot, sw, rm, faults>>

\* After the body is read, reserve takes now and today from the Worker's clock.
ReadClock(m) ==
    /\ rx[m].pc = "looked_up"
    /\ rx' = [rx EXCEPT ![m].pc = "clocked", ![m].clock = now]
    /\ UNCHANGED <<now, d1, target, r2, ot, sw, rm, faults>>

\* The quota conjuncts of the INSERT ... SELECT.
MutantFitsStored(m, i) ==
    /\ inbox[i].bytes_stored <= MaxInboxBytes
    /\ inbox[i].message_count + 1 <= MaxInboxMessages
    /\ inbox[i].day # Day(rx[m].clock) \/ inbox[i].day_count < MaxDailyReceipts
    /\ OwnerBytes(inbox[i].owner) <= MaxOwnerBytes

Fits(m, i) ==
    /\ inbox[i].bytes_stored + Size(m) <= MaxInboxBytes
    /\ inbox[i].message_count + 1 <= MaxInboxMessages
    /\ inbox[i].day # Day(rx[m].clock) \/ inbox[i].day_count < MaxDailyReceipts
    /\ OwnerBytes(inbox[i].owner) + Size(m) <= MaxOwnerBytes

\* One batch: the pending row and, iff it was inserted, the counters.
Reserve(m) ==
    LET i == target[m]
        today == Day(rx[m].clock) IN
    /\ rx[m].pc = "clocked"
    /\ Live(i) /\ Fits(m, i)
    /\ message' = [message EXCEPT ![m] =
          [state |-> "pending", received_at |-> rx[m].clock, seq |-> 0]]
    /\ inbox' = [inbox EXCEPT
          ![i].bytes_stored = @ + Size(m),
          ![i].message_count = @ + 1,
          ![i].day_count = IF inbox[i].day = today THEN @ + 1 ELSE 1,
          ![i].day = today]
    /\ RxGoto(m, "reserved")
    /\ UNCHANGED <<now, retired, prefixes, target, r2, ot, sw, rm, faults>>

\* No row was inserted: 404, 429 or 507 from a follow-up read.
ReserveRefused(m) ==
    /\ rx[m].pc = "clocked"
    /\ ~(Live(target[m]) /\ Fits(m, target[m]))
    /\ RxEnd(m, IF Live(target[m]) THEN "refused" ELSE "not_found")
    /\ UNCHANGED <<now, d1, target, r2, ot, sw, rm, faults>>

\* A receiver that has already run too long gives up before writing.
TooLate(m) == now - rx[m].started > Quiesce \div 3

StartPut(m) ==
    /\ rx[m].pc = "reserved" /\ ~TooLate(m)
    /\ inflight' = inflight \cup {m}
    /\ RxGoto(m, "putting")
    /\ UNCHANGED <<now, d1, target, blobs, ot, sw, rm, faults>>

AbortLate(m) ==
    /\ rx[m].pc = "reserved" /\ TooLate(m)
    /\ RxEnd(m, "unavailable")
    /\ rm' = CallRemove(m, {m})
    /\ UNCHANGED <<now, d1, target, r2, ot, sw, faults>>

\* The put throws; it may have landed, or may still land.
PutFails(m) ==
    /\ rx[m].pc = "putting"
    /\ Fault
    /\ RxEnd(m, "unavailable")
    /\ rm' = CallRemove(m, {m})
    /\ UNCHANGED <<now, d1, target, r2, ot, sw>>

\* The put returned; one batch marks the row stored and appends its event.
MutantStorable(m) == message[m].state \in {"pending", "deleting"} /\ Live(target[m])
Storable(m) == message[m].state = "pending" /\ Live(target[m])

Store(m) ==
    /\ rx[m].pc = "putting" /\ m \notin inflight
    /\ Storable(m)
    /\ message' = [message EXCEPT ![m].state = "stored",
                     ![m].seq = inbox[target[m]].event_seq + 1]
    /\ inbox' = [inbox EXCEPT ![target[m]].event_seq = @ + 1]
    /\ RxGoto(m, "recheck")
    /\ UNCHANGED <<now, retired, prefixes, target, r2, ot, sw, rm, faults>>

StoreRefused(m) ==
    /\ rx[m].pc = "putting" /\ m \notin inflight
    /\ ~Storable(m)
    /\ RxGoto(m, "drop_object")
    /\ rm' = CallRemove(m, {m})
    /\ UNCHANGED <<now, d1, target, r2, ot, sw, faults>>

\* The second liveness read, after the mark: only then is success reported.
Recheck(m) ==
    /\ rx[m].pc = "recheck"
    /\ IF Live(target[m])
       THEN RxEnd(m, "acknowledged") /\ UNCHANGED rm
       ELSE RxGoto(m, "drop_object") /\ rm' = CallRemove(m, {m})
    /\ UNCHANGED <<now, d1, target, r2, ot, sw, faults>>

DropObject(m) ==
    /\ rx[m].pc = "drop_object" /\ rm[m].stage = "idle"
    /\ blobs' = blobs \ {m}
    /\ RxEnd(m, "not_found")
    /\ UNCHANGED <<now, d1, target, inflight, ot, sw, rm, faults>>

\* A D1 call throws, the last delete fails (swallowed), or the isolate is gone.
RxDies(m) ==
    /\ rx[m].pc \notin RxDone \cup {"new"}
    /\ Fault
    /\ RxEnd(m, "unavailable")
    /\ rm' = RemoveDone(m)
    /\ UNCHANGED <<now, d1, target, r2, ot, sw>>

Receive(m) ==
    \/ LookUp(m) \/ ReadClock(m) \/ Reserve(m) \/ ReserveRefused(m)
    \/ StartPut(m) \/ AbortLate(m) \/ Store(m) \/ StoreRefused(m)
    \/ Recheck(m) \/ DropObject(m)

-----------------------------------------------------------------------------
(* Owner operations *)

MutantMayCreate(o) == Cardinality(OwnedBy(o)) < MaxInboxesPerOwner
MayCreate(o) == o \notin retired /\ Cardinality(OwnedBy(o)) < MaxInboxesPerOwner

CreateInbox(o, i, ttl) ==
    /\ inbox[i].state = "none"
    /\ MayCreate(o)
    /\ inbox' = [inbox EXCEPT ![i] =
          [NoInbox EXCEPT !.state = "active", !.owner = o,
             !.expires_at = IF ttl = Never THEN Never ELSE now + ttl]]
    /\ UNCHANGED <<now, retired, message, prefixes, target, r2, tasks, faults>>

\* Shorten or set a lifetime, never lengthen it.
Shortens(i, ttl) == Reaches(inbox[i].expires_at, now + ttl)

UpdateInbox(i, ttl) ==
    /\ Live(i) /\ Shortens(i, ttl)
    /\ inbox' = [inbox EXCEPT ![i].expires_at = now + ttl]
    /\ UNCHANGED <<now, retired, message, prefixes, target, r2, tasks, faults>>

\* One transaction: fence, prefixes of every inbox, active ones to destroying.
RetireOwner(o) ==
    /\ retired' = retired \cup {o}
    /\ prefixes' = prefixes \cup OwnedBy(o)
    /\ inbox' = [i \in Inboxes |->
          IF inbox[i].state = "active" /\ inbox[i].owner = o
          THEN [inbox[i] EXCEPT !.state = "destroying",
                                !.destroy_requested_at = now]
          ELSE inbox[i]]
    /\ UNCHANGED <<now, message, target, r2, tasks, faults>>

MutantEarlier(at, expiry) == IF expiry = Never THEN expiry ELSE at
Earlier(at, expiry) == IF Reaches(expiry, at) THEN at ELSE expiry

\* beginDestroy's batch for an inbox row in scope.
Destroyed(row, at) ==
    IF row.state = "active"
    THEN [row EXCEPT !.state = "destroying",
                     !.destroy_requested_at = Earlier(at, row.expires_at)]
    ELSE row

BeginDestroy(i, at) ==
    /\ prefixes' = prefixes \cup {i}
    /\ inbox' = [inbox EXCEPT ![i] = Destroyed(@, at)]

\* The retired_owners check of `call` came earlier and fences nothing here.
DestroyInbox(t, i) ==
    /\ ot[t].pc = "idle" /\ rm[t].stage = "idle"
    /\ InboxExists(i)
    /\ BeginDestroy(i, now)
    /\ ot' = [ot EXCEPT ![t] = [pc |-> "step", at |-> i]]
    /\ UNCHANGED <<now, retired, message, target, r2, rx, sw, rm, faults>>

\* destroyStep inline, best effort.
DestroyInline(t) ==
    /\ ot[t].pc = "step"
    /\ ot' = [ot EXCEPT ![t].pc = "idle"]
    /\ rm' = IF Rows(ot[t].at) = {} THEN rm ELSE CallRemove(t, Rows(ot[t].at))
    /\ UNCHANGED <<now, d1, target, r2, rx, sw, faults>>

\* visibleMessage: stored, unexpired, in a live inbox.
Visible(m) ==
    /\ message[m].state = "stored"
    /\ message[m].received_at + Retention > now
    /\ Live(target[m])

DeleteMessage(t, m) ==
    /\ ot[t].pc = "idle" /\ rm[t].stage = "idle"
    /\ Visible(m)
    /\ rm' = CallRemove(t, {m})
    /\ UNCHANGED <<now, d1, target, r2, rx, ot, sw, faults>>

OwnerStep ==
    \/ \E o \in Owners, i \in Inboxes, ttl \in Lifetimes \cup {Never} :
          CreateInbox(o, i, ttl)
    \/ \E i \in Inboxes, ttl \in Lifetimes : UpdateInbox(i, ttl)
    \/ \E o \in Owners : RetireOwner(o)
    \/ \E t \in OwnerTasks :
          \/ \E i \in Inboxes : DestroyInbox(t, i)
          \/ \E m \in Messages : DeleteMessage(t, m)

-----------------------------------------------------------------------------
(* The scheduled sweep.  Every page of the code holds all the rows of these *)
(* models, so a selection is the whole set it is taken from.                *)

SwGoto(s, pc) == sw' = [sw EXCEPT ![s].pc = pc]
SwKeeps == UNCHANGED <<now, d1, target, r2, rx, ot, rm, faults>>

SweepBegin(s) ==
    /\ sw[s].pc = "idle"
    /\ sw' = [sw EXCEPT ![s].pc = "expired", ![s].now = now]
    /\ SwKeeps

\* Select a batch of rows, then removeMessages on their ids.
SweepRows(s, from, to, batch) ==
    /\ sw[s].pc = from /\ rm[s].stage = "idle"
    /\ SwGoto(s, to)
    /\ rm' = IF batch = {} THEN rm ELSE CallRemove(s, batch)
    /\ UNCHANGED <<now, d1, target, r2, rx, ot, faults>>

Expired(at) == {m \in Messages : message[m].state = "stored"
                                 /\ message[m].received_at + Retention <= at}
MutantStaleLate(at) == {m \in Messages : message[m].state = "deleting"
                                      /\ message[m].received_at < at - Quiesce}
Stale(at) == {m \in Messages : message[m].state = "pending"
                               /\ message[m].received_at < at - Quiesce}
Unfinished == {m \in Messages : message[m].state = "deleting"}

SweepExpired(s) == SweepRows(s, "expired", "stale", Expired(sw[s].now))
SweepStale(s) == SweepRows(s, "stale", "retried", Stale(sw[s].now))
SweepRetried(s) == SweepRows(s, "retried", "destroying", Unfinished)

SweepDestroying(s) ==
    /\ sw[s].pc = "destroying" /\ rm[s].stage = "idle"
    /\ sw' = [sw EXCEPT ![s].pc = "step",
                ![s].todo = {i \in Inboxes : inbox[i].state = "destroying"}]
    /\ SwKeeps

DestroyStep(s) ==
    /\ sw[s].pc = "step" /\ rm[s].stage = "idle"
    /\ IF sw[s].todo = {}
       THEN SwGoto(s, "prefixes") /\ UNCHANGED rm
       ELSE \E i \in sw[s].todo :
              /\ sw' = [sw EXCEPT ![s].pc = "finalize", ![s].at = i,
                                  ![s].todo = @ \ {i}]
              /\ rm' = IF Rows(i) = {} THEN rm ELSE CallRemove(s, Rows(i))
    /\ UNCHANGED <<now, d1, target, r2, rx, ot, faults>>

\* tryFinalize: read, list, delete what is listed, list again, erase the row.
MutantMayFinalize(i) ==
    /\ inbox[i].state = "destroying"
    /\ Rows(i) = {} /\ i \notin prefixes
    /\ now >= inbox[i].destroy_requested_at + Quiesce

MayFinalize(i) ==
    /\ inbox[i].state = "destroying"
    /\ Rows(i) = {}
    /\ now >= inbox[i].destroy_requested_at + Quiesce

FinalizeCheck(s) ==
    /\ sw[s].pc = "finalize" /\ rm[s].stage = "idle"
    /\ sw' = IF MayFinalize(sw[s].at)
             THEN [sw EXCEPT ![s].pc = "list", ![s].fin = now]
             ELSE [sw EXCEPT ![s].pc = "step"]
    /\ SwKeeps

FinalizeList(s) ==
    /\ sw[s].pc = "list"
    /\ sw' = IF Objects(sw[s].at) = {} THEN [sw EXCEPT ![s].pc = "erase"]
             ELSE [sw EXCEPT ![s].pc = "purge", ![s].objs = Objects(sw[s].at)]
    /\ SwKeeps

FinalizePurge(s) ==
    /\ sw[s].pc = "purge"
    /\ blobs' = blobs \ sw[s].objs
    /\ sw' = [sw EXCEPT ![s].pc = "relist", ![s].objs = {}]
    /\ UNCHANGED <<now, d1, target, inflight, rx, ot, rm, faults>>

FinalizeRelist(s) ==
    /\ sw[s].pc = "relist"
    /\ sw' = IF Objects(sw[s].at) = {} THEN [sw EXCEPT ![s].pc = "erase"]
             ELSE [sw EXCEPT ![s].pc = "step", ![s].fin = 0]
    /\ SwKeeps

EraseInbox(s) ==
    LET i == sw[s].at IN
    /\ sw[s].pc = "erase"
    /\ inbox' = IF /\ inbox[i].state = "destroying" /\ Rows(i) = {}
                   /\ inbox[i].destroy_requested_at <= sw[s].fin - Quiesce
                THEN [inbox EXCEPT ![i] = [NoInbox EXCEPT !.state = "gone"]]
                ELSE inbox
    /\ sw' = [sw EXCEPT ![s].pc = "step", ![s].fin = 0]
    /\ UNCHANGED <<now, retired, message, prefixes, target, r2, rx, ot, rm, faults>>

\* reconcilePrefixes: for each prefix, list, read the live rows, delete the rest.
SweepPrefixes(s) ==
    /\ sw[s].pc = "prefixes"
    /\ sw' = [sw EXCEPT ![s].pc = "reconcile", ![s].todo = prefixes]
    /\ SwKeeps

ReconcileList(s) ==
    /\ sw[s].pc = "reconcile"
    /\ IF sw[s].todo = {} THEN SwGoto(s, "admit")
       ELSE \E i \in sw[s].todo :
              sw' = [sw EXCEPT ![s].pc = "check", ![s].at = i,
                       ![s].todo = @ \ {i}, ![s].objs = Objects(i)]
    /\ SwKeeps

Orphans(objs) ==
    {m \in objs : message[m].state \notin {"pending", "stored"}}

ReconcileCheck(s) ==
    /\ sw[s].pc = "check"
    /\ sw' = [sw EXCEPT ![s].pc = "orphans", ![s].objs = Orphans(@)]
    /\ SwKeeps

ReconcileDelete(s) ==
    /\ sw[s].pc = "orphans"
    /\ blobs' = blobs \ sw[s].objs
    /\ sw' = [sw EXCEPT ![s].pc = "reconcile", ![s].objs = {}]
    /\ UNCHANGED <<now, d1, target, inflight, rx, ot, rm, faults>>

\* The list, the read or the delete throws: this prefix waits for its next turn.
ReconcileFails(s) ==
    /\ sw[s].pc \in {"check", "orphans"}
    /\ Fault
    /\ \E some \in SUBSET sw[s].objs :
          /\ sw[s].pc = "check" => some = {}
          /\ blobs' = blobs \ some
    /\ sw' = [sw EXCEPT ![s].pc = "reconcile", ![s].objs = {}]
    /\ UNCHANGED <<now, d1, target, inflight, rx, ot, rm>>

SweepAdmit(s) ==
    /\ sw[s].pc = "admit"
    /\ sw' = [sw EXCEPT ![s].pc = "admitting", ![s].todo =
          {i \in Inboxes : inbox[i].state = "active"
                           /\ ~Outlives(inbox[i].expires_at, sw[s].now)}]
    /\ SwKeeps

AdmitOne(s) ==
    /\ sw[s].pc = "admitting"
    /\ \E i \in sw[s].todo :
          /\ IF InboxExists(i) THEN BeginDestroy(i, sw[s].now)
             ELSE UNCHANGED <<prefixes, inbox>>
          /\ sw' = [sw EXCEPT ![s].todo = @ \ {i}]
    /\ UNCHANGED <<now, retired, message, target, r2, rx, ot, rm, faults>>

SweepEnd(s) ==
    /\ sw[s].pc = "admitting" /\ sw[s].todo = {}
    /\ sw' = [sw EXCEPT ![s] = SweepIdle]
    /\ SwKeeps

\* An uncaught throw, or an eviction: the rest waits for the next cron.
SweepDies(s) ==
    /\ sw[s].pc # "idle"
    /\ Fault
    /\ sw' = [sw EXCEPT ![s] = SweepIdle]
    /\ rm' = RemoveDone(s)
    /\ UNCHANGED <<now, d1, target, r2, rx, ot>>

Sweep(s) ==
    \/ SweepBegin(s) \/ SweepExpired(s) \/ SweepStale(s) \/ SweepRetried(s)
    \/ SweepDestroying(s) \/ DestroyStep(s)
    \/ FinalizeCheck(s) \/ FinalizeList(s) \/ FinalizePurge(s)
    \/ FinalizeRelist(s) \/ EraseInbox(s)
    \/ SweepPrefixes(s) \/ ReconcileList(s) \/ ReconcileCheck(s)
    \/ ReconcileDelete(s) \/ SweepAdmit(s) \/ AdmitOne(s) \/ SweepEnd(s)

-----------------------------------------------------------------------------
Failures ==
    \/ \E t \in Tasks : RemoveObjectsFail(t) \/ RemoveThrows(t)
    \/ \E m \in Messages : PutFails(m) \/ RxDies(m)
    \/ \E s \in Sweepers : ReconcileFails(s) \/ SweepDies(s)

Next ==
    \/ Tick
    \/ \E m \in Messages : PutLands(m) \/ Receive(m)
    \/ \E t \in OwnerTasks : DestroyInline(t)
    \/ OwnerStep
    \/ \E s \in Sweepers : Sweep(s)
    \/ \E t \in Tasks : Remove(t)
    \/ Failures

Spec == Init /\ [][Next]_vars

\* Cron starts a sweep every 15 minutes and the platform runs an invocation that
\* is not evicted to its end; a put that was issued lands (the case to clean up).
\* Senders and owners owe nothing.
Fairness ==
    /\ WF_vars(Tick)
    /\ \A m \in Messages : WF_vars(PutLands(m))
    /\ \A s \in Sweepers : WF_vars(Sweep(s) \/ Remove(s))

FairSpec == Spec /\ Fairness

-----------------------------------------------------------------------------
(* Safety *)

\* The reservation counters of an inbox are exactly the bytes and the number of
\* its message rows, whatever removals overlap (worker.js reserve and the
\* recheck in removeMessages' final batch).
CountersExact ==
    \A i \in Inboxes : InboxExists(i) =>
        /\ inbox[i].bytes_stored = TotalSize[Rows(i)]
        /\ inbox[i].message_count = Cardinality(Rows(i))

\* Concurrent receivers cannot overshoot an inbox's or an owner's capacity: what
\* is held, pending rows included, stays within every limit.
QuotaHeld ==
    /\ \A i \in Inboxes :
          /\ TotalSize[Rows(i)] <= MaxInboxBytes
          /\ Cardinality(Rows(i)) <= MaxInboxMessages
    /\ \A o \in Owners :
          TotalSize[UNION {Rows(i) : i \in OwnedBy(o)}] <= MaxOwnerBytes

\* MAX_DAILY_RECEIPTS: no more receipts of a UTC day than the limit are accepted
\* for one inbox, however many receivers run at once.
DailyLimit ==
    \A i \in Inboxes, d \in 0 .. Day(MaxTime) :
        Cardinality({m \in Messages : /\ target[m] = i
                                      /\ message[m].state # "none"
                                      /\ Day(message[m].received_at) = d})
          <= MaxDailyReceipts

\* Every object that exists or may still land is accounted for by a message row
\* or by a cleanup prefix, so no received bytes can be forgotten in R2.
ObjectsTracked ==
    \A m \in blobs \cup inflight : Present(m) \/ target[m] \in prefixes

\* A receipt an owner can see has its bytes: no cleanup that overlaps reception
\* deletes the object of a stored row of a live inbox.
VisibleHasObject ==
    \A m \in Messages :
        message[m].state = "stored" /\ Live(target[m]) => m \in blobs

\* A finalized inbox leaves no message row behind, and its prefix stays tracked.
ErasedLeavesNothing ==
    \A i \in Inboxes : inbox[i].state = "gone" => Rows(i) = {} /\ i \in prefixes

\* The generation fence: a retired owner has no active inbox, ever again.
RetiredOwnerFenced ==
    \A i \in Inboxes : inbox[i].state = "active" => inbox[i].owner \notin retired

-----------------------------------------------------------------------------
(* Action properties *)

\* A lifetime is never lengthened and an endpoint that ended is never live again.
Ends(i) == ~Live(i) => ~Live(i)'
Shortened(i) ==
    inbox[i].state = "active" /\ inbox'[i].state = "active"
      => inbox'[i].expires_at = inbox[i].expires_at
         \/ Reaches(inbox[i].expires_at, inbox'[i].expires_at)
EndedStaysEnded ==
    [][\A i \in Inboxes : InboxExists(i) => Ends(i) /\ Shortened(i)]_vars

\* The sweep hides a stored receipt only when its retention or its endpoint has
\* ended: the stale-pending step takes pending rows, never an acknowledged one.
SweptBy(s, m) == /\ rm[s].stage = "mark" /\ rm'[s].stage = "select"
                 /\ m \in rm[s].ids /\ message[m].state = "stored"
SweepTakesOnlyEnded ==
    [][\A s \in Sweepers, m \in Messages : SweptBy(s, m) =>
         message[m].received_at + Retention <= now \/ ~Live(target[m])]_vars

-----------------------------------------------------------------------------
(* Liveness *)

\* A destroying inbox whose quiescence ends inside the model's clock is erased,
\* whatever receivers crashed or puts landed late meanwhile.
DestroyedIsErased ==
    \A i \in Inboxes :
        (inbox[i].state = "destroying"
           /\ inbox[i].destroy_requested_at + Quiesce <= MaxTime)
          ~> inbox[i].state = "gone"

\* An object whose row is gone, late puts included, and the reservation of a
\* receiver that died are both cleaned up to the end: no row, and no object.
Leftover(m) ==
    \/ message[m].state = "gone" /\ m \in blobs
    \/ /\ message[m].state = "pending" /\ rx[m].pc \in RxDone
       /\ message[m].received_at + Quiesce < MaxTime
LeftoversRemoved ==
    \A m \in Messages : Leftover(m) ~> (message[m].state = "gone" /\ m \notin blobs)
=============================================================================
