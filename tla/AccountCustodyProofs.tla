------------------------- MODULE AccountCustodyProofs -------------------------
(***************************************************************************)
(* Whatever fails, as long as a failed lookup is not taken for an answer    *)
(* (Trusted), AccountKeys replaces only dead keys and implements KeyCustody.*)
(* When no failure loses the record of a key either (Recorded), every live  *)
(* key is in somebody's custody.                                            *)
(***************************************************************************)
EXTENDS AccountRefinement, AccountKeysProofs

USE DEF local, provider, retirement

-----------------------------------------------------------------------------
(* The outbox and what scheduled invocations have read of it *)

\* A scheduled invocation that reads nothing but the outbox, which stays.
LEMMA ReadersKeep ==
    ASSUME TypeOK, OutboxInv, UNCHANGED outbox,
           \A c \in Crons : Read(c)' \subseteq Read(c) \cup {NoRow} \cup outbox
    PROVE OutboxInv'
<1>1. \A x \in outbox, y \in outbox \cup {NoRow} : Copies(x, y)
  BY DEF OutboxInv, Copies
<1>2. ASSUME NEW x \in outbox, NEW c \in Crons, NEW y \in Read(c)' PROVE Copies(x, y)
  BY <1>1, <1>2 DEF OutboxInv
<1>3. QED BY <1>2 DEF OutboxInv, Copies

\* The new row has an id that no row and no reader has seen.
LEMMA RetireOutbox ==
    ASSUME TypeOK, OutboxInv, NEW c \in Crons, Retire(c) PROVE OutboxInv'
<1>1. \A d \in Crons : Read(d)' = Read(d)
  BY DEF Retire, TypeOK, CronRow, Read
<1>2. CASE ~MayRetire(c)
  BY <1>1, <1>2, ReadersKeep DEF Retire
<1>3. CASE MayRetire(c)
  <2> DEFINE new == [id |-> drawn + 1, key |-> account.key]
  <2>1. outbox' = outbox \cup {new}
    BY <1>3 DEF Retire
  <2>2. new.id = drawn + 1 /\ drawn \in Nat
    BY Bounds
  <2>3. /\ \A x \in outbox : x.id \in 0 .. drawn
        /\ \A d \in Crons : \A y \in Read(d) : y.id \in 0 .. drawn
    BY DEF TypeOK, CronRow, OutboxRow, Read
  <2>4. /\ \A x \in outbox : x.id # new.id
        /\ \A d \in Crons : \A y \in Read(d) : y.id # new.id
        /\ new.id # 0
    BY <2>2, <2>3
  <2>5. \A x, y \in outbox' : x.id = y.id => x = y
    BY <2>1, <2>4 DEF OutboxInv
  <2>6. \A x \in outbox' : x.id # NoRow.id
    BY <2>1, <2>4 DEF OutboxInv, NoRow
  <2>7. \A x \in outbox', d \in Crons : \A y \in Read(d) : Copies(x, y)
    BY <2>1, <2>4 DEF OutboxInv, Copies
  <2>8. QED BY <1>1, <2>1, <2>5, <2>6, <2>7 DEF OutboxInv, Copies
<1>4. QED BY <1>2, <1>3

\* Nulling one key of one row leaves a copy of every row.
LEMMA NullKeyOutbox ==
    ASSUME TypeOK, OutboxInv, NEW c \in Crons, NullKey(c) PROVE OutboxInv'
<1>1. \A d \in Crons : Read(d)' = Read(d)
  BY DEF NullKey, NextBackend, TypeOK, CronRow, Read
<1>2. ASSUME NEW x \in outbox'
      PROVE \E y \in outbox :
               /\ x = IF y.id = cron[c].row.id
                      THEN [y EXCEPT !.key[cron[c].b] = 0] ELSE y
               /\ x.id = y.id /\ \A b \in Backends : x.key[b] \in {0, y.key[b]}
  <2>1. PICK y \in outbox : x = IF y.id = cron[c].row.id
                                THEN [y EXCEPT !.key[cron[c].b] = 0] ELSE y
    BY DEF NullKey
  <2>2. y.key \in [Backends -> 0 .. keys]
    BY DEF TypeOK, OutboxRow, KeySets
  <2>3. x.id = y.id /\ \A b \in Backends : x.key[b] \in {0, y.key[b]}
    BY <2>1, <2>2 DEF TypeOK, OutboxRow
  <2>4. QED BY <2>1, <2>3
<1>3. \A x, z \in outbox' : x.id = z.id => x = z
  BY <1>2 DEF OutboxInv
<1>4. ASSUME NEW x \in outbox', NEW d \in Crons, NEW y \in Read(d) PROVE Copies(x, y)
  <2>1. PICK z \in outbox :
           x.id = z.id /\ \A b \in Backends : x.key[b] \in {0, z.key[b]}
    BY <1>2
  <2>2. Copies(z, y)
    BY DEF OutboxInv
  <2>3. QED BY <2>1, <2>2 DEF Copies
<1>5. \A x \in outbox' : x.id # NoRow.id
  BY <1>2 DEF OutboxInv
<1>6. QED BY <1>1, <1>3, <1>4, <1>5 DEF OutboxInv, Copies

LEMMA DropRowOutbox ==
    ASSUME TypeOK, OutboxInv, NEW c \in Crons, DropRow(c) PROVE OutboxInv'
<1>1. \A d \in Crons : Read(d)' \subseteq Read(d) \cup {NoRow}
  BY DEF DropRow, TypeOK, CronRow, Read
<1>2. outbox' \subseteq outbox
  BY DEF DropRow
<1>3. \A x \in outbox : Copies(x, NoRow)
  BY DEF OutboxInv, Copies
<1>4. \A x \in outbox', d \in Crons : \A y \in Read(d)' : Copies(x, y)
  BY <1>1, <1>2, <1>3 DEF OutboxInv
<1>5. QED BY <1>2, <1>4 DEF OutboxInv, Copies

\* What a scheduled invocation reads of the outbox, it reads from the table.
LEMMA ReadSteps ==
    ASSUME TypeOK, NEW c \in Crons, Cron(c) \/ CronFails(c), NEW d \in Crons
    PROVE Read(d)' \subseteq Read(d) \cup {NoRow} \cup outbox
<1>1. cron \in [Crons -> CronRow]
  BY DEF TypeOK
<1>2. CASE \/ CronStart(c) \/ Retire(c) \/ ListFences(c) \/ RecordFence(c)
           \/ FencesDone(c) \/ ListOutbox(c) \/ DropRow(c) \/ CronDies(c)
  BY <1>1, <1>2
  DEF CronStart, Retire, ListFences, RecordFence, FencesDone, ListOutbox, DropRow,
      CronDies, NoCron, CronRow, Read
<1>3. CASE FenceInbox(c)
  BY <1>1, <1>3 DEF FenceInbox, CronRow, Read
<1>4. CASE FenceFails(c)
  BY <1>1, <1>4 DEF FenceFails, CronRow, Read
<1>5. CASE NextRow(c)
  <2>1. ASSUME CronGoto(c, "idle") PROVE Read(d)' = Read(d)
    BY <1>1, <2>1 DEF CronGoto, CronRow, Read
  <2>2. ASSUME NEW row \in cron[c].rows,
               cron' = [cron EXCEPT ![c].pc = "purge", ![c].row = row,
                          ![c].rows = @ \ {row}, ![c].b = "openrouter"]
        PROVE Read(d)' \subseteq Read(d)
    BY <1>1, <2>2 DEF CronRow, Read
  <2>3. QED BY <1>5, <2>1, <2>2 DEF NextRow
<1>6. CASE Purge(c) \/ PurgeFails(c) \/ NullKey(c)
  BY <1>1, <1>6 DEF Purge, PurgeFails, NullKey, NextBackend, CronGoto, CronRow, Read
<1>7. QED BY <1>2, <1>3, <1>4, <1>5, <1>6 DEF Cron, CronFails

LEMMA CronOutbox ==
    ASSUME TypeOK, OutboxInv, NEW c \in Crons, Cron(c) \/ CronFails(c)
    PROVE OutboxInv'
<1>1. CASE Retire(c) \/ NullKey(c) \/ DropRow(c)
  BY <1>1, RetireOutbox, NullKeyOutbox, DropRowOutbox
<1>2. CASE ~Retire(c) /\ ~NullKey(c) /\ ~DropRow(c)
  <2>1. UNCHANGED outbox
    BY <1>2
    DEF Cron, CronFails, CronStart, ListFences, FenceInbox, RecordFence, FencesDone,
        ListOutbox, NextRow, Purge, FenceFails, PurgeFails, CronDies
  <2>2. QED BY <2>1, ReadSteps, ReadersKeep
<1>3. QED BY <1>1, <1>2

\* No step of a request touches what OutboxInv is about.
LEMMA OutboxStep ==
    ASSUME TypeOK, OutboxInv, Next PROVE OutboxInv'
<1>1. ASSUME UNCHANGED <<outbox, cron>> PROVE OutboxInv'
  BY <1>1 DEF OutboxInv, Read, Copies
<1>2. ASSUME NEW r \in Requests, Request(r) PROVE OutboxInv'
  BY <1>1, <1>2
  DEF Request, RecordActivity, ProvisionStart, ProvisionSelect, ProvisionUpdate, ProvisionInsert,
      RevokeStart, Revoke, Authenticate, Send, Mint, Swap, Destroy, Adopt
<1>3. ASSUME NEW r \in Requests, RequestFails(r) PROVE OutboxInv'
  BY <1>1, <1>3
  DEF RequestFails, ActivityLost, LookupFails, MintRefused, MintLost, DestroyFails,
      RequestDies
<1>4. CASE Age \/ InboxRestored \/ \E k \in live : KeyDies(k)
  BY <1>1, <1>4 DEF Age, InboxRestored, KeyDies
<1>5. QED BY <1>2, <1>3, <1>4, CronOutbox DEF Next

-----------------------------------------------------------------------------
(* Dead keys *)

\* Keys that are not yet minted apart, a dead key stays dead.
LEMMA NoRebirth ==
    ASSUME TypeOK, Next
    PROVE live' \subseteq live \cup {keys + 1}
<1>1. ASSUME NEW r \in Requests, Request(r) PROVE live' \subseteq live \cup {keys + 1}
  BY <1>1
  DEF Request, RecordActivity, ProvisionStart, ProvisionSelect, ProvisionUpdate,
      ProvisionInsert, RevokeStart, Revoke, Authenticate, Send, Mint, NewKey, Swap,
      Destroy, Adopt
<1>2. ASSUME NEW r \in Requests, RequestFails(r)
      PROVE live' \subseteq live \cup {keys + 1}
  BY <1>2
  DEF RequestFails, ActivityLost, LookupFails, MintRefused, MintLost, NewKey,
      DestroyFails, RequestDies
<1>3. ASSUME NEW c \in Crons, Cron(c) \/ CronFails(c) PROVE live' \subseteq live
  BY <1>3
  DEF Cron, CronFails, CronStart, Retire, ListFences, FenceInbox, RecordFence,
      FencesDone, ListOutbox, NextRow, Purge, NullKey, DropRow, FenceFails,
      PurgeFails, CronDies
<1>4. CASE Age \/ InboxRestored \/ \E k \in live : KeyDies(k)
  BY <1>4 DEF Age, InboxRestored, KeyDies
<1>5. QED BY <1>1, <1>2, <1>3, <1>4 DEF Next

\* A failure that would lose a key's record is excluded.
LEMMA TrustedFaults ==
    ASSUME Trusted, NEW r \in Requests PROVE ~LookupFails(r)
  BY DEF Trusted, LookupFails, Fault

LEMMA RecordedTrusted == Recorded => Trusted
  BY DEF Recorded, Trusted

LEMMA RecordedFaults ==
    ASSUME Recorded, NEW r \in Requests
    PROVE /\ ~LookupFails(r) /\ ~MintLost(r) /\ ~DestroyFails(r) /\ ~RequestDies(r)
  BY DEF Recorded, LookupFails, MintLost, DestroyFails, RequestDies, Fault

\* A request enters "mint" with no key or one that its provider rejected.
LEMMA DeadRequest ==
    ASSUME TypeOK, DeadInv, Trusted, NEW r \in Requests, Request(r) \/ RequestFails(r),
           NEW s \in Requests, req'[s].pc \in {"mint", "swap"}
    PROVE req'[s].key \notin live
<1>1. req \in [Requests -> RequestRow] /\ 0 \notin live
  BY Bounds DEF TypeOK
<1>2. CASE s # r
  <2>1. req'[s] = req[s]
    BY <1>1, <1>2, TrustedFaults
    DEF Request, RequestFails, RecordActivity, AfterActivity, ReqGoto, ReqDone,
        ProvisionStart, ProvisionSelect, ProvisionUpdate, ProvisionInsert,
        RevokeStart, Revoke, Authenticate, Send, Mint, Swap, Destroy, Adopt,
        ActivityLost, MintRefused, MintLost, DestroyFails, RequestDies
  <2>2. QED BY <2>1 DEF DeadInv
<1>3. CASE s = r
  <2>1. ASSUME RecordActivity(r) \/ ActivityLost(r) PROVE req[r].key = 0 /\ req'[r].key = 0
    BY <1>1, <1>3, <2>1
    DEF RecordActivity, ActivityLost, AfterActivity, ReqGoto, ReqDone, NoRequest,
        RequestRow
  <2>2. ASSUME Send(r) PROVE req'[r].key \notin live
    BY <1>1, <1>3, <2>2 DEF Send, ReqDone, NoRequest, RequestRow
  <2>3. ASSUME Mint(r) PROVE req'[r].key = req[r].key /\ req[r].pc = "mint"
    BY <1>1, <2>3 DEF Mint, NewKey, RequestRow
  <2>4. ASSUME \/ ProvisionStart(r) \/ ProvisionSelect(r) \/ ProvisionUpdate(r)
               \/ ProvisionInsert(r) \/ RevokeStart(r) \/ Revoke(r) \/ MintRefused(r)
               \/ MintLost(r) \/ RequestDies(r)
        PROVE FALSE
    BY <1>1, <1>3, <2>4, RequestSteps
    DEF ProvisionStart, ProvisionSelect, ProvisionUpdate, ProvisionInsert, RevokeStart,
        Revoke, MintRefused, MintLost, RequestDies, NoRequest
  <2>5. ASSUME \/ (\E b \in Served : Authenticate(r, b)) \/ Adopt(r) \/ Destroy(r) \/ DestroyFails(r)
               \/ Swap(r)
        PROVE FALSE
    <3>1. ASSUME NEW b, Authenticate(r, b) PROVE FALSE
      BY <1>1, <1>3, <3>1 DEF Authenticate
    <3>2. ~Destroy(r) /\ ~DestroyFails(r)
      BY <1>1, <1>3 DEF Destroy, DestroyFails, RequestRow
    <3>3. ~Adopt(r)
      BY <1>1, <1>3 DEF Adopt, ReqDone, NoRequest, RequestRow
    <3>4. ~Swap(r)
      <4>1. ReqGoto(r, "destroy") => req'[r].pc = "destroy"
        BY RequestSteps
      <4>2. ASSUME req' = [req EXCEPT ![r].pc = "send", ![r].key = req[r].minted,
                                      ![r].minted = 0]
            PROVE req'[r].pc = "send"
        BY <1>1, <4>2 DEF RequestRow
      <4>3. QED BY <1>3, <4>1, <4>2 DEF Swap
    <3>5. QED BY <2>5, <3>1, <3>2, <3>3, <3>4
  <2>6. QED
    BY <1>1, <1>3, <2>1, <2>2, <2>3, <2>4, <2>5, TrustedFaults
    DEF Request, RequestFails, DeadInv
<1>4. QED BY <1>2, <1>3

\* The key an invocation is about to null has been confirmed deleted.
LEMMA DeadCron ==
    ASSUME TypeOK, DeadInv, NEW c \in Crons, Cron(c) \/ CronFails(c),
           NEW d \in Crons, cron'[d].pc = "null"
    PROVE cron'[d].row.key[cron'[d].b] \notin live'
<1>1. cron \in [Crons -> CronRow] /\ 0 \notin live
  BY Bounds DEF TypeOK
<1>2. live' \subseteq live
  BY DEF Cron, CronFails, CronStart, Retire, ListFences, FenceInbox, RecordFence,
      FencesDone, ListOutbox, NextRow, Purge, NullKey, DropRow, FenceFails,
      PurgeFails, CronDies
<1>3. ASSUME cron'[d] = cron[d] PROVE cron'[d].row.key[cron'[d].b] \notin live'
  BY <1>2, <1>3 DEF DeadInv
<1>4. ASSUME Purge(c) PROVE cron'[d].row.key[cron'[d].b] \notin live'
  <2>1. CASE d = c
    <3>1. CronGoto(c, "null")
      BY <1>1, <1>4, <2>1 DEF Purge, NextBackend, CronRow
    <3>2. cron'[d].row = cron[d].row /\ cron'[d].b = cron[d].b
      BY <1>1, <2>1, <3>1 DEF CronGoto, CronRow
    <3>3. QED BY <1>4, <2>1, <3>2 DEF Purge
  <2>2. CASE d # c
    BY <1>1, <1>3, <1>4, <2>2 DEF Purge, NextBackend, CronGoto
  <2>3. QED BY <2>1, <2>2
<1>5. ASSUME ~Purge(c) PROVE cron'[d] = cron[d]
  <2>1. ASSUME CronGoto(c, "idle") \/ NextBackend(c) PROVE cron'[d] = cron[d]
    BY <1>1, <2>1 DEF CronGoto, NextBackend, CronRow
  <2>2. ASSUME \/ CronStart(c) \/ Retire(c) \/ ListFences(c) \/ RecordFence(c)
               \/ FencesDone(c) \/ ListOutbox(c) \/ DropRow(c) \/ CronDies(c)
        PROVE cron'[d] = cron[d]
    BY <1>1, <2>2
    DEF CronStart, Retire, ListFences, RecordFence, FencesDone, ListOutbox, DropRow,
        CronDies, NoCron, CronRow
  <2>3. ASSUME FenceInbox(c) PROVE cron'[d] = cron[d]
    BY <1>1, <2>3 DEF FenceInbox, CronRow
  <2>4. ASSUME FenceFails(c) PROVE cron'[d] = cron[d]
    BY <1>1, <2>4 DEF FenceFails, CronRow
  <2>5. ASSUME NEW row,
               cron' = [cron EXCEPT ![c].pc = "purge", ![c].row = row,
                          ![c].rows = @ \ {row}, ![c].b = "openrouter"]
        PROVE cron'[d] = cron[d]
    BY <1>1, <2>5 DEF CronRow
  <2>6. NextRow(c) => cron'[d] = cron[d]
    BY <2>1, <2>5 DEF NextRow
  <2>7. NullKey(c) \/ PurgeFails(c) => cron'[d] = cron[d]
    BY <2>1 DEF NullKey, PurgeFails
  <2>8. QED BY <1>5, <2>2, <2>3, <2>4, <2>6, <2>7 DEF Cron, CronFails
<1>6. QED BY <1>3, <1>4, <1>5

LEMMA DeadStep ==
    ASSUME TypeOK, DeadInv, Trusted, Next PROVE DeadInv'
<1>1. /\ \A r \in Requests : req[r].key \in 0 .. keys
      /\ \A c \in Crons : cron[c].row.key[cron[c].b] \in 0 .. keys
      /\ keys \in Nat
  BY Bounds DEF TypeOK, RequestRow, CronRow, OutboxRow, KeySets
<1>2. live' \subseteq live \cup {keys + 1}
  BY NoRebirth
<1>3. ASSUME NEW r \in Requests, req'[r].key = req[r].key \/ req'[r].key \in 0 .. keys,
             req'[r].key \notin live
      PROVE req'[r].key \notin live'
  BY <1>1, <1>2, <1>3
<1>4. ASSUME NEW r \in Requests, Request(r) \/ RequestFails(r) PROVE DeadInv'
  <2>1. UNCHANGED cron
    BY <1>4
    DEF Request, RecordActivity, ProvisionStart, ProvisionSelect, ProvisionUpdate,
        ProvisionInsert, RevokeStart, Revoke, Authenticate, Send, Mint, Swap,
        Destroy, Adopt, RequestFails, ActivityLost, LookupFails, MintRefused, MintLost,
        DestroyFails, RequestDies
  <2>2. ASSUME NEW s \in Requests, req'[s].pc \in {"mint", "swap"}
        PROVE req'[s].key \notin live'
    <3>1. req'[s].key \notin live
      BY <1>4, <2>2, DeadRequest
    <3>2. live' \subseteq live \/ Mint(r) \/ MintLost(r)
      BY <1>4
      DEF Request, RecordActivity, ProvisionStart, ProvisionSelect, ProvisionUpdate,
          ProvisionInsert, RevokeStart, Revoke, Authenticate, Send, Swap,
          Destroy, Adopt, RequestFails, ActivityLost, LookupFails, MintRefused,
          DestroyFails, RequestDies
    <3>3. ASSUME Mint(r) \/ MintLost(r) PROVE req'[s].key \in {0, req[s].key}
      <4>1. CASE Mint(r)
        BY <4>1 DEF Mint, TypeOK, RequestRow
      <4>2. CASE MintLost(r)
        BY <4>2 DEF MintLost, ReqDone, NoRequest, TypeOK
      <4>3. QED BY <3>3, <4>1, <4>2
    <3>4. ASSUME Mint(r) \/ MintLost(r) PROVE req'[s].key \in 0 .. keys
      BY <1>1, <3>3, <3>4
    <3>5. QED BY <1>3, <3>1, <3>2, <3>4
  <2>3. ASSUME NEW c \in Crons, cron[c].pc = "null"
        PROVE cron[c].row.key[cron[c].b] \notin live'
    BY <1>1, <1>2, <2>3 DEF DeadInv
  <2>4. QED BY <2>1, <2>2, <2>3 DEF DeadInv
<1>5. ASSUME NEW c \in Crons, Cron(c) \/ CronFails(c) PROVE DeadInv'
  <2>1. UNCHANGED req /\ live' \subseteq live
    BY <1>5
    DEF Cron, CronFails, CronStart, Retire, ListFences, FenceInbox, RecordFence,
        FencesDone, ListOutbox, NextRow, Purge, NullKey, DropRow, FenceFails,
        PurgeFails, CronDies
  <2>2. QED BY <1>5, <2>1, DeadCron DEF DeadInv
<1>6. CASE Age \/ InboxRestored \/ \E k \in live : KeyDies(k)
  BY <1>6 DEF Age, InboxRestored, KeyDies, DeadInv
<1>7. QED BY <1>4, <1>5, <1>6 DEF Next

-----------------------------------------------------------------------------
(* The row, the outbox and the generations *)

\* A row that goes empty was retired; nothing else takes a key out of it but a
\* swap, and the swap replaces a key its provider rejected.
LEMMA RowStep ==
    ASSUME IInv, DeadInv, EmptyInv, NEW r \in Requests,
           Request(r) \/ RequestFails(r)
    PROVE /\ EmptyInv'
          /\ \A k \in live : Stored(k) => Stored(k)'
<1>1. TypeOK
  BY DEF IInv
<1>2. CASE UNCHANGED account
  BY <1>2 DEF EmptyInv, Stored
<1>3. ASSUME ProvisionUpdate(r) \/ ProvisionInsert(r) \/ Revoke(r)
      PROVE account'.key = account.key /\ (~account'.present => ~account.present)
  <2>1. CASE ProvisionUpdate(r)
    BY <1>1, <2>1 DEF ProvisionUpdate, TypeOK, AccountRow
  <2>2. CASE ProvisionInsert(r)
    BY <2>2 DEF ProvisionInsert, EmptyInv, NoAccount
  <2>3. CASE Revoke(r)
    BY <1>1, <2>3 DEF Revoke, TypeOK, AccountRow
  <2>4. QED BY <1>3, <2>1, <2>2, <2>3
<1>4. ASSUME Swap(r), ~UNCHANGED account
      PROVE /\ account'.present
            /\ \A k \in live : Stored(k) => Stored(k)'
  <2>1. /\ Authority(r) /\ Unswapped(r)
        /\ account' = [account EXCEPT !.key[req[r].b] = req[r].minted]
    BY <1>4 DEF Swap
  <2>2. req[r].b \in Backends /\ account.key \in [Backends -> 0 .. keys]
    BY <1>1, Bounds DEF TypeOK, RequestRow, KeySets
  <2>3. /\ account'.present = account.present
        /\ account'.key = [account.key EXCEPT ![req[r].b] = req[r].minted]
    BY <1>1, <2>1 DEF TypeOK, AccountRow
  <2>4. account.key[req[r].b] \notin live
    BY <1>4, <2>1 DEF Swap, Unswapped, DeadInv
  <2>5. QED BY <2>1, <2>2, <2>3, <2>4 DEF Stored, Authority, Active
<1>5. UNCHANGED account \/ ProvisionUpdate(r) \/ ProvisionInsert(r) \/ Revoke(r) \/ Swap(r)
  BY DEF Request, RecordActivity, ProvisionStart, ProvisionSelect, RevokeStart,
         Authenticate, Send, Mint, NewKey, Destroy, Adopt, RequestFails, ActivityLost,
         LookupFails, MintRefused, MintLost, DestroyFails, RequestDies
<1>6. CASE account'.key = account.key /\ (~account'.present => ~account.present)
  BY <1>6 DEF EmptyInv, Stored
<1>7. QED BY <1>2, <1>3, <1>4, <1>5, <1>6 DEF EmptyInv

\* A row that purging drops or nulls names no live key any more.
LEMMA NullCustody ==
    ASSUME TypeOK, OutboxInv, DeadInv, NEW c \in Crons, NullKey(c), NEW k \in live, Outboxed(k)
    PROVE Outboxed(k)'
<1>1. k # 0
  BY DEF TypeOK
<1>2. PICK x \in outbox, d \in Backends : x.key[d] = k
  BY DEF Outboxed
<1>3. x \in OutboxRow /\ x.key \in [Backends -> 0 .. keys]
  BY <1>1 DEF TypeOK, OutboxRow, KeySets
<1>4. CASE x.id = cron[c].row.id
  <2>1. x.key[cron[c].b] \in {0, cron[c].row.key[cron[c].b]} /\ cron[c].b \in Backends
    BY <1>1, <1>4 DEF OutboxInv, Copies, Read, TypeOK, CronRow
  <2>2. cron[c].row.key[cron[c].b] \notin live
    BY <1>1 DEF NullKey, DeadInv
  <2>3. d # cron[c].b
    BY <1>1, <1>2, <2>1, <2>2
  <2>4. [x EXCEPT !.key[cron[c].b] = 0] \in outbox'
    BY <1>4 DEF NullKey
  <2>5. [x EXCEPT !.key[cron[c].b] = 0].key[d] = k
    BY <1>2, <1>3, <2>3 DEF OutboxRow
  <2>6. QED BY <2>4, <2>5 DEF Outboxed
<1>5. CASE x.id # cron[c].row.id
  <2>1. x \in outbox'
    BY <1>5 DEF NullKey
  <2>2. QED BY <1>2, <2>1 DEF Outboxed
<1>6. QED BY <1>4, <1>5

LEMMA RetireOwes ==
    ASSUME NEW c \in Crons, Retire(c), NEW k, Stored(k) \/ Outboxed(k)
    PROVE /\ Outboxed(k) => Outboxed(k)'
          /\ MayRetire(c) => Outboxed(k)'
          /\ ~MayRetire(c) => UNCHANGED <<account, outbox>>
<1>1. CASE ~MayRetire(c)
  BY <1>1 DEF Retire, Outboxed
<1>2. CASE MayRetire(c)
  <2> DEFINE new == [id |-> drawn + 1, key |-> account.key]
  <2>1. outbox' = outbox \cup {new} /\ new.key = account.key
    BY <1>2 DEF Retire
  <2>2. Stored(k) => Outboxed(k)'
    BY <2>1 DEF Stored, Outboxed
  <2>3. Outboxed(k) => Outboxed(k)'
    BY <2>1 DEF Outboxed
  <2>4. QED BY <1>2, <2>2, <2>3
<1>3. QED BY <1>1, <1>2

\* No step takes a live key out of the outbox.
LEMMA OwedStays ==
    ASSUME TypeOK, OutboxInv, DeadInv, Next, NEW k \in live, Outboxed(k)
    PROVE Outboxed(k)'
<1>1. CASE UNCHANGED outbox
  BY <1>1 DEF Outboxed
<1>2. ASSUME NEW c \in Crons, DropRow(c) PROVE Outboxed(k)'
  <2>1. k # 0
    BY DEF TypeOK
  <2>2. ASSUME NEW x \in outbox, NEW b \in Backends, x.key[b] = k PROVE x \in outbox'
    BY <1>2, <2>1, <2>2 DEF DropRow, Cleared
  <2>3. QED BY <2>2 DEF Outboxed
<1>3. ASSUME NEW c \in Crons, Cron(c) \/ CronFails(c),
             ~Retire(c), ~NullKey(c), ~DropRow(c)
      PROVE UNCHANGED outbox
  BY <1>3
  DEF Cron, CronFails, CronStart, ListFences, FenceInbox, RecordFence, FencesDone,
      ListOutbox, NextRow, Purge, FenceFails, PurgeFails, CronDies
<1>4. ASSUME NEW r \in Requests, Request(r) \/ RequestFails(r) PROVE UNCHANGED outbox
  BY <1>4
  DEF Request, RecordActivity, ProvisionStart, ProvisionSelect, ProvisionUpdate,
      ProvisionInsert, RevokeStart, Revoke, Authenticate, Send, Mint, Swap,
      Destroy, Adopt, RequestFails, ActivityLost, LookupFails, MintRefused, MintLost,
      DestroyFails, RequestDies
<1>5. CASE Age \/ InboxRestored \/ \E j \in live : KeyDies(j)
  BY <1>1, <1>5 DEF Age, InboxRestored, KeyDies
<1>6. QED BY <1>1, <1>2, <1>3, <1>4, <1>5, RetireOwes, NullCustody DEF Next

LEMMA CronRowStep ==
    ASSUME NEW c \in Crons, Cron(c) \/ CronFails(c)
    PROVE /\ UNCHANGED req /\ live' \subseteq live
          /\ ~(Retire(c) /\ MayRetire(c)) => UNCHANGED <<account, ledger>>
  BY DEF Cron, CronFails, CronStart, Retire, ListFences, FenceInbox, RecordFence,
         FencesDone, ListOutbox, NextRow, Purge, NullKey, DropRow, FenceFails,
         PurgeFails, CronDies

LEMMA OtherSteps ==
    ASSUME Age \/ InboxRestored \/ \E k \in live : KeyDies(k)
    PROVE UNCHANGED <<account, tokens, keys, lineage, outbox, ledger, req, cron>>
          /\ live' \subseteq live
  BY DEF Age, InboxRestored, KeyDies

LEMMA EmptyStep ==
    ASSUME IInv, DeadInv, EmptyInv, Next PROVE EmptyInv'
<1>1. ASSUME NEW c \in Crons, Cron(c) \/ CronFails(c) PROVE EmptyInv'
  <2>1. Retire(c) /\ MayRetire(c) => account' = NoAccount
    BY DEF Retire, Remains
  <2>2. ~(Retire(c) /\ MayRetire(c)) => UNCHANGED account
    BY <1>1, CronRowStep
  <2>3. QED BY <2>1, <2>2 DEF EmptyInv, NoAccount
<1>2. CASE Age \/ InboxRestored \/ \E k \in live : KeyDies(k)
  BY <1>2, OtherSteps DEF EmptyInv
<1>3. QED BY <1>1, <1>2, RowStep DEF Next

\* A request is let in with the row's generation and keeps it to its end.
LEMMA BornRequest ==
    ASSUME IInv, NEW r \in Requests, Request(r) \/ RequestFails(r),
           NEW s \in Requests, req'[s].pc \in LetIn
    PROVE \/ req[s].pc \in LetIn /\ req'[s].gen = req[s].gen
          \/ account.present /\ req'[s].gen = account.gen
<1>1. TypeOK /\ req \in [Requests -> RequestRow]
  BY DEF IInv, TypeOK
<1>2. ASSUME NEW pc, ReqGoto(r, pc), req[r].pc \in LetIn \/ pc \notin LetIn
      PROVE req[s].pc \in LetIn /\ req'[s].gen = req[s].gen
  BY <1>1, <1>2, RequestSteps DEF Others
<1>3. ASSUME ReqDone(r) PROVE req[s].pc \in LetIn /\ req'[s].gen = req[s].gen
  BY <1>1, <1>3, RequestSteps DEF Others, NoRequest, LetIn
<1>4. ASSUME NEW b \in Served, Authenticate(r, b)
      PROVE \/ req[s].pc \in LetIn /\ req'[s].gen = req[s].gen
            \/ account.present /\ req'[s].gen = account.gen
  BY <1>1, <1>4 DEF Authenticate, Active
<1>5. ASSUME \/ Send(r) \/ LookupFails(r) \/ Mint(r) \/ Swap(r) \/ Destroy(r)
             \/ DestroyFails(r) \/ Adopt(r)
      PROVE \/ ReqDone(r)
            \/ ReqGoto(r, "destroy") /\ req[r].pc \in LetIn
            \/ req[s].pc \in LetIn /\ req'[s].gen = req[s].gen
  <2>1. CASE Send(r) \/ LookupFails(r)
    BY <1>1, <2>1 DEF Send, LookupFails, RequestRow, LetIn
  <2>2. CASE Mint(r)
    BY <1>1, <2>2 DEF Mint, NewKey, RequestRow, LetIn
  <2>3. CASE Swap(r)
    BY <1>1, <2>3 DEF Swap, RequestRow, LetIn
  <2>4. CASE Destroy(r) \/ DestroyFails(r)
    BY <1>1, <2>4 DEF Destroy, DestroyFails, RequestRow, LetIn
  <2>5. CASE Adopt(r)
    BY <1>1, <2>5 DEF Adopt, RequestRow, LetIn
  <2>6. QED BY <1>5, <2>1, <2>2, <2>3, <2>4, <2>5
<1>6. ASSUME RecordActivity(r) \/ ActivityLost(r)
      PROVE ReqDone(r) \/ \E pc : ReqGoto(r, pc) /\ req[r].pc \in LetIn
  BY <1>6 DEF RecordActivity, ActivityLost, AfterActivity, LetIn
<1>7. ASSUME \/ ProvisionStart(r) \/ ProvisionSelect(r) \/ ProvisionUpdate(r)
             \/ ProvisionInsert(r) \/ RevokeStart(r) \/ Revoke(r)
             \/ MintRefused(r) \/ MintLost(r) \/ RequestDies(r)
      PROVE ReqDone(r) \/ \E pc : ReqGoto(r, pc) /\ pc \notin LetIn
  <2>1. CASE ProvisionSelect(r)
    <3>1. ReqGoto(r, "update") \/ ReqGoto(r, "insert")
      BY <2>1 DEF ProvisionSelect
    <3>2. QED BY <3>1 DEF LetIn
  <2>2. CASE ~ProvisionSelect(r)
    BY <1>7, <2>2
    DEF ProvisionStart, ProvisionUpdate, ProvisionInsert, RevokeStart, Revoke,
        MintRefused, MintLost, RequestDies, LetIn
  <2>3. QED BY <2>1, <2>2
<1>8. QED BY <1>2, <1>3, <1>4, <1>5, <1>6, <1>7 DEF Request, RequestFails

LEMMA BornStep ==
    ASSUME IInv, BornInv, Next PROVE BornInv'
<1>1. TypeOK /\ TokenInv
  BY DEF IInv
<1>2. ASSUME NEW r \in Requests, Request(r) \/ RequestFails(r) PROVE BornInv'
  <2>1. /\ ledger' = ledger
        /\ ~account'.present => account'.gen = 0
        /\ account'.gen = account.gen \/ account.gen = 0
    <3>1. CASE UNCHANGED <<account, ledger>>
      BY <3>1 DEF BornInv
    <3>2. CASE ProvisionUpdate(r)
      BY <1>1, <3>2 DEF ProvisionUpdate, TypeOK, AccountRow, BornInv
    <3>3. CASE ProvisionInsert(r)
      BY <3>1, <3>3 DEF ProvisionInsert, NoAccount, BornInv
    <3>4. CASE Revoke(r)
      BY <1>1, <3>4 DEF Revoke, TypeOK, AccountRow, BornInv
    <3>5. CASE Swap(r)
      BY <1>1, <3>5 DEF Swap, TypeOK, AccountRow, BornInv
    <3>6. QED
      BY <1>2, <3>1, <3>2, <3>3, <3>4, <3>5
      DEF Request, RequestFails, RecordActivity, ProvisionStart, ProvisionSelect,
          RevokeStart, Authenticate, Send, Mint, Destroy, Adopt, ActivityLost,
          LookupFails, MintRefused, MintLost, DestroyFails, RequestDies
  <2>2. ASSUME NEW s \in Requests, req'[s].pc \in LetIn
        PROVE req'[s].gen # 0 /\ req'[s].gen \in ledger' \cup {account'.gen}
    <3>1. req'[s].gen # 0 /\ req'[s].gen \in ledger \cup {account.gen}
      BY <1>1, <1>2, <2>2, BornRequest DEF BornInv, TokenInv
    <3>2. QED BY <2>1, <3>1
  <2>3. QED BY <2>1, <2>2 DEF BornInv
<1>3. ASSUME NEW c \in Crons, Cron(c) \/ CronFails(c) PROVE BornInv'
  <2>1. CASE Retire(c) /\ MayRetire(c)
    <3>1. /\ ledger' = IF account.present THEN ledger \cup {account.gen} ELSE ledger
          /\ account' = NoAccount /\ UNCHANGED req
      BY <2>1 DEF Retire, Remains
    <3>2. ledger \cup {account.gen} \subseteq ledger' \cup {0}
      BY <3>1 DEF BornInv
    <3>3. QED BY <3>1, <3>2 DEF BornInv, NoAccount
  <2>2. QED BY <1>3, <2>1, CronRowStep DEF BornInv
<1>4. CASE Age \/ InboxRestored \/ \E k \in live : KeyDies(k)
  BY <1>4, OtherSteps DEF BornInv
<1>5. QED BY <1>2, <1>3, <1>4 DEF Next

LEMMA OwedStep ==
    ASSUME TypeOK, OutboxInv, DeadInv, OwedInv, Next PROVE OwedInv'
<1>1. ASSUME NEW c \in Crons, NEW y, y \in Read(c) \cup {NoRow} \cup outbox,
             NEW b \in Backends, y.key[b] \in live'
      PROVE Outboxed(y.key[b])'
  <2>1. y.key[b] \in 0 .. keys
    <3>1. NoRow \in OutboxRow
      BY Blank
    <3>2. y \in OutboxRow
      BY <1>1, <3>1 DEF Read, TypeOK, CronRow
    <3>3. QED BY <3>2 DEF OutboxRow, KeySets
  <2>2. y.key[b] \in live
    BY <1>1, <2>1, NoRebirth, Bounds
  <2>3. Outboxed(y.key[b])
    <3>1. CASE y \in Read(c)
      BY <2>2, <3>1 DEF OwedInv
    <3>2. CASE y = NoRow
      BY <2>2, <3>2, Bounds DEF NoRow, NoKeys, TypeOK
    <3>3. CASE y \in outbox
      BY <3>3 DEF Outboxed
    <3>4. QED BY <1>1, <3>1, <3>2, <3>3
  <2>4. QED BY <2>2, <2>3, OwedStays
<1>2. ASSUME NEW c \in Crons
      PROVE Read(c)' \subseteq Read(c) \cup {NoRow} \cup outbox
  <2>1. CASE \E d \in Crons : Cron(d) \/ CronFails(d)
    BY <2>1, ReadSteps
  <2>2. CASE \E r \in Requests : Request(r) \/ RequestFails(r)
    <3>1. UNCHANGED cron
      BY <2>2
      DEF Request, RecordActivity, ProvisionStart, ProvisionSelect, ProvisionUpdate,
          ProvisionInsert, RevokeStart, Revoke, Authenticate, Send, Mint, Swap,
          Destroy, Adopt, RequestFails, ActivityLost, LookupFails, MintRefused,
          MintLost, DestroyFails, RequestDies
    <3>2. QED BY <3>1 DEF Read
  <2>3. CASE Age \/ InboxRestored \/ \E k \in live : KeyDies(k)
    BY <2>3, OtherSteps DEF Read
  <2>4. QED BY <2>1, <2>2, <2>3 DEF Next
<1>3. QED BY <1>1, <1>2 DEF OwedInv

LEMMA InitLife == Init => LifeInv
<1>1. SUFFICES ASSUME Init PROVE LifeInv
  OBVIOUS
<1>2. OutboxInv /\ OwedInv
  BY <1>1 DEF Init, OutboxInv, OwedInv, Read, Copies
<1>3. DeadInv /\ EmptyInv /\ BornInv
  BY <1>1 DEF Init, DeadInv, EmptyInv, BornInv, LetIn, NoAccount, NoRequest
<1>4. QED BY <1>2, <1>3 DEF LifeInv

LEMMA LifeStep == ASSUME IInv, LifeInv, Trusted, [Next]_vars PROVE LifeInv'
<1>1. CASE Next
  BY <1>1, OutboxStep, DeadStep, EmptyStep, BornStep, OwedStep DEF IInv, LifeInv
<1>2. CASE UNCHANGED vars
  BY <1>2
  DEF vars, LifeInv, OutboxInv, DeadInv, EmptyInv, BornInv, OwedInv, Stored, Outboxed,
      Read, Copies
<1>3. QED BY <1>1, <1>2

-----------------------------------------------------------------------------
(* Custody *)

\* Who holds key k: the row, the outbox, or the request that minted it.
Held(k) == Stored(k) \/ Outboxed(k) \/ \E r \in Requests : req[r].minted = k

\* A request lets go of the key it minted only by storing or deleting it.
LEMMA MinterStep ==
    ASSUME IInv, Recorded, NEW r \in Requests, Request(r) \/ RequestFails(r),
           NEW s \in Requests, NEW k, req[s].minted = k, k # 0
    PROVE req'[s].minted = k \/ Stored(k)' \/ k \notin live'
<1>1. TypeOK /\ PlaceInv /\ req \in [Requests -> RequestRow]
  BY DEF IInv, TypeOK
<1>2. req[s].pc \in {"swap", "destroy"}
  BY DEF IInv, PlaceInv
<1>3. CASE s # r
  <2>1. req'[s] = req[s]
    BY <1>1, <1>3, RecordedFaults
    DEF Request, RequestFails, RecordActivity, AfterActivity, ReqGoto, ReqDone,
        ProvisionStart, ProvisionSelect, ProvisionUpdate, ProvisionInsert,
        RevokeStart, Revoke, Authenticate, Send, Mint, Swap, Destroy, Adopt,
        ActivityLost, MintRefused
  <2>2. QED BY <2>1
<1>4. CASE s = r
  <2>1. Swap(r) \/ Destroy(r)
    BY <1>2, <1>4, RecordedFaults
    DEF Request, RequestFails, RecordActivity, ProvisionStart, ProvisionSelect,
        ProvisionUpdate, ProvisionInsert, RevokeStart, Revoke, Authenticate, Send,
        Mint, NewKey, Adopt, ActivityLost, MintRefused
  <2>2. CASE Destroy(r)
    BY <1>4, <2>2 DEF Destroy
  <2>3. CASE Swap(r)
    <3>1. CASE ReqGoto(r, "destroy")
      BY <1>1, <1>4, <3>1, RequestSteps
    <3>2. CASE account' = [account EXCEPT !.key[req[r].b] = req[r].minted]
      <4>1. req[r].b \in Backends /\ account.key \in [Backends -> 0 .. keys]
        BY <1>1, Bounds DEF RequestRow, KeySets
      <4>2. account'.key[req[r].b] = req[r].minted
        BY <1>1, <3>2, <4>1 DEF TypeOK, AccountRow
      <4>3. QED BY <1>4, <4>1, <4>2 DEF Stored
    <3>3. QED BY <2>3, <3>1, <3>2 DEF Swap
  <2>4. QED BY <2>1, <2>2, <2>3
<1>5. QED BY <1>3, <1>4

LEMMA RequestCustody ==
    ASSUME IInv, LifeInv, KeysAccountedFor, Recorded,
           NEW r \in Requests, Request(r) \/ RequestFails(r)
    PROVE KeysAccountedFor'
<1>1. TypeOK /\ live \subseteq 1 .. keys
  BY DEF IInv, TypeOK
<1>2. \A k \in live : Stored(k) => Stored(k)'
  BY RowStep DEF LifeInv
<1>3. UNCHANGED outbox
  BY DEF Request, RecordActivity, ProvisionStart, ProvisionSelect, ProvisionUpdate,
         ProvisionInsert, RevokeStart, Revoke, Authenticate, Send, Mint, Swap,
         Destroy, Adopt, RequestFails, ActivityLost, LookupFails, MintRefused, MintLost,
         DestroyFails, RequestDies
<1>4. ASSUME NEW k \in live, k \in live'
      PROVE Stored(k)' \/ Outboxed(k)' \/ \E s \in Requests : req'[s].minted = k
  <2>1. CASE Stored(k)
    BY <1>2, <2>1
  <2>2. CASE Outboxed(k)
    BY <1>3, <2>2 DEF Outboxed
  <2>3. CASE \E s \in Requests : req[s].minted = k
    <3>1. PICK s \in Requests : req[s].minted = k
      BY <2>3
    <3>2. k # 0
      BY <1>1
    <3>3. QED BY <1>4, <3>1, <3>2, MinterStep
  <2>4. QED BY <2>1, <2>2, <2>3 DEF KeysAccountedFor
<1>5. live' \subseteq live \/ Mint(r)
  BY RecordedFaults
  DEF Request, RecordActivity, ProvisionStart, ProvisionSelect, ProvisionUpdate,
      ProvisionInsert, RevokeStart, Revoke, Authenticate, Send, Swap,
      Destroy, Adopt, RequestFails, ActivityLost, MintRefused
<1>6. ASSUME Mint(r) PROVE live' \subseteq live \cup {req'[r].minted}
  BY <1>1, <1>6 DEF Mint, NewKey, TypeOK, RequestRow
<1>7. ASSUME NEW k \in live'
      PROVE Stored(k)' \/ Outboxed(k)' \/ \E s \in Requests : req'[s].minted = k
  <2>1. k \in live \/ k = req'[r].minted
    BY <1>5, <1>6
  <2>2. QED BY <1>4, <2>1
<1>8. QED BY <1>7 DEF KeysAccountedFor

LEMMA CronCustody ==
    ASSUME IInv, LifeInv, KeysAccountedFor, Next,
           NEW c \in Crons, Cron(c) \/ CronFails(c)
    PROVE KeysAccountedFor'
<1>1. UNCHANGED req /\ live' \subseteq live
  BY CronRowStep
<1>2. ASSUME NEW k \in live, Outboxed(k) PROVE Outboxed(k)'
  BY <1>2, OwedStays DEF IInv, LifeInv
<1>3. ASSUME NEW k \in live, Stored(k) PROVE (Stored(k) \/ Outboxed(k))'
  <2>1. CASE Retire(c) /\ MayRetire(c)
    BY <1>3, <2>1, RetireOwes
  <2>2. CASE ~(Retire(c) /\ MayRetire(c))
    BY <1>3, <2>2, CronRowStep DEF Stored
  <2>3. QED BY <2>1, <2>2
<1>4. QED BY <1>1, <1>2, <1>3 DEF KeysAccountedFor

LEMMA CustodyStep ==
    ASSUME IInv, LifeInv, KeysAccountedFor, Recorded, [Next]_vars
    PROVE KeysAccountedFor'
<1>1. CASE Age \/ InboxRestored \/ \E k \in live : KeyDies(k)
  BY <1>1, OtherSteps DEF KeysAccountedFor, Stored, Outboxed
<1>2. CASE UNCHANGED vars
  BY <1>2 DEF vars, KeysAccountedFor, Stored, Outboxed
<1>3. CASE Next
  <2>1. ASSUME NEW r \in Requests, Request(r) \/ RequestFails(r) PROVE KeysAccountedFor'
    BY <2>1, RequestCustody
  <2>2. ASSUME NEW c \in Crons, Cron(c) \/ CronFails(c) PROVE KeysAccountedFor'
    BY <1>3, <2>2, CronCustody
  <2>3. QED BY <1>1, <1>3, <2>1, <2>2 DEF Next
<1>4. QED BY <1>2, <1>3

\* The key that a step takes out of the row of a living account is dead.
LEMMA ReplaceStep ==
    ASSUME IInv, LifeInv, Next, NEW b \in Backends,
           account.key[b] # 0, account'.present, account'.gen = account.gen,
           account'.key[b] # account.key[b]
    PROVE account.key[b] \notin live
<1>1. TypeOK /\ DeadInv /\ EmptyInv /\ TokenInv
  BY DEF IInv, LifeInv
<1>2. account.present
  BY <1>1 DEF EmptyInv, NoKeys
<1>3. ASSUME NEW r \in Requests, Request(r) \/ RequestFails(r)
      PROVE account.key[b] \notin live
  <2>1. account.key[b] \in live => Stored(account.key[b])
    BY DEF Stored
  <2>2. ~ProvisionUpdate(r) /\ ~ProvisionInsert(r) /\ ~Revoke(r)
    BY <1>1, <1>2 DEF ProvisionUpdate, ProvisionInsert, Revoke, TypeOK, AccountRow
  <2>3. Swap(r)
    BY <1>3, <2>2
    DEF Request, RecordActivity, ProvisionStart, ProvisionSelect, RevokeStart,
        Authenticate, Send, Mint, NewKey, Destroy, Adopt, RequestFails, ActivityLost,
        LookupFails, MintRefused, MintLost, DestroyFails, RequestDies
  <2>4. /\ Unswapped(r)
        /\ account' = [account EXCEPT !.key[req[r].b] = req[r].minted]
    BY <2>3 DEF Swap
  <2>5. b = req[r].b
    BY <1>1, <2>4, Bounds DEF TypeOK, AccountRow, KeySets
  <2>6. QED BY <1>1, <2>3, <2>4, <2>5 DEF Swap, Unswapped, DeadInv
<1>4. ASSUME NEW c \in Crons, Cron(c) \/ CronFails(c) PROVE FALSE
  <2>1. UNCHANGED account \/ account' = NoAccount
    BY <1>4
    DEF Cron, CronFails, CronStart, Retire, Remains, ListFences, FenceInbox,
        RecordFence, FencesDone, ListOutbox, NextRow, Purge, NullKey, DropRow,
        FenceFails, PurgeFails, CronDies
  <2>2. QED BY <2>1 DEF NoAccount
<1>5. ~Age /\ ~InboxRestored /\ \A k \in live : ~KeyDies(k)
  BY DEF Age, InboxRestored, KeyDies
<1>6. QED BY <1>3, <1>4, <1>5 DEF Next

\* What every await leaves true of the outbox, of dead keys and of generations,
\* whatever fails, as long as a failed lookup is not taken for an answer.
THEOREM LifeHolds == ASSUME Trusted PROVE Spec => [](IInv /\ LifeInv)
<1>1. Init => IInv /\ LifeInv
  BY InitInv, InitLife
<1>2. IInv /\ LifeInv /\ [Next]_vars => (IInv /\ LifeInv)'
  BY StepInv, LifeStep
<1>3. QED BY <1>1, <1>2, PTL DEF Spec

\* The invariant of custody, when no failure loses the record of a key.
THEOREM CustodyHolds == ASSUME Recorded PROVE Spec => [](IInv /\ KInv)
<1>1. Spec => [](IInv /\ LifeInv)
  BY LifeHolds, RecordedTrusted
<1>2. Init => KeysAccountedFor
  BY DEF Init, KeysAccountedFor
<1>3. IInv /\ LifeInv /\ KeysAccountedFor /\ [Next]_vars => KeysAccountedFor'
  BY CustodyStep
<1>4. KInv <=> LifeInv /\ KeysAccountedFor
  BY DEF KInv
<1>5. QED BY <1>1, <1>2, <1>3, <1>4, PTL DEF Spec

\* However requests race to mint, swap and adopt, whichever of them loses, and
\* wherever retirement takes the row from under them, no live key is forgotten.
THEOREM KeysAreAccountedFor == ASSUME Recorded PROVE Spec => []KeysAccountedFor
<1>1. KInv => KeysAccountedFor
  BY DEF KInv
<1>2. QED BY <1>1, CustodyHolds, PTL

\* Whatever else fails, as long as a failed lookup is not taken for an answer, a
\* stored key and the spending counted on it are replaced only when the provider
\* lost the key.
THEOREM LiveKeysAreKept == ASSUME Trusted PROVE Spec => OnlyDeadKeysReplaced
<1>1. IInv /\ LifeInv /\ [Next]_vars
        => [\A b \in Backends :
              LET k == account.key[b] IN
              k # 0 /\ account'.present /\ account'.gen = account.gen
                 /\ account'.key[b] # k => k \notin live]_vars
  BY ReplaceStep
<1>2. QED BY <1>1, LifeHolds, PTL DEF Spec, OnlyDeadKeysReplaced

-----------------------------------------------------------------------------
(* The implementation of KeyCustody *)

\* Where a key is, read off the tables.
LEMMA CustodyCases ==
    ASSUME IInv, NEW k \in 1 .. MaxKeys
    PROVE /\ k > keys => CustodyOf(k) = "unborn"
          /\ k <= keys /\ k \notin live => CustodyOf(k) = "dead"
          /\ k \in live /\ Outboxed(k) => CustodyOf(k) = "owed"
          /\ k \in live /\ Stored(k)
               => CustodyOf(k) \in Backends /\ account.key[CustodyOf(k)] = k
          /\ k \in live /\ ~Stored(k) /\ ~Outboxed(k) => CustodyOf(k) = "minted"
          /\ k \notin live => CustodyOf(k) \in {"unborn", "dead"}
          /\ k \in live => k <= keys
<1>1. /\ live \subseteq 1 .. keys /\ keys \in Nat /\ MaxKeys \in Nat
      /\ k \in live => ~(Stored(k) /\ Outboxed(k))
  BY AccountAssumption DEF IInv, TypeOK, PlaceInv, RetirementSparesCurrent
<1>2. Stored(k) <=> account.key["openrouter"] = k \/ account.key["tinfoil"] = k
  BY DEF Stored, Backends
<1>3. QED BY <1>1, <1>2 DEF CustodyOf, Backends

LEMMA LiveKeys ==
    ASSUME IInv, NEW k \in live PROVE k \in 1 .. MaxKeys /\ k \in 1 .. keys
<1>1. TypeOK
  BY DEF IInv
<1>2. live \subseteq 1 .. keys /\ keys \in 0 .. MaxKeys
  BY <1>1 DEF TypeOK
<1>3. MaxKeys \in Nat
  BY AccountAssumption
<1>4. QED BY <1>2, <1>3

\* A key stays where it is when no table says anything new about it.
LEMMA CustodySame ==
    ASSUME UNCHANGED keys, NEW k, k \in live' <=> k \in live,
           k \in live => /\ \A b \in Backends : account'.key[b] = k <=> account.key[b] = k
                         /\ Outboxed(k)' <=> Outboxed(k)
    PROVE CustodyOf(k)' = CustodyOf(k)
  BY DEF CustodyOf, Backends

LEMMA RowsSame ==
    ASSUME UNCHANGED <<keys, live, outbox>>, account'.key = account.key, NEW k
    PROVE CustodyOf(k)' = CustodyOf(k)
  BY CustodySame DEF Outboxed

\* What an onlooker sees of the account and its keys.
Seen == <<account.gen, ledger, [k \in 1 .. MaxKeys |-> CustodyOf(k)], lineage, faults>>

LEMMA SeenSame ==
    ASSUME UNCHANGED <<keys, live, outbox, ledger, lineage>>,
           account'.gen = account.gen, account'.key = account.key
    PROVE /\ faults' = faults => UNCHANGED Seen
          /\ faults' = faults + 1 => Custody!Next
<1>1. \A k : CustodyOf(k)' = CustodyOf(k)
  BY RowsSame
<1>2. QED BY <1>1 DEF Seen, Custody!Next, Custody!Mishap

\* The end of one key.
LEMMA KeyEnds ==
    ASSUME IInv, NEW k, live' = live \ {k},
           UNCHANGED <<keys, outbox, ledger, lineage, account>>
    PROVE /\ faults' = faults /\ (k \in live => CustodyOf(k) \in {"minted", "owed"})
               => UNCHANGED Seen \/ Custody!Next
          /\ faults' = faults + 1 => Custody!Next
<1>1. CASE k \notin live
  BY <1>1, SeenSame
<1>2. CASE k \in live
  <2>1. k \in 1 .. MaxKeys /\ k <= keys
    BY <1>2, Bounds, AccountAssumption DEF IInv, TypeOK
  <2>2. \A j \in 1 .. MaxKeys : j # k => CustodyOf(j)' = CustodyOf(j)
    BY CustodySame DEF Outboxed
  <2>3. CustodyOf(k)' = "dead"
    BY <2>1, Bounds DEF CustodyOf, IInv
  <2>4. CustodyOf(k) \notin {"unborn", "dead"}
    BY <1>2, <2>1, CustodyCases DEF Backends
  <2>5. [j \in 1 .. MaxKeys |-> CustodyOf(j)']
          = [[j \in 1 .. MaxKeys |-> CustodyOf(j)] EXCEPT ![k] = "dead"]
    BY <2>1, <2>2, <2>3
  <2>6. faults' = faults + 1 => Custody!Vanish(k)
    BY <2>1, <2>4, <2>5 DEF Custody!Vanish
  <2>7. faults' = faults /\ CustodyOf(k) \in {"minted", "owed"} => Custody!Delete(k)
    BY <2>1, <2>5 DEF Custody!Delete
  <2>8. QED BY <1>2, <2>1, <2>6, <2>7 DEF Custody!Next
<1>3. QED BY <1>1, <1>2

\* A key that is made is nobody's but its minter's.
LEMMA KeyMade ==
    ASSUME IInv, BornInv, NEW r \in Requests, NewKey(r), NEW k, k = keys + 1,
           UNCHANGED <<outbox, ledger, account>>, faults' \in {faults, faults + 1}
    PROVE Custody!Next
<1>1. /\ TypeOK /\ k \in 1 .. MaxKeys /\ keys \in Nat
      /\ keys' = k /\ live' = live \cup {k} /\ live \subseteq 1 .. keys
      /\ lineage' = [lineage EXCEPT ![k] = req[r].gen]
  BY AccountAssumption DEF IInv, TypeOK, NewKey
<1>2. req[r].gen # 0 /\ req[r].gen \in ledger \cup {account.gen}
  BY DEF BornInv, NewKey, LetIn
<1>3. ASSUME NEW x \in outbox, NEW b \in Backends PROVE x.key[b] # k
  <2>1. x.key[b] \in 0 .. keys
    BY <1>1 DEF TypeOK, OutboxRow, KeySets
  <2>2. QED BY <1>1, <2>1
<1>4. ~Outboxed(k)' /\ \A b \in Backends : account'.key[b] # k
  <2>1. ASSUME NEW b \in Backends PROVE account.key[b] # k
    <3>1. account.key[b] \in 0 .. keys
      BY <1>1, Bounds DEF KeySets
    <3>2. QED BY <1>1, <3>1
  <2>2. QED BY <1>3, <2>1 DEF Outboxed
<1>5. CustodyOf(k)' = "minted" /\ CustodyOf(k) = "unborn"
  BY <1>1, <1>4 DEF CustodyOf, Backends
<1>6. ASSUME NEW j \in 1 .. MaxKeys, j # k PROVE CustodyOf(j)' = CustodyOf(j)
  <2>1. (j > keys' <=> j > keys) /\ (j \in live' <=> j \in live)
    BY <1>1, <1>6
  <2>2. QED BY <2>1 DEF CustodyOf, Outboxed
<1>7. [j \in 1 .. MaxKeys |-> CustodyOf(j)']
        = [[j \in 1 .. MaxKeys |-> CustodyOf(j)] EXCEPT ![k] = "minted"]
  BY <1>1, <1>5, <1>6
<1>8. Custody!Make(k)
  BY <1>1, <1>2, <1>5, <1>7 DEF Custody!Make
<1>9. QED BY <1>1, <1>8 DEF Custody!Next

\* What a swap puts in the row serves from then on, and the key it takes out was
\* dead already.
LEMMA SwapServes ==
    ASSUME IInv, DeadInv, NEW r \in Requests, Swap(r)
    PROVE UNCHANGED Seen \/ Custody!Next
<1>1. CASE ~(Authority(r) /\ Unswapped(r))
  BY <1>1, SeenSame DEF Swap
<1>2. CASE Authority(r) /\ Unswapped(r)
  <2> DEFINE b == req[r].b
             k == req[r].minted
             old == account.key[b]
  <2>1. /\ TypeOK /\ TokenInv /\ b \in Backends /\ k \in 0 .. keys /\ keys \in Nat
        /\ account.key \in KeySets /\ live \subseteq 1 .. keys
        /\ keys \in 0 .. MaxKeys /\ MaxKeys \in Nat
    BY Bounds, AccountAssumption DEF IInv, TypeOK, RequestRow
  <2>2. /\ account' = [account EXCEPT !.key[b] = k]
        /\ UNCHANGED <<live, keys, lineage, outbox, ledger, faults>>
        /\ old \notin live
    BY <1>2 DEF Swap, Unswapped, DeadInv
  <2>3. /\ account'.gen = account.gen
        /\ \A d \in Backends : account'.key[d] = IF d = b THEN k ELSE account.key[d]
    BY <2>1, <2>2 DEF TypeOK, AccountRow, KeySets
  <2> HIDE DEF b, k, old
  <2>4. ASSUME NEW j, j # k \/ j \notin live PROVE CustodyOf(j)' = CustodyOf(j)
    <3>1. j \in live => \A d \in Backends : account'.key[d] = j <=> account.key[d] = j
      BY <2>2, <2>3, <2>4 DEF old
    <3>2. QED BY <2>2, <3>1, CustodySame DEF Outboxed
  <2>5. CASE k \notin live
    <3>1. \A j : CustodyOf(j)' = CustodyOf(j)
      BY <2>4, <2>5
    <3>2. QED BY <2>2, <2>3, <3>1 DEF Seen
  <2>6. ASSUME NEW n \in live, n = k PROVE Custody!Next
    <3>1. /\ n \in 1 .. keys /\ n \in 1 .. MaxKeys /\ ~Stored(n) /\ ~Outboxed(n)
          /\ lineage[n] = req[r].gen /\ req[r].gen = account.gen
      <4>1. n \in 1 .. keys /\ n \in 1 .. MaxKeys /\ n # 0
        BY <2>1, <2>6, LiveKeys
      <4>2. req[r].minted # 0
        BY <2>6, <4>1 DEF k
      <4>3. ~Stored(req[r].minted) /\ ~Outboxed(req[r].minted)
        BY <4>2 DEF IInv, PlaceInv
      <4>4. lineage[req[r].minted] = req[r].gen
        BY <4>2 DEF IInv, LineageInv
      <4>5. req[r].gen = account.gen
        BY <1>2, SameGeneration DEF IInv
      <4>6. QED BY <2>6, <4>1, <4>3, <4>4, <4>5 DEF k
    <3>2. CustodyOf(n) = "minted"
      BY <2>6, <3>1, CustodyCases
    <3>3. CustodyOf(n)' = b
      <4>1. n \in live' /\ n <= keys' /\ ~(n > keys')
        BY <2>1, <2>2, <3>1
      <4>2. \A d \in Backends : account'.key[d] = n <=> d = b
        BY <2>3, <2>6, <3>1 DEF Stored
      <4>3. QED BY <2>1, <4>1, <4>2 DEF CustodyOf, Backends
    <3>4. ASSUME NEW j \in 1 .. MaxKeys PROVE CustodyOf(j) # b
      <4>1. CASE j \in live
        <5>1. \/ CustodyOf(j) \in {"owed", "minted"}
              \/ account.key[CustodyOf(j)] = j
          BY <4>1, CustodyCases
        <5>2. b \notin {"owed", "minted"}
          BY <2>1 DEF Backends
        <5>3. CustodyOf(j) = b => account.key[b] = j
          BY <5>1, <5>2
        <5>4. QED BY <2>2, <4>1, <5>3 DEF old
      <4>2. CASE j \notin live
        BY <2>1, <4>2, CustodyCases DEF Backends
      <4>3. QED BY <4>1, <4>2
    <3>5. [j \in 1 .. MaxKeys |-> CustodyOf(j)']
            = [[j \in 1 .. MaxKeys |-> CustodyOf(j)] EXCEPT ![n] = b]
      <4>1. \A j \in 1 .. MaxKeys : j # n => CustodyOf(j)' = CustodyOf(j)
        BY <2>4, <2>6
      <4>2. QED BY <3>1, <3>3, <4>1
    <3>6. Custody!Serve(n)
      BY <2>1, <2>2, <2>3, <3>1, <3>2, <3>4, <3>5 DEF Custody!Serve
    <3>7. QED BY <3>1, <3>6 DEF Custody!Next
  <2>7. QED BY <2>5, <2>6
<1>3. QED BY <1>1, <1>2

\* A row that is inserted is a generation that was never before.
LEMMA InsertGrants ==
    ASSUME IInv, EmptyInv, BornInv, NEW r \in Requests, ProvisionInsert(r)
    PROVE UNCHANGED Seen \/ Custody!Next
<1>1. CASE account.present
  BY <1>1, SeenSame DEF ProvisionInsert
<1>2. CASE ~account.present
  <2>1. /\ account'.gen = tokens + 1 /\ account'.key = account.key /\ account.gen = 0
        /\ UNCHANGED <<keys, live, outbox, ledger, lineage, faults>>
        /\ tokens < MaxTokens
    BY <1>2 DEF ProvisionInsert, NoAccount, EmptyInv, BornInv
  <2>2. tokens + 1 \in 1 .. MaxTokens /\ tokens + 1 \notin ledger
    BY <2>1, AccountAssumption DEF IInv, TypeOK
  <2>3. \A k : CustodyOf(k)' = CustodyOf(k)
    BY <2>1, RowsSame
  <2>4. Custody!Grant
    BY <2>1, <2>2, <2>3 DEF Custody!Grant
  <2>5. QED BY <2>4 DEF Custody!Next
<1>3. QED BY <1>1, <1>2

\* The batch that retires a generation leaves its keys owed.
LEMMA RetireEnds ==
    ASSUME IInv, EmptyInv, BornInv, NEW c \in Crons, Retire(c)
    PROVE UNCHANGED Seen \/ Custody!Next
<1>1. UNCHANGED <<keys, live, lineage, faults>>
  BY DEF Retire
<1>2. CASE ~MayRetire(c)
  <2>1. UNCHANGED <<account, outbox, ledger>>
    BY <1>2 DEF Retire
  <2>2. QED BY <1>1, <2>1, SeenSame
<1>3. CASE MayRetire(c)
  <2> DEFINE new == [id |-> drawn + 1, key |-> account.key]
  <2>1. /\ outbox' = outbox \cup {new} /\ account' = NoAccount
        /\ ledger' = IF account.present THEN ledger \cup {account.gen} ELSE ledger
    BY <1>3 DEF Retire, Remains
  <2>2. \A k : Outboxed(k)' <=> Outboxed(k) \/ Stored(k)
    <3>1. new.key = account.key
      OBVIOUS
    <3>2. QED BY <2>1, <3>1 DEF Outboxed, Stored
  <2>3. account'.gen = 0 /\ \A b \in Backends : account'.key[b] = 0
    BY <2>1 DEF NoAccount, NoKeys
  <2>4. live \subseteq 1 .. keys /\ keys \in Nat
    BY Bounds DEF IInv, TypeOK
  <2>5. ASSUME NEW k \in 1 .. MaxKeys
        PROVE CustodyOf(k)' = IF CustodyOf(k) \in Backends THEN "owed" ELSE CustodyOf(k)
    <3>1. CASE k \notin live
      <4>1. CustodyOf(k)' = CustodyOf(k)
        BY <1>1, <3>1, CustodySame
      <4>2. QED BY <3>1, <4>1, CustodyCases DEF Backends
    <3>2. CASE k \in live
      <4>1. k \in live' /\ k <= keys' /\ ~(k > keys') /\ k # 0
        BY <1>1, <2>4, <3>2
      <4>2. CustodyOf(k)' = IF Outboxed(k)' THEN "owed" ELSE "minted"
        BY <2>3, <4>1 DEF CustodyOf, Backends
      <4>3. QED BY <2>2, <3>2, <4>2, CustodyCases DEF Backends
    <3>3. QED BY <3>1, <3>2
  <2>6. CASE account.present
    <3>1. account.gen # 0 /\ ledger' = ledger \cup {account.gen}
      BY <2>1, <2>6 DEF IInv, TokenInv
    <3>2. Custody!End
      BY <1>1, <2>3, <2>5, <3>1 DEF Custody!End
    <3>3. QED BY <3>2 DEF Custody!Next
  <2>7. CASE ~account.present
    <3>1. account.gen = 0 /\ account.key = NoKeys
      BY <2>7 DEF EmptyInv, BornInv
    <3>2. \A k \in 1 .. MaxKeys : CustodyOf(k) \notin Backends
      <4>1. ASSUME NEW k \in live PROVE ~Stored(k)
        BY <2>4, <3>1 DEF Stored, NoKeys
      <4>2. QED BY <4>1, CustodyCases DEF Backends
    <3>3. UNCHANGED Seen
      BY <1>1, <2>1, <2>3, <2>5, <2>7, <3>1, <3>2 DEF Seen
    <3>4. QED BY <3>3
  <2>8. QED BY <2>6, <2>7
<1>4. QED BY <1>2, <1>3

\* Nulling a key and dropping a row change what is owed only of dead keys.
LEMMA OutboxShrinks ==
    ASSUME IInv, LifeInv, Next, NEW c \in Crons, NullKey(c) \/ DropRow(c)
    PROVE UNCHANGED Seen
<1>1. UNCHANGED <<account, keys, live, lineage, ledger, faults>>
  BY DEF NullKey, DropRow
<1>2. ASSUME NEW k \in live, Outboxed(k)' PROVE Outboxed(k)
  <2>1. QuietCron
    BY QuietCrons DEF Cron, Retire, NullKey, DropRow
  <2>2. k \in 1 .. keys
    BY DEF IInv, TypeOK
  <2>3. QED BY <1>2, <2>1, <2>2 DEF QuietCron
<1>3. \A k : CustodyOf(k)' = CustodyOf(k)
  BY <1>1, <1>2, OwedStays, CustodySame DEF IInv, LifeInv
<1>4. QED BY <1>1, <1>3 DEF Seen

\* A purge deletes what is owed.
LEMMA PurgeEnds ==
    ASSUME IInv, LifeInv, NEW c \in Crons, Purge(c) \/ PurgeFails(c)
    PROVE UNCHANGED Seen \/ Custody!Next
<1> DEFINE k == cron[c].row.key[cron[c].b]
<1>1. UNCHANGED <<keys, outbox, ledger, lineage, account>>
  BY DEF Purge, PurgeFails
<1>2. k \in live => CustodyOf(k) = "owed"
  <2>1. cron[c].b \in Backends /\ cron[c].row \in Read(c)
    BY DEF IInv, TypeOK, CronRow, Read
  <2>2. k \in live => Outboxed(k)
    <3>1. \A y \in Read(c) : \A b \in Backends : y.key[b] \in live => Outboxed(y.key[b])
      BY DEF LifeInv, OwedInv
    <3>2. QED BY <2>1, <3>1
  <2>3. k \in live => k \in 1 .. MaxKeys
    BY LiveKeys
  <2>4. QED BY <2>2, <2>3, CustodyCases
<1>3. \/ live' = live \ {k} /\ faults' = faults
      \/ live' = live \ {k} /\ faults' = faults + 1
      \/ live' = live /\ faults' = faults + 1
  BY DEF Purge, PurgeFails, Fault
<1> HIDE DEF k
<1>4. QED BY <1>1, <1>2, <1>3, KeyEnds, SeenSame

LEMMA RequestCustodyStep ==
    ASSUME IInv, LifeInv, NEW r \in Requests, Request(r) \/ RequestFails(r)
    PROVE UNCHANGED Seen \/ Custody!Next
<1>1. CASE \/ RecordActivity(r) \/ ProvisionStart(r) \/ ProvisionSelect(r)
           \/ RevokeStart(r) \/ (\E b \in Served : Authenticate(r, b))
           \/ Send(r) \/ Adopt(r)
  BY <1>1, SeenSame
  DEF RecordActivity, ProvisionStart, ProvisionSelect, RevokeStart, Authenticate, Send,
      Adopt
<1>2. CASE ProvisionUpdate(r) \/ Revoke(r)
  <2>1. account'.gen = account.gen /\ account'.key = account.key
    <3>1. CASE ProvisionUpdate(r)
      BY <3>1 DEF ProvisionUpdate, IInv, TypeOK, AccountRow
    <3>2. CASE Revoke(r)
      BY <3>2 DEF Revoke, IInv, TypeOK, AccountRow
    <3>3. QED BY <1>2, <3>1, <3>2
  <2>2. QED BY <1>2, <2>1, SeenSame DEF ProvisionUpdate, Revoke
<1>3. CASE Mint(r) \/ MintLost(r)
  BY <1>3, KeyMade DEF Mint, MintLost, Fault, LifeInv
<1>4. CASE Destroy(r)
  <2>1. req[r].minted \in live => CustodyOf(req[r].minted) = "minted"
    <3>1. req[r].minted \in live => req[r].minted \in 1 .. MaxKeys /\ req[r].minted # 0
      BY LiveKeys
    <3>2. req[r].minted # 0 => ~Stored(req[r].minted) /\ ~Outboxed(req[r].minted)
      BY DEF IInv, PlaceInv
    <3>3. QED BY <3>1, <3>2, CustodyCases
  <2>2. QED BY <1>4, <2>1, KeyEnds DEF Destroy
<1>5. CASE \/ ActivityLost(r) \/ LookupFails(r) \/ MintRefused(r) \/ DestroyFails(r)
           \/ RequestDies(r)
  BY <1>5, SeenSame
  DEF ActivityLost, LookupFails, MintRefused, DestroyFails, RequestDies, Fault
<1>6. QED
  BY <1>1, <1>2, <1>3, <1>4, <1>5, InsertGrants, SwapServes
  DEF Request, RequestFails, LifeInv

LEMMA CronCustodyStep ==
    ASSUME IInv, LifeInv, Next, NEW c \in Crons, Cron(c) \/ CronFails(c)
    PROVE UNCHANGED Seen \/ Custody!Next
<1>1. CASE \/ CronStart(c) \/ ListFences(c) \/ FenceInbox(c) \/ RecordFence(c)
           \/ FencesDone(c) \/ ListOutbox(c) \/ NextRow(c)
           \/ FenceFails(c) \/ CronDies(c)
  BY <1>1, SeenSame
  DEF CronStart, ListFences, FenceInbox, RecordFence, FencesDone, ListOutbox, NextRow,
      FenceFails, CronDies, Fault
<1>2. QED
  BY <1>1, RetireEnds, PurgeEnds, OutboxShrinks DEF Cron, CronFails, LifeInv

LEMMA IsCustodyStep ==
    ASSUME IInv, LifeInv, [Next]_vars PROVE UNCHANGED Seen \/ Custody!Next
<1>1. CASE UNCHANGED vars
  BY <1>1, SeenSame DEF vars
<1>2. CASE Age \/ InboxRestored
  BY <1>2, SeenSame DEF Age, InboxRestored, Fault
<1>3. ASSUME NEW k \in live, KeyDies(k) PROVE Custody!Next
  BY <1>3, KeyEnds DEF KeyDies, Fault
<1>4. ASSUME NEW r \in Requests, Request(r) \/ RequestFails(r)
      PROVE UNCHANGED Seen \/ Custody!Next
  BY <1>4, RequestCustodyStep
<1>5. ASSUME Next, NEW c \in Crons, Cron(c) \/ CronFails(c)
      PROVE UNCHANGED Seen \/ Custody!Next
  BY <1>5, CronCustodyStep
<1>6. QED BY <1>1, <1>2, <1>3, <1>4, <1>5 DEF Next

LEMMA CustodyStarts == Init => Custody!Init
<1>1. SUFFICES ASSUME Init PROVE Custody!Init
  OBVIOUS
<1>2. \A k \in 1 .. MaxKeys : CustodyOf(k) = "unborn"
  BY <1>1, AccountAssumption DEF Init, CustodyOf
<1>3. QED BY <1>1, <1>2 DEF Init, NoAccount, Custody!Init

\* Whatever fails but a lookup taken for an answer, and however requests,
\* retirements and purges overlap: keys go only forward, one living key serves a
\* backend, a generation ends together with the service of its keys, and no key
\* is deleted by the code while it serves (swapBackendKey, retireInactiveUser,
\* cleanupInactiveUsers).
THEOREM CustodyIsKept == ASSUME Trusted PROVE Spec => KeepsCustody
<1>1. Init => Custody!Init
  BY CustodyStarts
<1>2. IInv /\ LifeInv /\ [Next]_vars => [Custody!Next]_Seen
  BY IsCustodyStep
<1>3. QED BY <1>1, <1>2, LifeHolds, PTL DEF Spec, KeepsCustody, Custody!Spec, Seen
=============================================================================
