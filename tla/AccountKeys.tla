----------------------------- MODULE AccountKeys -----------------------------
(***************************************************************************)
(* The account of one e-mail address in the API Worker: its ordinary token, *)
(* its provider keys and its retirement (src/api/src/provision.ts,          *)
(* routes/key.ts, utils/backend.ts, userActivity.ts, userRetention.ts).     *)
(* Every statement of these files selects rows by e-mail address or by a    *)
(* fresh id, so accounts of different addresses do not interact.            *)
(*                                                                         *)
(* One D1 statement or batch is one action, one provider call is one        *)
(* action, and any other invocation may run between two of them.            *)
(*                                                                         *)
(* The caller of a request holds an ordinary token; the account has no      *)
(* sandbox, browser session or preview, which would put off its retirement. *)
(*                                                                         *)
(* A definition named Mutant... is what a plausible bug would make of the   *)
(* one after it; nothing uses it but the mutation runs.                     *)
(***************************************************************************)
EXTENDS Integers, FiniteSets

CONSTANTS
    Requests,       \* concurrent Worker invocations for the address
    Crons,          \* scheduled invocations
    Served,         \* the backends the requests call
    FaultKinds,     \* the failures that may happen
    MaxKeys,        \* bound on provider keys minted
    MaxTokens,      \* bound on tokens issued
    MaxPeriod,      \* bound on retention periods that pass
    MaxFaults       \* bound on failures

Backends == {"openrouter", "tinfoil"}

ASSUME AccountAssumption ==
    /\ {MaxKeys, MaxTokens, MaxFaults} \subseteq Nat
    /\ MaxPeriod \in Nat \ {0}
    /\ Served \subseteq Backends

VARIABLES
    period,     \* the clock, in retention periods
    user,       \* table users: the period of last_active_at
    account,    \* table user_keys
    tokens,     \* tokens issued so far
    keys,       \* provider keys minted so far
    lineage,    \* for each key, the account generation it was minted for
    live,       \* keys that exist at their provider
    outbox,     \* table user_retention_outbox
    drawn,      \* random ids drawn for its rows so far
    ledger,     \* table inbox_retirements
    fenced,     \* its rows with fenced_at set
    inbox,      \* the inbox Worker's retired_owners
    req,        \* request invocations
    cron,       \* scheduled invocations
    faults      \* failures so far

local == <<period, user, account, tokens>>
provider == <<keys, lineage, live>>
retirement == <<outbox, drawn, ledger, fenced, inbox>>
vars == <<local, provider, retirement, req, cron, faults>>

-----------------------------------------------------------------------------
(* Rows.  0 is the NULL of a key, a token or an activity. *)

NoKeys == [b \in Backends |-> 0]
NoAccount == [present |-> FALSE, gen |-> 0, token |-> 0, revoked |-> FALSE,
              key |-> NoKeys]
NoRequest == [pc |-> "idle", b |-> "openrouter", gen |-> 0, token |-> 0,
              key |-> 0, minted |-> 0, healed |-> FALSE]
NoRow == [id |-> 0, key |-> NoKeys]
NoCron == [pc |-> "idle", seen |-> 0, cutoff |-> 0, replay |-> FALSE,
           gens |-> {}, at |-> 0, rows |-> {}, row |-> NoRow,
           b |-> "openrouter"]

Active == account.present /\ ~account.revoked

KeySets == [Backends -> 0 .. keys]
OutboxRow == [id : 0 .. drawn, key : KeySets]

RequestStates == {"idle", "activity", "send", "mint", "swap", "destroy",
                  "adopt", "revoke", "select", "update", "insert",
                  "established"}
CronStates == {"idle", "retire", "list", "fence", "record", "rows", "row",
               "purge", "null", "drop"}

AccountRow ==
    [present : BOOLEAN, gen : 0 .. tokens, token : 0 .. tokens,
     revoked : BOOLEAN, key : KeySets]
RequestRow ==
    [pc : RequestStates, b : Backends, gen : 0 .. tokens, token : 0 .. tokens,
     key : 0 .. keys, minted : 0 .. keys, healed : BOOLEAN]
CronRow ==
    [pc : CronStates, seen : 0 .. period, cutoff : 0 .. period,
     replay : BOOLEAN, gens : SUBSET ledger, at : 0 .. tokens,
     rows : SUBSET OutboxRow, row : OutboxRow, b : Backends]

\* Every variable has its shape, and no stored time or id is from the future.
TypeOK ==
    /\ period \in 1 .. MaxPeriod /\ user \in 0 .. period
    /\ tokens \in 0 .. MaxTokens /\ keys \in 0 .. MaxKeys
    /\ account \in AccountRow
    /\ lineage \in [1 .. MaxKeys -> 0 .. tokens]
    /\ live \subseteq 1 .. keys
    /\ outbox \subseteq OutboxRow /\ drawn \in Nat
    /\ fenced \subseteq ledger /\ ledger \subseteq 1 .. tokens
    /\ inbox \subseteq ledger
    /\ req \in [Requests -> RequestRow]
    /\ cron \in [Crons -> CronRow]
    /\ faults \in 0 .. MaxFaults

Init ==
    /\ period = 1 /\ user = 0 /\ account = NoAccount /\ tokens = 0
    /\ keys = 0 /\ lineage = [k \in 1 .. MaxKeys |-> 0] /\ live = {}
    /\ outbox = {} /\ drawn = 0 /\ ledger = {} /\ fenced = {} /\ inbox = {}
    /\ req = [r \in Requests |-> NoRequest]
    /\ cron = [c \in Crons |-> NoCron]
    /\ faults = 0

Fault(kind) ==
    kind \in FaultKinds /\ faults < MaxFaults /\ faults' = faults + 1

ReqGoto(r, pc) == req' = [req EXCEPT ![r].pc = pc]
ReqDone(r) == req' = [req EXCEPT ![r] = NoRequest]

-----------------------------------------------------------------------------
(* Activity *)

\* Eighteen months without anything pass.
Age ==
    /\ period < MaxPeriod
    /\ period' = period + 1
    /\ UNCHANGED <<user, account, tokens, provider, retirement, req, cron, faults>>

Stamp == period

\* Where a request goes once recordUserActivity has returned.
AfterActivity(r) ==
    IF req[r].pc = "established" THEN ReqDone(r)
    ELSE ReqGoto(r, IF req[r].key = 0 THEN "mint" ELSE "send")

\* An upsert: it makes the users row again when a retirement removed it.
RecordActivity(r) ==
    /\ req[r].pc \in {"activity", "established"}
    /\ user' = Stamp
    /\ AfterActivity(r)
    /\ UNCHANGED <<period, account, tokens, provider, retirement, cron, faults>>

\* Its failure is swallowed.
ActivityLost(r) ==
    /\ req[r].pc \in {"activity", "established"}
    /\ Fault("activity_lost")
    /\ AfterActivity(r)
    /\ UNCHANGED <<local, provider, retirement, cron>>

-----------------------------------------------------------------------------
(* Tokens: POST /key and DELETE /key *)

\* getActiveRow finds no row.
ProvisionStart(r) ==
    /\ req[r].pc = "idle" /\ ~Active
    /\ ReqGoto(r, "select")
    /\ UNCHANGED <<local, provider, retirement, cron, faults>>

\* provisionToken looks for a revoked row to reuse.
ProvisionSelect(r) ==
    /\ req[r].pc = "select"
    /\ ReqGoto(r, IF account.present /\ account.revoked THEN "update" ELSE "insert")
    /\ UNCHANGED <<local, provider, retirement, cron, faults>>

\* The UPDATE names the e-mail address only; provider keys are kept.
ProvisionUpdate(r) ==
    /\ req[r].pc = "update" /\ tokens < MaxTokens
    /\ tokens' = tokens + 1
    /\ account' = IF account.present
                  THEN [account EXCEPT !.token = tokens + 1, !.revoked = FALSE]
                  ELSE account
    /\ ReqGoto(r, "established")
    /\ UNCHANGED <<period, user, provider, retirement, cron, faults>>

\* The INSERT throws when a row exists; a new row is a new generation.
ProvisionInsert(r) ==
    /\ req[r].pc = "insert" /\ tokens < MaxTokens
    /\ IF account.present
       THEN ReqDone(r) /\ UNCHANGED <<account, tokens>>
       ELSE /\ tokens' = tokens + 1
            /\ account' = [NoAccount EXCEPT !.present = TRUE,
                             !.gen = tokens + 1, !.token = tokens + 1]
            /\ ReqGoto(r, "established")
    /\ UNCHANGED <<period, user, provider, retirement, cron, faults>>

RevokeStart(r) ==
    /\ req[r].pc = "idle" /\ Active
    /\ ReqGoto(r, "revoke")
    /\ UNCHANGED <<local, provider, retirement, cron, faults>>

Revoke(r) ==
    /\ req[r].pc = "revoke"
    /\ account' = [account EXCEPT !.revoked = account.present]
    /\ ReqDone(r)
    /\ UNCHANGED <<period, user, tokens, provider, retirement, cron, faults>>

-----------------------------------------------------------------------------
(* Provider keys: ensureBackendKey, sendWithHeal, swapBackendKey *)

\* The caller's row, as authentication read it.
Authenticate(r, b) ==
    /\ req[r].pc = "idle" /\ Active
    /\ req' = [req EXCEPT ![r] =
          [pc |-> "activity", b |-> b, gen |-> account.gen,
           token |-> account.token, key |-> account.key[b], minted |-> 0,
           healed |-> FALSE]]
    /\ UNCHANGED <<local, provider, retirement, cron, faults>>

\* One inline heal, and only of a credential the provider rejected.
Send(r) ==
    /\ req[r].pc = "send"
    /\ IF req[r].key \in live \/ req[r].healed THEN ReqDone(r)
       ELSE req' = [req EXCEPT ![r].pc = "mint", ![r].healed = TRUE]
    /\ UNCHANGED <<local, provider, retirement, cron, faults>>

\* resolveOrKeyInfo takes any failed lookup of the key for its absence.
LookupFails(r) ==
    /\ req[r].pc = "send" /\ req[r].b = "openrouter" /\ ~req[r].healed
    /\ Fault("lookup_fails")
    /\ req' = [req EXCEPT ![r].pc = "mint", ![r].healed = TRUE]
    /\ UNCHANGED <<local, provider, retirement, cron>>

\* The provider makes key keys + 1 for the generation of the caller's row.
NewKey(r) ==
    /\ req[r].pc = "mint" /\ keys < MaxKeys
    /\ keys' = keys + 1
    /\ live' = live \cup {keys + 1}
    /\ lineage' = [lineage EXCEPT ![keys + 1] = req[r].gen]

Mint(r) ==
    /\ NewKey(r)
    /\ req' = [req EXCEPT ![r].pc = "swap", ![r].minted = keys + 1]
    /\ UNCHANGED <<local, retirement, cron, faults>>

MintRefused(r) ==
    /\ req[r].pc = "mint"
    /\ Fault("mint_refused")
    /\ ReqDone(r)
    /\ UNCHANGED <<local, provider, retirement, cron>>

\* The key was made, its answer was lost.
MintLost(r) ==
    /\ NewKey(r)
    /\ Fault("mint_lost")
    /\ ReqDone(r)
    /\ UNCHANGED <<local, retirement, cron>>

\* callerAuthority: the row still carries the caller's token.
MutantAuthority(r) == Active
Authority(r) == Active /\ account.token = req[r].token

\* The compare of the compare-and-swap.
MutantUnswapped(r) == TRUE
Unswapped(r) == account.key[req[r].b] = req[r].key

Swap(r) ==
    /\ req[r].pc = "swap"
    /\ IF Authority(r) /\ Unswapped(r)
       THEN /\ account' = [account EXCEPT !.key[req[r].b] = req[r].minted]
            /\ req' = [req EXCEPT ![r].pc = "send", ![r].key = req[r].minted,
                                  ![r].minted = 0]
       ELSE ReqGoto(r, "destroy") /\ UNCHANGED account
    /\ UNCHANGED <<period, user, tokens, provider, retirement, cron, faults>>

\* The loser deletes what it minted ...
Destroy(r) ==
    /\ req[r].pc = "destroy"
    /\ live' = live \ {req[r].minted}
    /\ req' = [req EXCEPT ![r].pc = "adopt", ![r].minted = 0]
    /\ UNCHANGED <<local, keys, lineage, retirement, cron, faults>>

\* ... and does not look at the answer.
DestroyFails(r) ==
    /\ req[r].pc = "destroy"
    /\ Fault("destroy_fails")
    /\ req' = [req EXCEPT ![r].pc = "adopt", ![r].minted = 0]
    /\ UNCHANGED <<local, provider, retirement, cron>>

Adopt(r) ==
    /\ req[r].pc = "adopt"
    /\ LET winner == account.key[req[r].b] IN
       IF Authority(r) /\ winner # 0
       THEN req' = [req EXCEPT ![r].pc = "send", ![r].key = winner]
       ELSE ReqDone(r)
    /\ UNCHANGED <<local, provider, retirement, cron, faults>>

\* An operator or the provider removes a key.
KeyDies(k) ==
    /\ k \in live
    /\ Fault("key_dies")
    /\ live' = live \ {k}
    /\ UNCHANGED <<local, keys, lineage, retirement, req, cron>>

Request(r) ==
    \/ RecordActivity(r)
    \/ ProvisionStart(r) \/ ProvisionSelect(r)
    \/ ProvisionUpdate(r) \/ ProvisionInsert(r)
    \/ RevokeStart(r) \/ Revoke(r)
    \/ \E b \in Served : Authenticate(r, b)
    \/ Send(r) \/ Mint(r) \/ Swap(r) \/ Destroy(r) \/ Adopt(r)

\* A statement or a call throws, or the isolate is evicted.
RequestDies(r) ==
    /\ req[r].pc # "idle"
    /\ Fault("request_dies")
    /\ ReqDone(r)
    /\ UNCHANGED <<local, provider, retirement, cron>>

RequestFails(r) ==
    \/ ActivityLost(r) \/ LookupFails(r)
    \/ MintRefused(r) \/ MintLost(r) \/ DestroyFails(r)
    \/ RequestDies(r)

-----------------------------------------------------------------------------
(* Retirement: cleanupInactiveUsers.  The pages of the code hold all rows. *)

CronGoto(c, pc) == cron' = [cron EXCEPT ![c].pc = pc]

\* The candidate query; seen = 0 when the account is no candidate.
CronStart(c) ==
    /\ cron[c].pc = "idle"
    /\ cron' = [cron EXCEPT ![c].pc = "retire", ![c].cutoff = period,
                  ![c].seen = IF user < period THEN user ELSE 0]
    /\ UNCHANGED <<local, provider, retirement, req, faults>>

\* ELIGIBLE, evaluated again inside the batch on the snapshot it selected.
MutantMayRetire(c) == cron[c].seen # 0
MayRetire(c) ==
    /\ cron[c].seen # 0 /\ user = cron[c].seen
    /\ user < cron[c].cutoff

\* What the batch leaves of the user_keys row.
MutantRemains == [account EXCEPT !.revoked = account.present]
Remains == NoAccount

\* One batch: outbox row with a new random id, ledger row, and every local row
\* of the address gone.
Retire(c) ==
    /\ cron[c].pc = "retire"
    /\ IF MayRetire(c)
       THEN /\ drawn' = drawn + 1
            /\ outbox' = outbox \cup {[id |-> drawn + 1, key |-> account.key]}
            /\ ledger' = IF account.present THEN ledger \cup {account.gen} ELSE ledger
            /\ account' = Remains
            /\ user' = 0
       ELSE UNCHANGED <<outbox, drawn, ledger, account, user>>
    /\ cron' = [cron EXCEPT ![c].pc = "list", ![c].seen = 0, ![c].cutoff = 0,
                            ![c].replay = FALSE]
    /\ UNCHANGED <<period, tokens, provider, fenced, inbox, req, faults>>

\* cleanupRetiredInboxes: first the fences not acknowledged, then the others.
MutantFences(replay) == IF replay THEN {} ELSE ledger \ fenced
Fences(replay) == IF replay THEN fenced ELSE ledger \ fenced

ListFences(c) ==
    /\ cron[c].pc = "list"
    /\ cron' = [cron EXCEPT ![c].pc = "fence", ![c].gens = Fences(cron[c].replay)]
    /\ UNCHANGED <<local, provider, retirement, req, faults>>

\* The inbox Worker's retireOwner.
FenceInbox(c) ==
    /\ cron[c].pc = "fence"
    /\ \E g \in cron[c].gens :
          /\ inbox' = inbox \cup {g}
          /\ cron' = [cron EXCEPT ![c].pc = "record", ![c].at = g,
                                  ![c].gens = @ \ {g}]
    /\ UNCHANGED <<local, provider, outbox, drawn, ledger, fenced, req, faults>>

\* The call throws, before or after it took effect.
FenceFails(c) ==
    /\ cron[c].pc = "fence"
    /\ Fault("fence_fails")
    /\ \E g \in cron[c].gens :
          /\ inbox' \in {inbox, inbox \cup {g}}
          /\ cron' = [cron EXCEPT ![c].gens = @ \ {g}]
    /\ UNCHANGED <<local, provider, outbox, drawn, ledger, fenced, req>>

RecordFence(c) ==
    /\ cron[c].pc = "record"
    /\ fenced' = fenced \cup {cron[c].at}
    /\ cron' = [cron EXCEPT ![c].pc = "fence", ![c].at = 0]
    /\ UNCHANGED <<local, provider, outbox, drawn, ledger, inbox, req, faults>>

FencesDone(c) ==
    /\ cron[c].pc = "fence" /\ cron[c].gens = {}
    /\ cron' = [cron EXCEPT ![c].pc = IF cron[c].replay THEN "rows" ELSE "list",
                            ![c].replay = ~@]
    /\ UNCHANGED <<local, provider, retirement, req, faults>>

\* The inbox database is put back to an earlier state without some fences.
InboxRestored ==
    /\ Fault("inbox_restored")
    /\ \E kept \in SUBSET inbox : inbox' = kept
    /\ UNCHANGED <<local, provider, outbox, drawn, ledger, fenced, req, cron>>

ListOutbox(c) ==
    /\ cron[c].pc = "rows"
    /\ cron' = [cron EXCEPT ![c].pc = "row", ![c].rows = outbox]
    /\ UNCHANGED <<local, provider, retirement, req, faults>>

NextRow(c) ==
    /\ cron[c].pc = "row"
    /\ IF cron[c].rows = {} THEN CronGoto(c, "idle")
       ELSE \E row \in cron[c].rows :
              cron' = [cron EXCEPT ![c].pc = "purge", ![c].row = row,
                         ![c].rows = @ \ {row}, ![c].b = "openrouter"]
    /\ UNCHANGED <<local, provider, retirement, req, faults>>

\* OpenRouter first, then Tinfoil, then the row.
NextBackend(c) ==
    cron' = IF cron[c].b = "openrouter"
            THEN [cron EXCEPT ![c].pc = "purge", ![c].b = "tinfoil"]
            ELSE [cron EXCEPT ![c].pc = "drop"]

\* A key that is already gone answers 404, which confirms as well.
Purge(c) ==
    LET k == cron[c].row.key[cron[c].b] IN
    /\ cron[c].pc = "purge"
    /\ live' = live \ {k}
    /\ IF k = 0 THEN NextBackend(c) ELSE CronGoto(c, "null")
    /\ UNCHANGED <<local, keys, lineage, retirement, req, faults>>

\* Refused, or done and the answer lost: the key stays in the outbox.
PurgeFails(c) ==
    LET k == cron[c].row.key[cron[c].b] IN
    /\ cron[c].pc = "purge" /\ k # 0
    /\ Fault("purge_fails")
    /\ live' \in {live, live \ {k}}
    /\ NextBackend(c)
    /\ UNCHANGED <<local, keys, lineage, retirement, req>>

NullKey(c) ==
    /\ cron[c].pc = "null"
    /\ outbox' = {IF x.id = cron[c].row.id
                  THEN [x EXCEPT !.key[cron[c].b] = 0] ELSE x : x \in outbox}
    /\ NextBackend(c)
    /\ UNCHANGED <<local, provider, drawn, ledger, fenced, inbox, req, faults>>

MutantCleared(x) == x.key["openrouter"] = 0
Cleared(x) == \A b \in Backends : x.key[b] = 0

DropRow(c) ==
    /\ cron[c].pc = "drop"
    /\ outbox' = {x \in outbox : ~(x.id = cron[c].row.id /\ Cleared(x))}
    /\ cron' = [cron EXCEPT ![c].pc = "row", ![c].row = NoRow,
                            ![c].b = "openrouter"]
    /\ UNCHANGED <<local, provider, drawn, ledger, fenced, inbox, req, faults>>

CronDies(c) ==
    /\ cron[c].pc # "idle"
    /\ Fault("cron_dies")
    /\ cron' = [cron EXCEPT ![c] = NoCron]
    /\ UNCHANGED <<local, provider, retirement, req>>

Cron(c) ==
    \/ CronStart(c) \/ Retire(c)
    \/ ListFences(c) \/ FenceInbox(c) \/ RecordFence(c) \/ FencesDone(c)
    \/ ListOutbox(c) \/ NextRow(c) \/ Purge(c) \/ NullKey(c) \/ DropRow(c)

CronFails(c) == FenceFails(c) \/ PurgeFails(c) \/ CronDies(c)

-----------------------------------------------------------------------------
Next ==
    \/ Age
    \/ \E r \in Requests : Request(r) \/ RequestFails(r)
    \/ \E c \in Crons : Cron(c) \/ CronFails(c)
    \/ \E k \in live : KeyDies(k)
    \/ InboxRestored

Spec == Init /\ [][Next]_vars

\* The daily schedule keeps starting the handler and runs it to its end.
Fairness == \A c \in Crons : WF_vars(Cron(c))
FairSpec == Spec /\ Fairness

-----------------------------------------------------------------------------
(* Safety *)

Stored(k) == \E b \in Backends : account.key[b] = k
Outboxed(k) == \E x \in outbox, b \in Backends : x.key[b] = k

\* A mint race never leaks a billable key: each key that exists at a provider is
\* in the account row, in the retirement outbox, or with the request that minted
\* it and has not yet swapped it in or destroyed it.
KeysAccountedFor ==
    \A k \in live : Stored(k) \/ Outboxed(k) \/ \E r \in Requests : req[r].minted = k

\* Spending stays with the account generation it was granted to: neither a row
\* nor a request ever holds a key minted for an earlier or a later account of
\* the same address, whatever retirement overlaps the request.
KeyLineage ==
    /\ \A b \in Backends : account.key[b] # 0 => lineage[account.key[b]] = account.gen
    /\ \A r \in Requests : req[r].key # 0 => lineage[req[r].key] = req[r].gen

\* The outbox never names a credential of the account that now has the address,
\* and the inbox ledger never fences its generation.
RetirementSparesCurrent ==
    /\ \A k \in 1 .. keys : ~(Stored(k) /\ Outboxed(k))
    /\ account.present => account.gen \notin ledger

-----------------------------------------------------------------------------
(* Action properties *)

\* Revoking, re-provisioning and healing cannot reset a budget: while a
\* generation lasts, a stored key is replaced only when its provider lost it.
OnlyDeadKeysReplaced ==
    [][\A b \in Backends :
         LET k == account.key[b] IN
         k # 0 /\ account'.present /\ account'.gen = account.gen
            /\ account'.key[b] # k => k \notin live]_vars

\* An account used since the candidates were selected is not retired.
UsedAccountSpared ==
    [][account.present /\ ~account'.present => user < period]_vars

\* Only revocation mints a new token: the token of an active row is never
\* replaced while its generation lasts.
OnlyRevocationReplacesToken ==
    [][Active /\ account'.present /\ account'.gen = account.gen
         => account'.token = account.token]_vars

-----------------------------------------------------------------------------
(* Liveness *)

\* Every retired generation is fenced at the inbox Worker, again after the
\* inbox database was restored to a state without the fence.
FencesArrive == \A g \in 1 .. MaxTokens : g \in ledger ~> g \in inbox

\* Every key of a retired account is deleted at its provider, whatever deletion
\* or reply failed on the way.
OutboxDrains == \A k \in 1 .. MaxKeys : Outboxed(k) ~> k \notin live
=============================================================================
