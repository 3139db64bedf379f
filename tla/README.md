# BayLeaf: verification of the services' state

BayLeaf is a set of small services around a chat server: an API Worker that turns a
campus sign-in into tokens, provider keys, sandboxes and inboxes; an inbox Worker
that receives e-mail and HTTP on disposable addresses; a telemetry collector; and
pouch, a command-line agent host. The Workers keep their state in D1 (SQLite), R2
(objects) and at external providers, and many invocations of one Worker run at
once. What is hard in this code is not any single function but what happens
*between two awaits* of one invocation while other invocations, the scheduled
cleanup, and half-failed calls to R2 or a provider go on.

The specifications here model that: one D1 statement or batch, one R2 call or one
provider call is one action, and everything else may run in between.

## 1. Inventory

Every component is listed in `PROJECT.json` with its files and status. The ones
that carry state:

| Component | State it keeps | Operations | Hard behaviour | What makes it correct |
|---|---|---|---|---|
| **Inbox store and lifecycle** (`inbox/src/worker.js`) | D1 `inboxes`, `messages`, `retired_owners`, `cleanup_prefixes`; R2 objects | receive (lookup, reserve, put, store, recheck), `removeMessages`, create/update/destroy inbox, `retireOwner`, delete message, the 15-minute sweep (`tryFinalize`, `reconcilePrefixes`) | two stores without a common transaction; puts that land after their caller died; overlapping removals; retirement racing creation | counters equal the rows, no object forgotten, a visible receipt has its bytes, an ended endpoint stays ended, an erased inbox leaves nothing |
| **Inbox events and stream leases** (`worker.js`, `0004_events.sql`) | `events`, `event_feed`, `event_streams` | append at store, page with a cursor, acquire/renew/release a lease | page and head cursor from one snapshot; lease cap under races; a rebuilt database | no event skipped, never more leases than the cap |
| **Inbox telemetry outbox** (`worker.js`, `0002`, `0005`) | `telemetry_windows`, `telemetry_counts` | count, seal, send, acknowledge, prune | counts that come after the window closed; a lost acknowledgement; overlapping exports | counted exactly once by the collector |
| **API account keys and tokens** (`api/src/provision.ts`, `openrouter.ts`, `tinfoil.ts`, `routes/key.ts`) | D1 `user_keys`; keys at OpenRouter and Tinfoil | issue, revoke and rotate a token; mint, swap, heal, adopt a provider key | several requests mint at once; a key is billable from the moment it is minted | no leaked key, a budget is not reset, a key serves the account it was minted for |
| **API account retention** (`api/src/userRetention.ts`, `userActivity.ts`) | `users`, `user_retention_outbox`, `inbox_retirements` | record activity; daily: retire, fence the inboxes, delete provider keys | selection and retirement are separate; delivery fails half-way; the inbox Worker may be restored | an account in use is not retired, fences arrive, the outbox drains, the next account of the address is not harmed |
| **API sandbox credentials and reaper** (`sandboxCredentials.ts`, `sandboxReaper.ts`) | `sandbox_credentials`, the cached sandbox id; machines and secrets at the provider | create, mount, activate, revoke, erase; reap | ambiguous provider outcomes; a sandbox replaced meanwhile | every secret has a row, an active credential is mounted on its machine |
| **API sandbox browser** (`sandboxBrowser.ts`) | a Durable Object per owner: an operation per service, `creationUncertain`, one alarm | start, restart, stop, setup advanced by alarms | eviction between steps, creates in doubt, stops that fail | one create at a time, setup and stop end |
| **API previews** (`routes/previews.ts`) | `preview_registrations`, `preview_invalidations`; a connection manager per origin | register, retire, handshake, relay | a handshake over an origin that is being retired | revoked access has no link, handshake or socket |
| API service login and grants (`serviceSessions.ts`, `grants.ts`) | login flows, sessions, grants | begin, exchange, revoke | an account retired between two statements | a session serves the generation it was made for |
| **API inbox event stream** (`inboxStream.ts`) | a lease and a position per stream | open, replay, poll, close | slow checks, reads and sends add up; lost leases; outages | the lease is released or runs out, no gap, nothing after the freshness bound, stops for good reason only |
| **Telemetry collector** (`telemetry/src/store.js`) | receipts, aggregates, `source_status`, `retention_state`, budget | ingest, purge, change retention | retried batches, purges in pages | idempotent ingestion, the status is the newest |
| **Pouch agents** (`pouch/src/graph.ts`, `subagents.ts`) | the registry and the conversations (in the browser's database); holds, marks and watchers (in the page) | spawn, message, join, stop, detach, report, resume | agents waiting on each other; ends recorded after a message started a later run; reloads | no wait cycle, joins return newer results and end, main is told of every end |
| Listings, export, proxy, previews, pages, chat plug-ins, build scripts | none of their own, or per request | — | — | not modelled: reads, formatting, forwarding |

How they interact: the API Worker calls the inbox Worker by RPC (owner operations,
`retireOwner`, event pages); the API's daily cron drives retirement and, through
`inbox_retirements`, the inbox fence; the inbox Worker posts telemetry batches to
the collector; API requests and crons share D1 only, and the providers are called
with plain HTTP, whose answer may be lost.

`PROJECT.json` "hazards" lists what is hard to test here, each at its line, with the
property that covers it or the reason why none does.

## 2. Plan

| Order | Module | Models | Status |
|---|---|---|---|
| 1 | `InboxStore` | reception, removal, owner operations, sweep | done |
| 2 | `ReceiptContract`, `InboxRefinement`, `InboxContractProofs` | what reception promises; `InboxStore` implements it and holds its quotas | checked, proved |
| 3 | `InboxInvariant`, `InboxSafetyProofs` | inductive invariant; type correctness and safety | proved |
| 4 | `AccountKeys` | tokens, provider keys, retirement | checked |
| 5 | `KeyCustody`, `AccountRefinement`, `AccountInvariant`, `AccountKeysProofs`, `AccountCustodyProofs` | who answers for a key; `AccountKeys` implements it; inductive invariants; type correctness, lineage, custody of keys | checked, proved |
| 6 | `Telemetry`, `DeliveryLedger`, `TelemetryProofs` | outbox composed with the collector; the ledger "counted once" and the proof that they implement it | checked, proved |
| 7 | `SandboxCredentials`, `SandboxBrowser`, `SandboxProofs` | machines, secrets and credentials; the controller, its alarms and the links, composed with them | checked, proved |
| 8 | `InboxFeed`, `InboxEvents`, `InboxEventsProofs` | the feed and its leases; the API's stream and its subscriber, composed with it | checked, proved |
| 9 | `AgentGraph`, `Subagents`, `SubagentsProofs` | holds and marks; the agents of a session, composed with them | checked, proved |
| 10 | `ServiceLogin` | login flows, sessions and grants against retirement | open |
| 11 | composition | `AccountKeys` retirement with the fence of `InboxStore` | open |
| 12 | proofs | the safety side of what is only model-checked as liveness: of `OutboxDrains`, of `GoneIsErased` (`EndsInHand` is that of `EndsAreTold`, done) | open |

## 3. The models and the code

### InboxStore

| State | Code |
|---|---|
| `inbox` | rows of `inboxes`; `"none"` before the INSERT, `"gone"` after the DELETE |
| `message` | rows of `messages`, with the sequence number of the row's `events` row |
| `retired`, `prefixes` | `retired_owners`, `cleanup_prefixes` |
| `blobs`, `inflight` | R2 objects; puts that were issued and have not landed |
| `rx[m]` | the invocation that receives message `m`, at the await it stands at |
| `ot[t]` | an owner RPC |
| `sw[s]` | a scheduled invocation: the step of `sweep` it is in and what it read |
| `rm[t]` | the call of `removeMessages` an invocation is in: mark, select, objects, rows |
| `now` | `unixepoch()` |

Reception is `LookUp`, `ReadClock`, `Reserve` / `ReserveRefused` (the
`INSERT ... SELECT` batch with all its quota conjuncts), `StartPut` / `AbortLate`,
`PutLands`, `Store` / `StoreRefused` (the batch that marks the row stored and appends
its event), `Recheck` and `DropObject`. Failures are actions of their own: `PutFails`
(the put may still land), `RxDies` (eviction), `RemoveObjectsFail` (some of the
objects deleted), `RemoveThrows`, `ReconcileFails`, `SweepDies`.

Abstractions:

* sizes are given by `TotalSize`, a finitely additive measure on sets of messages
  (`SizeAssumption`). This is what "sum of the sizes" means, and it lets the counter
  theorem be stated for arbitrary sizes; the runs use one unit per message;
* the clock of an owner call and the batch it leads to fall in the same second;
  reception, where this matters, reads its clock in an action of its own;
* `startedMs`, which bounds a late receiver, is taken at the lookup;
* a page of the sweep holds all rows (`BATCH` and the round-robin cursors are left
  out), so starvation by pages is not covered;
* sender authorisation, e-mail policy, credentials, archiving, event leases and
  telemetry are left out. The inboxes of the model are those without a policy.

### ReceiptContract and InboxRefinement

`ReceiptContract` is the promise of `inbox/DESIGN.md`: an endpoint opens, closes for
ever and is erased; a receipt is offered, perhaps held, withdrawn together with its
endpoint, erased, and never shows again. `InboxRefinement` maps an endpoint to
"open" exactly when the code's `LIVE` predicate holds and a receipt to "held" exactly
when `visibleMessage` would return it. Time passing is then a step of the contract
too: expiry of a lifetime and of retention are `Close`.

### AccountKeys

| State | Code |
|---|---|
| `account` | the `user_keys` row of one e-mail address; `gen` is `account_generation`, `token` is `bayleaf_token` |
| `user` | `users.last_active_at` |
| `keys`, `lineage`, `live` | provider keys minted, the generation they were minted for, the ones that exist |
| `drawn` | the random ids of outbox rows, numbered in the order they are drawn |
| `outbox`, `ledger`, `fenced` | `user_retention_outbox`, `inbox_retirements` and its `fenced_at` |
| `inbox` | the inbox Worker's `retired_owners` (external here, `InboxStore.retired` there) |
| `req[r]` | an API invocation between two awaits, with the row it authenticated |
| `cron[c]` | a daily invocation in `cleanupInactiveUsers` |

A request is a provisioning (`ProvisionStart/Select/Update/Insert`), a revocation, or
an inference call (`Authenticate`, `RecordActivity`, `Send`, `Mint`, `Swap`, `Destroy`,
`Adopt`). `Swap` is the compare-and-swap of `swapBackendKey`: `Authority` and
`Unswapped` are its WHERE clause. The cron is `CronStart`, `Retire` (one batch),
the fence pass (unacknowledged generations, then a replay of the others), and the
outbox pass that deletes one provider's key, nulls it, then the other's, and drops
the row.

Abstractions: every statement selects by address or fresh id, so one address is
enough; the clock counts retention periods and the calendar arithmetic of the cutoff
is abstracted; eligibility is reduced to inactivity (holds, exemptions and dependent
resources would only put retirement off); callers hold ordinary tokens; pages hold
all rows. Each failure is a member of `FaultKinds`, so a run says which it allows.

### KeyCustody and AccountRefinement

`KeyCustody` is what the repository promises of a provider key (`provision.ts:38-42` and
`:256-262`, `userRetention.ts:99-143`): it is made for one generation of the account, comes to
serve it, is owed to its provider when the generation ends, and dies; it never goes back,
one living key serves a backend at a time, and the code deletes only keys that serve nobody.
`AccountRefinement` reads a key's custody off the tables: the row that names it, the outbox,
or else whoever minted it. `Vanish`, the end of any other key, costs a failure: somebody
else removed it.

### Telemetry and DeliveryLedger

| State | Code |
|---|---|
| `row` | a row of `telemetry_windows` with its `telemetry_counts`: open, sealed, sent, or none |
| `ex[x]` | an invocation in `exportTelemetry`, with the windows it selected |
| `net` | requests on their way; `now` and `ttl` once the collector has read its clock and admitted them |
| `env`, `policy` | the configured retention and `retention_state` (the shortest retention and its cutoff) |
| `receipt`, `data`, `status` | `receipts`, `metric_points` or a lifecycle increment, `source_status` |
| `tally`, `recorded`, `clashed` | history: what was counted for a batch, what the inbox counted, answers 409 |

`Count` is one guarded batch; an export is `ExportBegin` (prune), `ExportSelect`, then for
each window `ExportSeal`, `ExportSend` and `ExportAcked`, each a step of its own, so counts and prunes come in
between. The collector is `Admit` (clock, budget, policy), `Reject` and `Ingest` (one
guarded batch: receipt, data, status). Events are sent by others (deployments,
redelivered by the sender) and join the same receipts. `Purge` deletes `PurgeRows`
rows of each table, the oldest expiry first. `DeliveryLedger` is the promise: a batch is
entered once, whole, and never changed. Abstractions: what is counted is one
counter; the budget's answer is nondeterministic; time is counted in windows.

### SandboxCredentials and SandboxBrowser

| State | Code |
|---|---|
| `vm`, `mount`, `secret` | machines, mounted credentials and secrets at the provider; `"late"` is a call whose outcome nobody saw and that may still land |
| `row`, `cached` | `sandbox_credentials` and `user_keys.daytona_sandbox_id` |
| `api`, `del`, `cron` | API execution; the delete route and the reaper; the hourly cleanup |
| `op`, `uncertain` | the Durable Object's stored operations and `creationUncertain` |
| `job` | what the object runs, with what it has read; gone when it is evicted |
| `reg`, `over`, `pending`, `hand`, `sock` | link registrations, origins still to be revoked, handshakes and sockets of the connection managers |

A job goes `Find`, perhaps `Create`, `Bind`, `Ensure` (a pending row, then `Secret`, `Mount`,
`Activate`), `Wake`, `Install`, `Ready`, `Register`, `Publish`; or it retires an operation with
`Unlink`, `Sync` and `StopClean`. Each provider call
and each D1 statement is a step; `Evict` may come between any two and loses the job,
never what was stored. One exception: `Activate` takes the D1 statement that activates a credential
(`sandboxCredentials.ts:117-118`) together with the object's save of the operation (`sandboxBrowser.ts:504-505`, `:618`);
after an eviction between the two, the next alarm finds the active credential and goes on from
there. `Break` is a sandbox that fails (state `error`): a setup that finds it fails, `ensureSandbox` recovers it or
gives up, and a stop waits for it. The actors of `SandboxCredentials` change machines and rows
beside it. Abstractions: one owner; ids are new each time; the setup deadline is a step
that may come at any time; the answers of the machine's toolbox are reduced to
running, failed, or not there.

### InboxFeed and InboxEvents

| State | Code |
|---|---|
| `state`, `seq`, `head`, `epoch` | `events`, `inboxes.event_seq`, `event_feed.epoch` |
| `lease[s]` | what is left of the row of `event_streams` |
| `st[s]` | the locals of `openInboxStream`: position, page in hand, events sent, ages of the checks |
| `access`, `alive` | the credential, its account and its machine are good; the inbox is live |
| `Sandboxed` | the subscriber's credential is a sandbox's, which the provider has to confirm |
| `client` | the subscriber: the cursor it saved, what it was given, whether it stopped, whether its credential was misread (history) |
| `lapsed` | history: time since access or inbox ended |

`readEvents` is `Answers`: one D1 batch is one snapshot, so a page and the position it
reaches belong together. A stream is `Resolve` and `Lease` (the handshake), then `auth`,
`read`, `answer`, `send` and `pause` in turn; a slow step costs time, and what is sent depends on how
old the checks are by then. A stream ends with a reason, and the subscriber of
`inbox/DESIGN.md:172-176` acts on it: connect again with the saved cursor, start anew, or stop.
`Connect` and `Authorize` have the failure that the code does not tell from a revocation
as a disjunct of its own: `authenticateSandboxCredential` (`sandboxCredentials.ts:58-65`) answers null for a good
sandbox credential when the provider does not answer, refuses or cannot be parsed, `resolveAuth` makes that a 401
(`utils/auth.ts:79-82`), and `authorize()` is false (`routes/inboxes.ts:209-212`), so the stream
ends `auth_revoked`; at connect the subscriber gets the 401 itself. That a subscriber takes such a 401 for final,
as it must take `auth_revoked`, is a choice of the model (`Final`).
Abstractions: one inbox and one subscriber; the clocks of API and D1 agree; a lost subscriber's stream is
reduced to its lease; the database is rebuilt only while no call is in it.

### AgentGraph and Subagents

| State | Code |
|---|---|
| `row` | the registry row of a subagent: `status`, `sub`, `seq`, `reported`, the delivered-by-message mark, `foreground` |
| `subs` | the submissions of a subagent's conversation and how each ended |
| `calls` | tool calls between two awaits: a spawn, a message, a join |
| `sent` | `sentSeq` of `graph.ts` |
| `watch` | the watcher of a submission (`track`): waiting, what it decided, what it has to post |
| `main`, `detaching`, `open` | a turn of main, `detach` between its awaits, the page |
| `mail`, `shown`, `told`, `lost` | history: what a message was meant for, the last end recorded, told to main, kept from it |

`ClosesCycle` is stated as a closed set of agents, which is what the code's graph
search decides. A join's check, its readiness and its hold are one step, as they are in the code
(no await between them); a spawn's limit and its row, a message's look and its
submission, and a watcher's decision and its update are not. `Close` loses calls, marks
and watchers; `Reopen` is `resume`. Abstractions: updates of one row run in the order of the
submissions they follow; a message that comes too late for a run starts another
that is not tracked (`subagents.ts:431`, `:533`), so its end is outside `JoinIsFresh`, `EndsInHand` and
`EndsAreTold`, which speak of tracked ends; equal calls are not told apart; handles are unique.

## 4. Runs

Passing runs:

| Run | Instance | Shows |
|---|---|---|
| `reception` | 2 inboxes of one owner, 2 concurrent receivers, an owner task, 1 failure (1.2M states) | counters stay exact, neither an inbox's nor the owner's quota is overshot, and every step is one `ReceiptContract` allows: no endpoint of a retired owner opens or takes a receipt |
| `cleanup` | one receipt, an owner deleting, destroying and shortening, a sweep, 1 failure anywhere, fairness (531K states) | an erased inbox leaves nothing, no object is untracked, a visible receipt has its object; an endpoint that expired or was destroyed stays ended (`ReceiptContract` again, now with lifetimes and a sweep); destroyed inboxes are erased, orphans and abandoned reservations are cleaned up to the last object |
| `account_keys` | 2 concurrent requests, 1 cron, 3 keys, 3 tokens, 1 failure (1.7M states) | no key is leaked, keys stay with their generation, retirement spares the next account and the one in use, the code deletes no key that serves and replaces none that lives (every step is one of `KeyCustody`) |
| `account_retirement` | 1 request, 1 cron, both providers, every kind of failure, 2 failures, fairness (248K states) | fences arrive, also after the inbox database was restored; every key of a retired account is deleted |
| `telemetry` | 2 windows, 1 event that is redelivered, 1 exporter, 2 retentions, pages of one row, 1 failure, fairness | batches never contradict each other, each is counted once and whole (`DeliveryLedger`), the status is the newest, every window is sent or pruned |
| `sandbox` | 2 machines, 2 credentials, 1 service, 2 requests, 1 failure, fairness (132K states) | no secret is lost track of, authority is mounted, creates are not repeated in doubt, revoked access is closed; setup, stop and erasure end |
| `events` | 2 messages, 2 streams, 1 lease, pages of one row, 2 databases, a sandbox's credential, 2 failures, fairness (335K states) | nothing owed is skipped, nothing is sent past the freshness bound, a subscriber stops only for an end or for its credential misread as revoked, what is owed arrives unless it was |
| `agents` | main and 2 subagents, 3 calls at once, 2 moves, fairness (522K states) | nobody waits in a circle, joins are fresh and end by themselves, an end main has yet to hear of has a watcher, main is told of every last end that it is not excused from |

Runs that show a disagreement between the code and what the repository says of it
(each is a finding in `PROJECT.json`):

| Run | Property | What happens |
|---|---|---|
| `daily_limit_at_midnight` | `DailyLimit` | the UTC day is read before the batch, so a receiver that crosses midnight resets `day_count` after the new day's receipts were counted; the next day's limit is exceeded |
| `stale_sweep_takes_stored` | `SweepTakesOnlyEnded` | the sweep selects ids as stale-pending and marks them deleting later without asking for the state again; a receipt stored and acknowledged in between is deleted |
| `token_replaced_unrevoked` | `OnlyRevocationReplacesToken` | two requests see the same revoked row; the second UPDATE, which does not ask for `revoked = 1`, overwrites the token the first already handed out |
| `lookup_failure_heals` | `OnlyDeadKeysReplaced` | a failed lookup of a key is read as its absence, so a live key, with the spending on it, is replaced |

### Bounds

* Two receivers are enough for every race on a counter, a quota or a row: each
  D1 batch reads and writes one inbox row and its owner's sum, so a third receiver
  repeats the role of one of the two. `daily_limit_at_midnight` uses three, because the limit has
  to be reached once before midnight's reset and exceeded after it.
* `reception` has one tick (`MaxTime` 1) and neither lifetimes nor a sweep: endpoints end by
  destruction and retirement only, quiescence (1) can end and retention (2) cannot. Its subject is what
  receivers, an owner and a retirement do to each other.
* `cleanup` has one tick, after which a lifetime (1) and retention (1) have ended and before
  which they have not, so that every step falls on both sides. `Quiesce` is 0 there, which makes the wait
  before an erasure empty: a sweep may erase at once, the harder case for
  `ErasedLeavesNothing` and `ObjectsTracked`. That a longer wait changes nothing is in the theorems.
* `stale_sweep_takes_stored` has `MaxTime` 3 and `Quiesce` 1, so that a pending row grows stale, and
  `Retention` 9, so that its receipt is not due. `DayLength` 9 keeps a run inside one day; `DayLength` 1
  with `MaxTime` 1 in `daily_limit_at_midnight` puts midnight between two readings.
* `cleanup` needs one receipt only: its properties are about one message and one inbox, and
  every other actor (owner, sweep, late put) is there. What two receivers do to each other
  is in `reception`, and the theorems cover any number of both.
* One sweeper next to a receiver and an owner task covers the overlap of two
  removals. Two overlapping sweeps are in the theorems, not in a run.
* In `account_keys` three keys allow a mint race, its loser, and a heal; three tokens
  allow a revocation and a second generation; two periods allow one retirement.
* `MaxFaults` is 1 or 2: a failure is followed by the recovery the code has for it.
* `telemetry`: one export at a time, but requests of an earlier, evicted one are still
  under way, so two deliveries of one batch meet; `OutboxTTL` 3 with `MaxTime` 3 lets a window be
  pruned before and after it is sent. Retentions 2 and 3 let the cutoff move both ways.
* `sandbox`: two machines let one be replaced while a job holds the other; two credentials
  let one be revoked while the next is made. Requests and failures are bounded by
  `MaxRequests` and `MaxFaults`. The run has one service instance; the theorems cover any number and
  services that attach only.
* `events`: two messages with pages of one make every page incomplete; two streams with one
  lease make a reconnect meet its own leaked lease. Its credential is a sandbox's (`Sandboxed`), which can do all that
  another can and be misread besides; the theorems cover both. `Fresh` and `Lifetime` 2 separate
  "slow" from "too slow".
* `agents`: two subagents allow a circle with main and one without it; three calls allow a
  join of each agent, or a spawn and a message during a join. `MaxMoves` counts messages, joins, acts
  of the user, failed runs and reloads: with two, a message meets a join, a stop, a reload or a detach.
* `account_keys` leaves out `destroy_fails`, `mint_lost`, `lookup_fails` and
  `request_dies` (`Recorded`). With the first two and the last, `KeysAccountedFor` does not hold
  and cannot: the code has no record of a key before it is stored
  (`provision.ts:173` and `:201`), so a lost answer, a failed delete or an eviction between
  mint and swap leaks the key. This is a limit of the design, not checked away:
  those kinds are in `account_retirement`, and `lookup_fails` is `lookup_failure_heals`.

### Fairness

* `InboxStore`: `WF(Tick)`, `WF(PutLands(m))`, and `WF(Sweep(s) \/ Remove(s))` for each
  sweeper. The cron trigger starts a sweep every 15 minutes, the platform runs an
  invocation that is not evicted to its end, and a put that was issued lands, which
  is the hard case. Nothing is assumed of senders, receivers or owners: a receiver
  may stop anywhere, which is why `LeftoversRemoved` is worth stating. Failures are never fair.
* `AccountKeys`: `WF(Cron(c))`. The daily trigger starts it again and again.
  Two conditions of the code are behind this: `index.ts:290` throws when the sandbox
  reaper that runs before it reports a failure, so retirement is as live as the
  reaper; this is listed as a hazard. Nothing is assumed of requests.
* `Telemetry`: `WF` of `Tick` and of each export (the cron trigger), `WF` of answers, and `SF` of
  admitting a request some export waits for: the collector's budget refuses now and then, not
  always. Nothing is assumed of events, purges or changes of retention.
* `SandboxBrowser`: `WF` of the job that runs, of the setup deadline, of the handshakes, of the provider
  (machines settle, a secret that was created appears) and of the hourly cleanup; `SF` of advancing
  an operation by its alarm, because a job of another kind may run when it fires. The object's storage keeps
  the alarm over an eviction. Assumed of the provider: a secret it created shows up within a day, and
  a mount does not land after a later one.
* `InboxEvents`: `WF` of each stream's own steps, of the subscriber's reconnect and of time.
  Revocation and arrivals are not fair. The failing disjuncts of `Connect` and `Authorize` cost a
  failure each, so neither is forced: with the failures spent, a fair step is one that succeeds or ends.
* `Subagents`: `WF` of all that is due, together: it is finite whenever no new move is made, so
  no step starves. A run ends once the calls it made have returned, which is the model provider's
  part; a join's timeout is fair only after a message was refused, because the mark the
  refused message leaves (`subagents.ts:421`) can keep a join of a quiet target from being ready.
  `JoinsEnd` says that in every other case no timeout is needed.

## 5. Proofs

### InboxStore

Checked by TLAPS for every number of owners, inboxes, messages and invocations,
every limit and every size:

| Theorem | Says |
|---|---|
| `TypeCorrect` | `Spec => []TypeOK` |
| `InvariantHolds` | `Spec => []IInv` |
| `CountersAreExact` | `CountersExact`: reservation counters equal the rows |
| `ObjectsAreTracked` | `ObjectsTracked`: every object, landed or not, has a row or a prefix |
| `VisibleReceiptsHaveObjects` | `VisibleHasObject` |
| `ErasureIsComplete` | `ErasedLeavesNothing` |
| `RetirementFences` | `RetiredOwnerFenced`: a retired owner has no active inbox |
| `EndingIsFinal` | `EndedStaysEnded`, an action property |
| `QuotasAreHeld` | `QuotaHeld`: no inbox and no owner ever reserves more than its quota |
| `ReceptionKeepsItsContract` | `ImplementsContract`: every step is a step of `ReceiptContract` or a stutter |

They rest on three assumptions on the constants: `SizeAssumption` (sizes add up),
`LimitsAssumption` (limits are naturals) and `IdAssumption` (finitely many messages and inboxes, some inbox and owner,
the three kinds of invocation are disjoint). TLC evaluates them in every run.

**Why the properties are not inductive, and what is added** (`InboxInvariant`).
`VisibleHasObject` can be broken by any invocation that already holds a list of ids or
objects. So the invariant says what each of them knows at each await:

* `ReceiveInv`: before `Reserve` there is no row and no object; a receiver at `"putting"`
  whose row is still pending has its object landed or in flight; a receiver about to
  drop its object has a row that is not visible. `Settled` says that a stored row, and a
  removed one whose prefix is not tracked, have no put left that could land: without it
  `ObjectsTracked` breaks when a late put lands after the last row was deleted.
* `RemoveInv`: the ids past the select are rows that will never be visible again
  (`deleting` is never left but for `gone`), and past the object delete they have no object
  unless their prefix is tracked. That is why `RemoveRows` keeps `ObjectsTracked`.
* `SweepInv`: a finalizer past its check looks at an inbox that is destroying or erased
  and has no rows; an inbox that is not live never gets a row again, so `EraseInbox` leaves
  none. A reconciler that has read the rows holds only objects of rows that ended.
* `EndedInv` and `RowsInv`: destruction records the prefix before anything is removed.

`InboxSafetyProofs` has one lemma per action group and conjunct; counters use the
additivity of `TotalSize` and cardinality of finite sets.

**The contract** (`InboxContractProofs`). Seen from outside, all but six actions are one thing:
endpoints that close, together with what they hold (`ClosingStep`). The six are an
offer, a store, a creation, the deletion of rows, and the two erasures. What makes the rest closings
is that an ended endpoint never opens again, although every owner call reads the row
before it writes it, and that `received_at` is never changed once a row is there.

**The quotas.** `Reserve` compares the limits with counters, and these are exact. For an
owner the code sums the counters of its rows, so the proof needs that the sum over the inboxes is the
measure of the union of their messages (`SumOfCounters`). That is an induction over a finite set,
done with a smallest counterexample instead of an induction theorem that takes an operator.

### AccountKeys

Checked by TLAPS for every number of requests and scheduled invocations and every
bound. The first five hold for every set of failures, the others under the condition named:

| Theorem | Says |
|---|---|
| `AccountTypeCorrect` | `Spec => []TypeOK` |
| `AccountInvariantHolds` | `Spec => []IInv` |
| `KeysKeepTheirGeneration` | `KeyLineage` |
| `CurrentAccountIsSpared` | `RetirementSparesCurrent` |
| `UsedAccountsAreSpared` | `UsedAccountSpared`, an action property |
| `LifeHolds` | `Spec => [](IInv /\ LifeInv)`, given `Trusted` |
| `LiveKeysAreKept` | `OnlyDeadKeysReplaced`, an action property, given `Trusted` |
| `CustodyIsKept` | `KeepsCustody`: every step is a step of `KeyCustody` or a stutter, given `Trusted` |
| `KeysAreAccountedFor` | `KeysAccountedFor`, given `Recorded` |

`Trusted` says that one failure does not happen: a lookup that fails and is taken for
the answer "no such key" (`lookup_failure_heals` shows that `OnlyDeadKeysReplaced` is
false with it). Lost answers, failed deletes and evictions may happen. `Recorded` excludes
also the three failures of which the code keeps no record: a lost mint answer, a failed delete
of the loser's key, an eviction between mint and swap. Both are conditions on the
constant `FaultKinds`, stated in the theorems and not assumed anywhere else. The only
assumption on the constants is `AccountAssumption`.

**The argument** (`AccountInvariant`):

* `TokenInv`: a token belongs to one generation. That is what makes `callerAuthority`
  enough for `KeyLineage`: the row still carries the caller's token, so the row is
  of the caller's generation, although the statement compares no generation.
* `LineageInv` adds the keys that are minted and not yet stored; `PlaceInv` says that
  such a key is in nobody else's hands, neither row, outbox nor another request, so a
  late swap cannot store a key that the outbox is about to delete.
* `OutboxInv`: ids of outbox rows are fresh, so a scheduled invocation that nulls a key or
  drops a row by id writes to the row it read; and another one that worked on the same row
  meanwhile has only nulled keys in it, so what was read names at least what is left.
* `DeadInv`: a request that is minting or swapping replaces a key its provider rejected
  (or none), and `null` follows a confirmed deletion. Keys do not come back to life, so
  what was read before the await is still true after it.
* `BornInv`: a request carries a generation that has the address or is in the ledger, so a key is
  never made for a generation that was not granted, however late the mint.
* `OwedInv`: a key that a scheduled invocation is about to delete, on a list it read long ago,
  is dead or still in the outbox. So no deletion reaches a key that serves.

Together they give custody: a swap takes only a dead key out of the row, retirement
moves the keys of the row to the outbox in the batch that deletes the row, the outbox
lets go of dead keys only, and a request lets go of what it minted by storing or deleting it.

### Telemetry

For every number of windows, events, exports, requests, retentions and failures:

| Theorem | Says |
|---|---|
| `TelemetryInvariantHolds`, `TelemetryTypeCorrect` | the invariant, `TypeOK` |
| `BatchesNeverClash` | `NeverClashes` |
| `SentWindowsAreCounted` | `SentIsCounted` |
| `StatusStaysNewest` | `StatusIsNewest` |
| `BatchesAreCountedOnce` | `CountedOnce`: every step is a step of `DeliveryLedger` or a stutter |

The invariant says that a window past its sealing has final content (`Outbox`), that every
request of its batch carries exactly that (`Sending`), and, the part that is easy to miss, that
what was counted and is no longer held by a receipt lies behind the cutoff
(`Counting`, `Expiring`): a purge may delete the receipt before the retry arrives, and it
is the policy, not the receipt, that then refuses it. That needs the receipt to outlive the
shortest retention the class ever had.

### SandboxBrowser

For every number of machines, credentials, services and failures:

| Theorem | Says |
|---|---|
| `SandboxInvariantHolds`, `SandboxTypeCorrect` | the invariant, `TypeOK` |
| `SecretsAreTracked` | `SecretsTracked` |
| `ActiveCredentialsAreMounted` | `ActiveIsMounted` |
| `CreatesHappenOnce` | `CreatedOnce` |
| `RevokedAccessIsClosed` | `AccessRevoked` |

The invariant has four parts that depend on the types only. `Tracked` says what the job
knows at each await of making a credential: nobody else activates on its machine, the row is not erased
before it is old, and an old row's secret cannot be late any more. `Access` follows what goes
on over a link: over a retired origin the slot is pending until its manager has closed it.
`Creating` is that a create was begun only with `uncertain` stored first.

### InboxEvents

For every number of messages, streams, leases, databases and failures:

| Theorem | Says |
|---|---|
| `EventsInvariantHolds`, `EventsTypeCorrect` | the invariant; `TypeOK`, with the cap on leases |
| `SubscribersSkipNothing` | `NoGap` |
| `StoppingIsFinal` | `StopIsFinal`: only an end stops a subscriber, or a sandbox's credential misread |
| `EventsAreCutOff` | `CutOff`, an action property |

`Held` says that a page in hand is whole between the stream's position and its own, still when it
is sent, although messages arrive and go meanwhile; `Positioned` that a position is of the current
database once the lease is taken. `Checked` bounds the time since access ended by the age of
the checks the page stands for, which is what the watchdog compares with `FRESH_MS`. It also knows that a page
refused as not found was refused for an ended inbox or a lost lease: the order in which
`run` asks (lease first) is what keeps a lost lease from reading as an end, and `StopIsFinal` needs
that. Its exemption names the one thing the code cannot tell from a revocation; for any credential that is not
a sandbox's (`Sandboxed` false) it is empty.

### Subagents

For every number of subagents, calls at once and moves:

| Theorem | Says |
|---|---|
| `AgentsInvariantHolds`, `AgentsTypeCorrect` | the invariant, `TypeOK` |
| `NobodyWaitsInACircle` | `NoWaitCycle` |
| `JoinsAreFresh` | `JoinIsFresh` |
| `EndsStayInHand` | `EndsInHand` |

`NoWaitCycle` needs two arguments. A join that is let through leaves a set of agents that has what it
waits for, waits for itself only, and does not have the joiner: a circle through the joiner would
leave that set or be in it without the joiner. A foreground spawn is not checked
for cycles at all in the code; it closes none because nobody can wait for main, and only main
spawns. For `JoinIsFresh`, `Shown` says that a message is never meant for a submission after the row's,
and a row that shows an end shows that of its own submission: `track` writes nothing for a superseded one.
`Queued` gives each submission one update, in their order, and `Shut` and the last part of
`Shown` keep marks and interrupted rows apart over a reload.

`EndsInHand` is what `EndsAreTold` needs at every moment: the end that nobody told main of, and that
no call of main's took, is in the hands of a watcher while the page is open. `Handed` follows an end
through the watcher. `reported` never runs ahead of what main was told, so a row that looks reported
was; a watcher that posted is through only when its end is told; a foreground row whose end is
recorded was told to the spawn or given up with it, so `detach` makes no row owe a report that
nobody will send; and `resume` watches whatever `reported` does not cover, but for
foreground runs the page's end cut off, which no `detach` can reach any more. `Paid` says that
each submission after the first was a move of the model's, so the bound on submissions (`Subs`)
never drops a watcher.

### Only model-checked

The liveness properties (fairness and ENABLED are outside the prover): `DestroyedIsErased`,
`LeftoversRemoved`, `FencesArrive`, `OutboxDrains`, `WindowResolved`, `OperationsEnd`, `GoneIsErased`,
`Delivered`, `JoinsEnd`, `EndsAreTold`. The safety side of the last is proved (`EndsInHand`).

Two type invariants are proved and in no run of their own, `AccountKeys`'s and `Subagents`'s: the
proofs cover every instance the runs use. So are `RetiredOwnerFenced` and `EndedStaysEnded`, most of which
`ImplementsContract` checks too: an endpoint of a retired owner counts as closed there, and a closed one never opens.

### What the code does not promise

Met while modelling, and left as the code has them: a subagent that was once spawned in the
foreground and is later woken by a message never reports its end (`subagents.ts:205`), although the
caller is told that it will (`:541`); `NoneLost` states it, is false of the code, and
`EndsAreTold` is stated up to these ends. A provider error while an alarm retries a stop
leaves the operation failed with processes still to be cleaned up (`sandboxBrowser.ts:632`), so
`OperationsEnd` is stated up to that. Keys of a mint whose answer is lost are not recovered (above).

An outage of the sandbox provider ends the event stream of a sandbox credential as if the credential had
been revoked (`sandboxCredentials.ts:58-65`, then `utils/auth.ts:79-82`, `routes/inboxes.ts:209-212` and
`inboxStream.ts:118`). `inbox/DESIGN.md:172-176` says "`auth_revoked` and `not_found` mean stop. Outages,
abrupt closes and `unavailable` need bounded backoff/resume", so such a subscriber stops for good and is not
given what it is still owed. `OutageIsNoEnd` states what the document says and is false of the code: as an
`INVARIANT` of `MCInboxEvents.cfg` it fails after one `Connect`, or after `Authorize`. `StopIsFinal`
and `Delivered` are stated up to this case, and everything else a failure can do to a stream
is inside them.

A sandbox in state `error` is neither running nor at rest: a stop that finds it keeps its cleanup pending and
asks again every 30 seconds (`sandboxBrowser.ts:235-258`), for as long as the provider leaves the sandbox so.
`OperationsEnd` leaves that cleanup out (a setup on such a machine fails, `:514`); `Break` puts a machine there at any moment, and the
safety properties hold with it.

## 6. Not modelled

* DKIM verification, e-mail policy matching, sender credentials, listings, exports and HAR
  conversion: sequential parsing, checks and formatting.
* The inbox database set back to an earlier point under the same epoch: cursors would then be
  ahead of the head or name other messages; the code has no answer to it but `expired`.
* The sweep's pages and round-robin cursors, archiving and sender authorisation.
* Service login and grants: each exchange is one guarded statement; sessions carry the account
  generation and compare it on use. The next module of the plan.
* The rotation of a sandbox bearer in place, routes that run commands in a sandbox, preview cookies.
* Pouch's message caps and their undo, one-shots, `report: false`, watches, the composer's queues,
  failures of the browser's database; its file protocol and tool host.
* The inference proxy, page rendering, documentation, build scripts, and the plug-ins of an
  external chat server: forwarding, rendering and batch jobs with no state shared between invocations.
