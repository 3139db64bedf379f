-------------------------- MODULE AccountKeysProofs --------------------------
(***************************************************************************)
(* Proofs about AccountKeys, for every number of requests and scheduled     *)
(* invocations, every set of failures and every bound.                      *)
(***************************************************************************)
EXTENDS AccountInvariant, TLAPS

USE DEF local, provider, retirement

\* The phases, one by one: the provers are quicker with the sets unexpanded.
LEMMA Phases ==
    /\ "openrouter" \in Backends /\ "tinfoil" \in Backends
    /\ "idle" \in RequestStates /\ "activity" \in RequestStates
    /\ "send" \in RequestStates /\ "mint" \in RequestStates
    /\ "swap" \in RequestStates /\ "destroy" \in RequestStates
    /\ "adopt" \in RequestStates /\ "revoke" \in RequestStates
    /\ "select" \in RequestStates /\ "update" \in RequestStates
    /\ "insert" \in RequestStates /\ "established" \in RequestStates
    /\ "idle" \in CronStates /\ "retire" \in CronStates
    /\ "list" \in CronStates /\ "fence" \in CronStates
    /\ "record" \in CronStates /\ "rows" \in CronStates
    /\ "row" \in CronStates /\ "purge" \in CronStates
    /\ "null" \in CronStates /\ "drop" \in CronStates
  BY DEF Backends, RequestStates, CronStates

\* The types as numbers, for the steps that only compare.
LEMMA Bounds ==
    ASSUME TypeOK
    PROVE /\ period \in Nat /\ user \in Nat /\ tokens \in Nat /\ keys \in Nat
          /\ drawn \in Nat
          /\ account.gen \in 0 .. tokens /\ account.token \in 0 .. tokens
          /\ account.key \in KeySets /\ account.present \in BOOLEAN
  BY AccountAssumption DEF TypeOK, AccountRow

\* A type only grows with the counters and the ledger.
LEMMA Growth ==
    ASSUME TypeOK, period' \in Nat, tokens' \in Nat, keys' \in Nat, drawn' \in Nat,
           period <= period', tokens <= tokens', keys <= keys', drawn <= drawn',
           ledger \subseteq ledger'
    PROVE /\ KeySets \subseteq KeySets'
          /\ OutboxRow \subseteq OutboxRow'
          /\ AccountRow \subseteq AccountRow'
          /\ RequestRow \subseteq RequestRow'
          /\ CronRow \subseteq CronRow'
<1>1. /\ 0 .. period \subseteq 0 .. period'
      /\ 0 .. tokens \subseteq 0 .. tokens'
      /\ 0 .. keys \subseteq 0 .. keys'
      /\ 0 .. drawn \subseteq 0 .. drawn'
  BY Bounds
<1>2. KeySets \subseteq KeySets'
  BY <1>1 DEF KeySets
<1>3. OutboxRow \subseteq OutboxRow'
  BY <1>1, <1>2 DEF OutboxRow
<1>4. AccountRow \subseteq AccountRow'
  BY <1>1, <1>2 DEF AccountRow
<1>5. RequestRow \subseteq RequestRow'
  BY <1>1 DEF RequestRow
<1>6. CronRow \subseteq CronRow'
  BY <1>1, <1>3 DEF CronRow
<1>7. QED BY <1>2, <1>3, <1>4, <1>5, <1>6

\* Rows that are written whole.
LEMMA Blank ==
    ASSUME TypeOK
    PROVE /\ NoKeys \in KeySets /\ NoRow \in OutboxRow
          /\ NoAccount \in AccountRow /\ NoRequest \in RequestRow
          /\ NoCron \in CronRow
<1>1. 0 \in 0 .. period /\ 0 \in 0 .. tokens /\ 0 \in 0 .. keys /\ 0 \in 0 .. drawn
  BY Bounds
<1>2. NoKeys \in KeySets
  BY <1>1 DEF NoKeys, KeySets
<1>3. NoRow \in OutboxRow
  BY <1>1, <1>2 DEF NoRow, OutboxRow
<1>4. NoAccount \in AccountRow
  BY <1>1, <1>2 DEF NoAccount, AccountRow
<1>5. NoRequest \in RequestRow
  BY <1>1, Phases DEF NoRequest, RequestRow
<1>6. NoCron \in CronRow
  BY <1>1, <1>3, Phases DEF NoCron, CronRow
<1>7. QED BY <1>2, <1>3, <1>4, <1>5, <1>6

LEMMA InitType == Init => TypeOK
<1> SUFFICES ASSUME Init PROVE TypeOK
  OBVIOUS
<1>1. period \in 1 .. MaxPeriod /\ user \in 0 .. period
      /\ tokens \in 0 .. MaxTokens /\ keys \in 0 .. MaxKeys /\ faults \in 0 .. MaxFaults
  BY AccountAssumption DEF Init
<1>2. 0 \in 0 .. period /\ 0 \in 0 .. tokens /\ 0 \in 0 .. keys /\ 0 \in 0 .. drawn
  BY DEF Init
<1>3. NoKeys \in KeySets
  BY <1>2 DEF NoKeys, KeySets
<1>4. NoRow \in OutboxRow
  BY <1>2, <1>3 DEF NoRow, OutboxRow
<1>5. account \in AccountRow
  BY <1>2, <1>3 DEF Init, NoAccount, AccountRow
<1>6. req \in [Requests -> RequestRow]
  BY <1>2, Phases DEF Init, NoRequest, RequestRow
<1>7. cron \in [Crons -> CronRow]
  BY <1>2, <1>4, Phases DEF Init, NoCron, CronRow
<1>8. QED BY <1>1, <1>2, <1>5, <1>6, <1>7 DEF Init, TypeOK

\* Every failure leaves the count of failures typed.
LEMMA FaultType == ASSUME TypeOK, NEW kind, Fault(kind) PROVE faults' \in 0 .. MaxFaults
  BY AccountAssumption DEF TypeOK, Fault

\* A step that moves the clock, the counters or the ledger no further.
LEMMA Still ==
    ASSUME UNCHANGED <<period, tokens, keys, drawn, ledger>>
    PROVE /\ KeySets' = KeySets /\ OutboxRow' = OutboxRow
          /\ AccountRow' = AccountRow /\ RequestRow' = RequestRow
          /\ CronRow' = CronRow
  BY DEF KeySets, OutboxRow, AccountRow, RequestRow, CronRow

\* What a request writes into its own record.
LEMMA RequestPut ==
    ASSUME TypeOK, NEW r \in Requests, NEW row \in RequestRow
    PROVE [req EXCEPT ![r] = row] \in [Requests -> RequestRow]
  BY DEF TypeOK

LEMMA RequestDone ==
    ASSUME TypeOK, NEW r \in Requests
    PROVE [req EXCEPT ![r] = NoRequest] \in [Requests -> RequestRow]
  BY RequestPut, Blank

LEMMA RequestMoves ==
    ASSUME TypeOK, NEW r \in Requests, NEW pc \in RequestStates
    PROVE /\ [req EXCEPT ![r].pc = pc] \in [Requests -> RequestRow]
          /\ [req EXCEPT ![r].pc = pc, ![r].healed = TRUE]
               \in [Requests -> RequestRow]
          /\ [req EXCEPT ![r].pc = pc, ![r].minted = 0] \in [Requests -> RequestRow]
<1>1. req[r] \in RequestRow /\ 0 \in 0 .. keys
  BY Bounds DEF TypeOK
<1>2. /\ [req[r] EXCEPT !.pc = pc] \in RequestRow
      /\ [req[r] EXCEPT !.pc = pc, !.healed = TRUE] \in RequestRow
      /\ [req[r] EXCEPT !.pc = pc, !.minted = 0] \in RequestRow
  BY <1>1 DEF RequestRow
<1>3. /\ [req EXCEPT ![r].pc = pc] = [req EXCEPT ![r] = [req[r] EXCEPT !.pc = pc]]
      /\ [req EXCEPT ![r].pc = pc, ![r].healed = TRUE]
           = [req EXCEPT ![r] = [req[r] EXCEPT !.pc = pc, !.healed = TRUE]]
      /\ [req EXCEPT ![r].pc = pc, ![r].minted = 0]
           = [req EXCEPT ![r] = [req[r] EXCEPT !.pc = pc, !.minted = 0]]
  BY DEF TypeOK
<1>4. QED BY <1>2, <1>3, RequestPut

LEMMA RequestTakes ==
    ASSUME TypeOK, NEW r \in Requests, NEW pc \in RequestStates, NEW k \in 0 .. keys
    PROVE /\ [req EXCEPT ![r].pc = pc, ![r].key = k] \in [Requests -> RequestRow]
          /\ [req EXCEPT ![r].pc = pc, ![r].key = k, ![r].minted = 0]
               \in [Requests -> RequestRow]
<1>1. req[r] \in RequestRow /\ 0 \in 0 .. keys
  BY Bounds DEF TypeOK
<1>2. /\ [req[r] EXCEPT !.pc = pc, !.key = k] \in RequestRow
      /\ [req[r] EXCEPT !.pc = pc, !.key = k, !.minted = 0] \in RequestRow
  BY <1>1 DEF RequestRow
<1>3. /\ [req EXCEPT ![r].pc = pc, ![r].key = k]
           = [req EXCEPT ![r] = [req[r] EXCEPT !.pc = pc, !.key = k]]
      /\ [req EXCEPT ![r].pc = pc, ![r].key = k, ![r].minted = 0]
           = [req EXCEPT ![r] = [req[r] EXCEPT !.pc = pc, !.key = k, !.minted = 0]]
  BY DEF TypeOK
<1>4. QED BY <1>2, <1>3, RequestPut

LEMMA RequestGoes ==
    ASSUME TypeOK, NEW r \in Requests
    PROVE /\ \A pc \in RequestStates : ReqGoto(r, pc) => req' \in [Requests -> RequestRow]
          /\ ReqDone(r) => req' \in [Requests -> RequestRow]
<1>1. ASSUME NEW pc \in RequestStates, ReqGoto(r, pc)
      PROVE req' \in [Requests -> RequestRow]
  <2>1. [req EXCEPT ![r].pc = pc] \in [Requests -> RequestRow]
    BY RequestMoves
  <2>2. QED BY <1>1, <2>1 DEF ReqGoto
<1>2. ReqDone(r) => req' \in [Requests -> RequestRow]
  BY RequestDone DEF ReqDone
<1>3. QED BY <1>1, <1>2

\* Steps that change the record of a request and nothing else.
LEMMA RequestStepType ==
    ASSUME TypeOK, req' \in [Requests -> RequestRow],
           UNCHANGED <<local, provider, retirement, cron>>,
           faults' \in 0 .. MaxFaults
    PROVE TypeOK'
  BY Still DEF TypeOK

LEMMA ActivityType ==
    ASSUME TypeOK, NEW r \in Requests, AfterActivity(r)
    PROVE req' \in [Requests -> RequestRow]
  BY RequestGoes, Phases DEF AfterActivity

LEMMA RecordActivityType ==
    ASSUME TypeOK, NEW r \in Requests, RecordActivity(r) PROVE TypeOK'
<1>1. req' \in [Requests -> RequestRow]
  BY ActivityType DEF RecordActivity
<1>2. user' \in 0 .. period
  BY Bounds DEF RecordActivity, Stamp
<1>3. QED BY <1>1, <1>2, Still DEF RecordActivity, TypeOK

\* Provisioning and revocation.
LEMMA TokenType ==
    ASSUME TypeOK, NEW r \in Requests
    PROVE /\ ProvisionUpdate(r) => TypeOK'
          /\ ProvisionInsert(r) => TypeOK'
          /\ Revoke(r) => TypeOK'
<1>1. ASSUME tokens < MaxTokens, tokens' = tokens + 1,
             UNCHANGED <<period, user, provider, retirement, cron, faults>>,
             account' \in AccountRow', req' \in [Requests -> RequestRow]
      PROVE TypeOK'
  <2>1. tokens' \in 0 .. MaxTokens
    BY <1>1, AccountAssumption DEF TypeOK
  <2>2. /\ OutboxRow \subseteq OutboxRow' /\ RequestRow \subseteq RequestRow'
        /\ CronRow \subseteq CronRow'
        /\ 0 .. tokens \subseteq 0 .. tokens' /\ 1 .. tokens \subseteq 1 .. tokens'
    BY <1>1, Growth, Bounds
  <2>3. QED BY <1>1, <2>1, <2>2 DEF TypeOK
<1>2. ProvisionUpdate(r) => TypeOK'
  <2>1. SUFFICES ASSUME ProvisionUpdate(r) PROVE TypeOK'
    OBVIOUS
  <2>2. AccountRow \subseteq AccountRow' /\ tokens + 1 \in 0 .. tokens'
    BY <2>1, Growth, Bounds DEF ProvisionUpdate
  <2>3. account' \in AccountRow'
    BY <2>1, <2>2 DEF ProvisionUpdate, TypeOK, AccountRow
  <2>4. req' \in [Requests -> RequestRow]
    BY <2>1, RequestGoes, Phases DEF ProvisionUpdate
  <2>5. QED BY <2>1, <2>3, <2>4, <1>1 DEF ProvisionUpdate
<1>3. ProvisionInsert(r) => TypeOK'
  <2>1. SUFFICES ASSUME ProvisionInsert(r) PROVE TypeOK'
    OBVIOUS
  <2>2. req' \in [Requests -> RequestRow]
    BY <2>1, RequestGoes, Phases DEF ProvisionInsert
  <2>3. CASE account.present
    BY <2>1, <2>2, <2>3, RequestStepType DEF ProvisionInsert, TypeOK
  <2>4. CASE ~account.present
    <3>1. /\ AccountRow \subseteq AccountRow' /\ tokens + 1 \in 0 .. tokens'
          /\ NoAccount \in AccountRow
      BY <2>1, <2>4, Growth, Bounds, Blank DEF ProvisionInsert
    <3>2. account' \in AccountRow'
      BY <2>1, <2>4, <3>1 DEF ProvisionInsert, AccountRow
    <3>3. QED BY <2>1, <2>2, <2>4, <3>2, <1>1 DEF ProvisionInsert
  <2>5. QED BY <2>3, <2>4
<1>4. Revoke(r) => TypeOK'
  <2>1. SUFFICES ASSUME Revoke(r) PROVE TypeOK'
    OBVIOUS
  <2>2. account' \in AccountRow
    BY <2>1 DEF Revoke, TypeOK, AccountRow
  <2>3. req' \in [Requests -> RequestRow]
    BY <2>1, RequestGoes DEF Revoke
  <2>4. QED BY <2>1, <2>2, <2>3, Still DEF Revoke, TypeOK
<1>5. QED BY <1>2, <1>3, <1>4

\* Steps of an inference call.
LEMMA KeyType ==
    ASSUME TypeOK, NEW r \in Requests
    PROVE /\ \A b \in Backends : Authenticate(r, b) => TypeOK'
          /\ Send(r) => TypeOK'
          /\ Swap(r) => TypeOK'
          /\ Destroy(r) => TypeOK'
          /\ Adopt(r) => TypeOK'
<1>1. \A b \in Backends : Authenticate(r, b) => TypeOK'
  <2>1. SUFFICES ASSUME NEW b \in Backends, Authenticate(r, b) PROVE TypeOK'
    OBVIOUS
  <2>2. account.key[b] \in 0 .. keys /\ 0 \in 0 .. keys
    BY Bounds DEF KeySets
  <2>3. req' \in [Requests -> RequestRow]
    BY <2>1, <2>2, Bounds, Phases DEF Authenticate, TypeOK, RequestRow
  <2>4. QED BY <2>1, <2>3, RequestStepType DEF Authenticate, TypeOK
<1>2. Send(r) => TypeOK'
  <2>1. SUFFICES ASSUME Send(r) PROVE TypeOK'
    OBVIOUS
  <2>2. req' \in [Requests -> RequestRow]
    <3>1. [req EXCEPT ![r].pc = "mint", ![r].healed = TRUE]
            \in [Requests -> RequestRow]
      BY RequestMoves, Phases
    <3>2. QED BY <2>1, <3>1, RequestGoes DEF Send
  <2>3. QED BY <2>1, <2>2, RequestStepType DEF Send, TypeOK
<1>3. Swap(r) => TypeOK'
  <2>1. SUFFICES ASSUME Swap(r) PROVE TypeOK'
    OBVIOUS
  <2>2. req[r].minted \in 0 .. keys /\ 0 \in 0 .. keys /\ req[r].b \in Backends
    BY Bounds DEF TypeOK, RequestRow
  <2>3. req' \in [Requests -> RequestRow]
    <3>1. [req EXCEPT ![r].pc = "send", ![r].key = req[r].minted, ![r].minted = 0]
            \in [Requests -> RequestRow]
      BY <2>2, RequestTakes, Phases
    <3>2. QED BY <2>1, <3>1, RequestGoes, Phases DEF Swap
  <2>4. account' \in AccountRow
    <3>1. [account.key EXCEPT ![req[r].b] = req[r].minted] \in KeySets
      BY <2>2, Bounds DEF KeySets
    <3>2. [account EXCEPT !.key = [account.key EXCEPT ![req[r].b] = req[r].minted]]
            \in AccountRow
      BY <3>1 DEF TypeOK, AccountRow
    <3>3. [account EXCEPT !.key[req[r].b] = req[r].minted]
            = [account EXCEPT !.key = [account.key EXCEPT ![req[r].b] = req[r].minted]]
      OBVIOUS
    <3>4. QED BY <2>1, <3>2, <3>3 DEF Swap, TypeOK
  <2>5. QED BY <2>1, <2>3, <2>4, Still DEF Swap, TypeOK
<1>4. Destroy(r) => TypeOK'
  <2>1. SUFFICES ASSUME Destroy(r) PROVE TypeOK'
    OBVIOUS
  <2>2. req' \in [Requests -> RequestRow]
    BY <2>1, RequestMoves, Phases DEF Destroy
  <2>3. QED BY <2>1, <2>2, Still DEF Destroy, TypeOK
<1>5. Adopt(r) => TypeOK'
  <2>1. SUFFICES ASSUME Adopt(r) PROVE TypeOK'
    OBVIOUS
  <2>2. account.key[req[r].b] \in 0 .. keys
    BY Bounds DEF KeySets, TypeOK, RequestRow
  <2>3. req' \in [Requests -> RequestRow]
    <3>1. [req EXCEPT ![r].pc = "send", ![r].key = account.key[req[r].b]]
            \in [Requests -> RequestRow]
      BY <2>2, RequestTakes, Phases
    <3>2. QED BY <2>1, <3>1, RequestGoes DEF Adopt
  <2>4. QED BY <2>1, <2>3, RequestStepType DEF Adopt, TypeOK
<1>6. QED BY <1>1, <1>2, <1>3, <1>4, <1>5

\* Minting, whether its answer arrives or not.
LEMMA MintType ==
    ASSUME TypeOK, NEW r \in Requests, NewKey(r), req' \in [Requests -> RequestRow'],
           UNCHANGED <<local, retirement, cron>>, faults' \in 0 .. MaxFaults
    PROVE TypeOK'
<1>1. keys' \in 0 .. MaxKeys /\ keys + 1 \in 1 .. MaxKeys
  BY AccountAssumption DEF NewKey, TypeOK
<1>2. lineage' \in [1 .. MaxKeys -> 0 .. tokens]
  BY <1>1 DEF NewKey, TypeOK, RequestRow
<1>3. live' \subseteq 1 .. keys'
  BY Bounds DEF NewKey, TypeOK
<1>4. /\ AccountRow \subseteq AccountRow' /\ OutboxRow \subseteq OutboxRow'
      /\ CronRow \subseteq CronRow'
  BY Growth, Bounds DEF NewKey
<1>5. QED BY <1>1, <1>2, <1>3, <1>4 DEF TypeOK

LEMMA RequestType == ASSUME TypeOK, NEW r \in Requests, Request(r) PROVE TypeOK'
<1>1. ProvisionStart(r) \/ ProvisionSelect(r) \/ RevokeStart(r) => TypeOK'
  <2>1. SUFFICES ASSUME ProvisionStart(r) \/ ProvisionSelect(r) \/ RevokeStart(r)
                 PROVE TypeOK'
    OBVIOUS
  <2>2. req' \in [Requests -> RequestRow]
    BY <2>1, RequestGoes, Phases DEF ProvisionStart, ProvisionSelect, RevokeStart
  <2>3. QED
    BY <2>1, <2>2, RequestStepType
    DEF ProvisionStart, ProvisionSelect, RevokeStart, TypeOK
<1>2. Mint(r) => TypeOK'
  <2>1. SUFFICES ASSUME Mint(r) PROVE TypeOK'
    OBVIOUS
  <2>2. RequestRow \subseteq RequestRow' /\ keys + 1 \in 0 .. keys'
    BY <2>1, Growth, Bounds DEF Mint, NewKey
  <2>3. req' \in [Requests -> RequestRow']
    BY <2>1, <2>2, Phases DEF Mint, TypeOK, RequestRow
  <2>4. QED BY <2>1, <2>3, MintType DEF Mint, TypeOK
<1>3. QED
  BY <1>1, <1>2, RecordActivityType, TokenType, KeyType, AccountAssumption
  DEF Request

LEMMA RequestFailsType ==
    ASSUME TypeOK, NEW r \in Requests, RequestFails(r) PROVE TypeOK'
<1>1. ActivityLost(r) => TypeOK'
  BY RequestStepType, ActivityType, FaultType DEF ActivityLost
<1>2. LookupFails(r) => TypeOK'
  <2>1. SUFFICES ASSUME LookupFails(r) PROVE TypeOK'
    OBVIOUS
  <2>2. req' \in [Requests -> RequestRow]
    BY <2>1, RequestMoves, Phases DEF LookupFails
  <2>3. QED BY <2>1, <2>2, RequestStepType, FaultType DEF LookupFails
<1>3. MintRefused(r) \/ RequestDies(r) => TypeOK'
  BY RequestStepType, RequestGoes, FaultType DEF MintRefused, RequestDies
<1>4. MintLost(r) => TypeOK'
  <2>1. SUFFICES ASSUME MintLost(r) PROVE TypeOK'
    OBVIOUS
  <2>2. RequestRow \subseteq RequestRow'
    BY <2>1, Growth, Bounds DEF MintLost, NewKey
  <2>3. req' \in [Requests -> RequestRow']
    BY <2>1, <2>2, RequestGoes DEF MintLost
  <2>4. QED BY <2>1, <2>3, MintType, FaultType DEF MintLost
<1>5. DestroyFails(r) => TypeOK'
  <2>1. SUFFICES ASSUME DestroyFails(r) PROVE TypeOK'
    OBVIOUS
  <2>2. req' \in [Requests -> RequestRow]
    BY <2>1, RequestMoves, Phases DEF DestroyFails
  <2>3. QED BY <2>1, <2>2, RequestStepType, FaultType DEF DestroyFails
<1>6. QED BY <1>1, <1>2, <1>3, <1>4, <1>5 DEF RequestFails

\* What a scheduled invocation writes into its own record.
LEMMA CronPut ==
    ASSUME TypeOK, NEW c \in Crons, NEW row \in CronRow
    PROVE [cron EXCEPT ![c] = row] \in [Crons -> CronRow]
  BY DEF TypeOK

LEMMA CronGoes ==
    ASSUME TypeOK, NEW c \in Crons, NEW pc \in CronStates, CronGoto(c, pc)
    PROVE cron' \in [Crons -> CronRow]
<1>1. [cron[c] EXCEPT !.pc = pc] \in CronRow
  BY DEF TypeOK, CronRow
<1>2. cron' = [cron EXCEPT ![c] = [cron[c] EXCEPT !.pc = pc]]
  BY DEF CronGoto, TypeOK
<1>3. QED BY <1>1, <1>2, CronPut

\* Steps that change the record of a scheduled invocation and nothing else.
LEMMA CronStepType ==
    ASSUME TypeOK, cron' \in [Crons -> CronRow],
           UNCHANGED <<local, provider, retirement, req, faults>>
    PROVE TypeOK'
  BY Still DEF TypeOK

LEMMA CronStartType == ASSUME TypeOK, NEW c \in Crons, CronStart(c) PROVE TypeOK'
<1>1. period \in 0 .. period /\ user \in 0 .. period /\ 0 \in 0 .. period
  BY Bounds DEF TypeOK
<1>2. [cron[c] EXCEPT !.pc = "retire", !.cutoff = period,
         !.seen = IF user < period THEN user ELSE 0] \in CronRow
  BY <1>1, Phases DEF TypeOK, CronRow
<1>3. cron' = [cron EXCEPT ![c] = [cron[c] EXCEPT !.pc = "retire", !.cutoff = period,
                 !.seen = IF user < period THEN user ELSE 0]]
  BY DEF CronStart, TypeOK
<1>4. QED BY <1>2, <1>3, CronPut, CronStepType DEF CronStart

LEMMA RetireType ==
    ASSUME TypeOK, TokenInv, NEW c \in Crons, Retire(c) PROVE TypeOK'
<1>1. cron[c] \in CronRow /\ 0 \in 0 .. period /\ 0 \in 0 .. tokens
  BY Bounds DEF TypeOK, CronRow
<1>2. drawn' \in Nat /\ drawn <= drawn'
  BY Bounds DEF Retire
<1>3. user' \in 0 .. period /\ account' \in AccountRow
  BY <1>1, Blank DEF Retire, Remains, TypeOK
<1>4. account.present => account.gen \in 1 .. tokens
  BY Bounds DEF TokenInv
<1>5. ledger \subseteq ledger' /\ ledger' \subseteq 1 .. tokens
  BY <1>4 DEF Retire, TypeOK
<1>6. /\ KeySets' = KeySets /\ AccountRow' = AccountRow /\ RequestRow' = RequestRow
  BY DEF Retire, KeySets, AccountRow, RequestRow
<1>7. OutboxRow \subseteq OutboxRow' /\ CronRow \subseteq CronRow'
  BY <1>2, <1>5, Growth, Bounds DEF Retire
<1>8. outbox' \subseteq OutboxRow'
  <2>1. MayRetire(c) => [id |-> drawn + 1, key |-> account.key] \in OutboxRow'
    BY <1>2, <1>6, Bounds DEF Retire, OutboxRow
  <2>2. QED BY <1>7, <2>1 DEF Retire, TypeOK
<1>9. [cron[c] EXCEPT !.pc = "list", !.seen = 0, !.cutoff = 0, !.replay = FALSE]
        \in CronRow
  BY <1>1, Phases DEF CronRow
<1>10. cron' = [cron EXCEPT ![c] = [cron[c] EXCEPT !.pc = "list", !.seen = 0,
                                      !.cutoff = 0, !.replay = FALSE]]
  BY DEF Retire, TypeOK
<1>11. cron' \in [Crons -> CronRow']
  BY <1>9, <1>10, <1>7, CronPut
<1>12. QED BY <1>2, <1>3, <1>5, <1>6, <1>8, <1>11 DEF Retire, TypeOK

\* The fence pass.
LEMMA FenceType ==
    ASSUME TypeOK, TokenInv, NEW c \in Crons
    PROVE /\ ListFences(c) => TypeOK'
          /\ FenceInbox(c) => TypeOK'
          /\ FenceFails(c) => TypeOK'
          /\ RecordFence(c) => TypeOK'
          /\ FencesDone(c) => TypeOK'
<1>1. cron[c] \in CronRow /\ 0 \in 0 .. tokens /\ ledger \subseteq 0 .. tokens
  BY Bounds DEF TypeOK
<1>2. ListFences(c) => TypeOK'
  <2>1. SUFFICES ASSUME ListFences(c) PROVE TypeOK'
    OBVIOUS
  <2>2. Fences(cron[c].replay) \subseteq ledger
    BY DEF Fences, TypeOK
  <2>3. [cron[c] EXCEPT !.pc = "fence", !.gens = Fences(cron[c].replay)] \in CronRow
    BY <1>1, <2>2, Phases DEF CronRow
  <2>4. cron' = [cron EXCEPT ![c] =
                   [cron[c] EXCEPT !.pc = "fence", !.gens = Fences(cron[c].replay)]]
    BY <2>1 DEF ListFences, TypeOK
  <2>5. QED BY <2>1, <2>3, <2>4, CronPut, CronStepType DEF ListFences
<1>3. FenceInbox(c) => TypeOK'
  <2>1. SUFFICES ASSUME NEW g \in cron[c].gens, inbox' = inbox \cup {g},
                        cron' = [cron EXCEPT ![c].pc = "record", ![c].at = g,
                                             ![c].gens = @ \ {g}],
                        UNCHANGED <<local, provider, outbox, drawn, ledger, fenced, req, faults>>
                 PROVE TypeOK'
    BY DEF FenceInbox
  <2>2. g \in ledger
    BY <1>1 DEF CronRow
  <2>3. [cron[c] EXCEPT !.pc = "record", !.at = g, !.gens = @ \ {g}] \in CronRow
    BY <1>1, <2>2, Phases DEF CronRow
  <2>4. cron' = [cron EXCEPT ![c] =
                   [cron[c] EXCEPT !.pc = "record", !.at = g, !.gens = @ \ {g}]]
    BY <2>1 DEF TypeOK
  <2>5. cron' \in [Crons -> CronRow]
    BY <2>3, <2>4, CronPut
  <2>6. QED BY <2>1, <2>2, <2>5, Still DEF TypeOK
<1>4. FenceFails(c) => TypeOK'
  <2>1. SUFFICES ASSUME NEW g \in cron[c].gens, inbox' \in {inbox, inbox \cup {g}},
                        cron' = [cron EXCEPT ![c].gens = @ \ {g}],
                        faults' \in 0 .. MaxFaults,
                        UNCHANGED <<local, provider, outbox, drawn, ledger, fenced, req>>
                 PROVE TypeOK'
    BY FaultType DEF FenceFails
  <2>2. g \in ledger
    BY <1>1 DEF CronRow
  <2>3. [cron[c] EXCEPT !.gens = @ \ {g}] \in CronRow
    BY <1>1 DEF CronRow
  <2>4. cron' = [cron EXCEPT ![c] = [cron[c] EXCEPT !.gens = @ \ {g}]]
    BY <2>1 DEF TypeOK
  <2>5. cron' \in [Crons -> CronRow]
    BY <2>3, <2>4, CronPut
  <2>6. QED BY <2>1, <2>2, <2>5, Still DEF TypeOK
<1>5. RecordFence(c) => TypeOK'
  <2>1. SUFFICES ASSUME RecordFence(c) PROVE TypeOK'
    OBVIOUS
  <2>2. cron[c].at \in ledger
    BY <2>1 DEF RecordFence, TokenInv
  <2>3. [cron[c] EXCEPT !.pc = "fence", !.at = 0] \in CronRow
    BY <1>1, Phases DEF CronRow
  <2>4. cron' = [cron EXCEPT ![c] = [cron[c] EXCEPT !.pc = "fence", !.at = 0]]
    BY <2>1 DEF RecordFence, TypeOK
  <2>5. cron' \in [Crons -> CronRow]
    BY <2>3, <2>4, CronPut
  <2>6. QED BY <2>1, <2>2, <2>5, Still DEF RecordFence, TypeOK
<1>6. FencesDone(c) => TypeOK'
  <2>1. SUFFICES ASSUME FencesDone(c) PROVE TypeOK'
    OBVIOUS
  <2>2. \A pc \in CronStates :
           [cron[c] EXCEPT !.pc = pc, !.replay = ~@] \in CronRow
    BY <1>1 DEF CronRow
  <2>3. PICK pc \in CronStates :
           cron' = [cron EXCEPT ![c].pc = pc, ![c].replay = ~@]
    BY <2>1, Phases DEF FencesDone
  <2>4. cron' = [cron EXCEPT ![c] = [cron[c] EXCEPT !.pc = pc, !.replay = ~@]]
    BY <2>3 DEF TypeOK
  <2>5. cron' \in [Crons -> CronRow]
    BY <2>2, <2>4, CronPut
  <2>6. QED BY <2>1, <2>5, CronStepType DEF FencesDone
<1>7. QED BY <1>2, <1>3, <1>4, <1>5, <1>6

\* The outbox pass.
LEMMA NextBackendType ==
    ASSUME TypeOK, NEW c \in Crons, NextBackend(c)
    PROVE cron' \in [Crons -> CronRow]
<1>1. /\ [cron[c] EXCEPT !.pc = "purge", !.b = "tinfoil"] \in CronRow
      /\ [cron[c] EXCEPT !.pc = "drop"] \in CronRow
  BY Phases DEF TypeOK, CronRow
<1>2. \/ cron' = [cron EXCEPT ![c] = [cron[c] EXCEPT !.pc = "purge", !.b = "tinfoil"]]
      \/ cron' = [cron EXCEPT ![c] = [cron[c] EXCEPT !.pc = "drop"]]
  BY DEF NextBackend, TypeOK
<1>3. QED BY <1>1, <1>2, CronPut

LEMMA OutboxType ==
    ASSUME TypeOK, NEW c \in Crons
    PROVE /\ ListOutbox(c) => TypeOK'
          /\ NextRow(c) => TypeOK'
          /\ Purge(c) => TypeOK'
          /\ PurgeFails(c) => TypeOK'
          /\ NullKey(c) => TypeOK'
          /\ DropRow(c) => TypeOK'
<1>1. cron[c] \in CronRow /\ outbox \subseteq OutboxRow /\ NoRow \in OutboxRow
  BY Blank DEF TypeOK
<1>2. ListOutbox(c) => TypeOK'
  <2>1. SUFFICES ASSUME ListOutbox(c) PROVE TypeOK'
    OBVIOUS
  <2>2. [cron[c] EXCEPT !.pc = "row", !.rows = outbox] \in CronRow
    BY <1>1, Phases DEF CronRow
  <2>3. cron' = [cron EXCEPT ![c] = [cron[c] EXCEPT !.pc = "row", !.rows = outbox]]
    BY <2>1 DEF ListOutbox, TypeOK
  <2>4. QED BY <2>1, <2>2, <2>3, CronPut, CronStepType DEF ListOutbox
<1>3. NextRow(c) => TypeOK'
  <2>1. SUFFICES ASSUME NextRow(c) PROVE TypeOK'
    OBVIOUS
  <2>2. CASE cron[c].rows = {}
    BY <2>1, <2>2, CronGoes, Phases, CronStepType DEF NextRow
  <2>3. ASSUME NEW row \in cron[c].rows,
               cron' = [cron EXCEPT ![c].pc = "purge", ![c].row = row,
                          ![c].rows = @ \ {row}, ![c].b = "openrouter"]
        PROVE cron' \in [Crons -> CronRow]
    <3>1. [cron[c] EXCEPT !.pc = "purge", !.row = row, !.rows = @ \ {row},
                          !.b = "openrouter"] \in CronRow
      BY <1>1, Phases DEF CronRow
    <3>2. cron' = [cron EXCEPT ![c] = [cron[c] EXCEPT !.pc = "purge", !.row = row,
                     !.rows = @ \ {row}, !.b = "openrouter"]]
      BY <2>3 DEF TypeOK
    <3>3. QED BY <3>1, <3>2, CronPut
  <2>4. QED BY <2>1, <2>2, <2>3, CronStepType DEF NextRow
<1>4. ASSUME cron' \in [Crons -> CronRow], live' \subseteq 1 .. keys,
             faults' \in 0 .. MaxFaults,
             UNCHANGED <<local, keys, lineage, retirement, req>>
      PROVE TypeOK'
  BY <1>4, Still DEF TypeOK
<1>5. Purge(c) => TypeOK'
  <2>1. SUFFICES ASSUME Purge(c) PROVE TypeOK'
    OBVIOUS
  <2>2. cron' \in [Crons -> CronRow]
    BY <2>1, NextBackendType, CronGoes, Phases DEF Purge
  <2>3. QED BY <2>1, <2>2, <1>4 DEF Purge, TypeOK
<1>6. PurgeFails(c) => TypeOK'
  BY <1>4, NextBackendType, FaultType DEF PurgeFails, TypeOK
<1>7. NullKey(c) => TypeOK'
  <2>1. SUFFICES ASSUME NullKey(c) PROVE TypeOK'
    OBVIOUS
  <2>2. ASSUME NEW x \in OutboxRow
        PROVE [x EXCEPT !.key[cron[c].b] = 0] \in OutboxRow
    <3>1. [x.key EXCEPT ![cron[c].b] = 0] \in KeySets
      <4>1. x.key \in [Backends -> 0 .. keys] /\ 0 \in 0 .. keys
        BY Bounds DEF OutboxRow, KeySets
      <4>2. QED BY <4>1 DEF KeySets
    <3>2. [x EXCEPT !.key = [x.key EXCEPT ![cron[c].b] = 0]] \in OutboxRow
      BY <3>1 DEF OutboxRow
    <3>3. [x EXCEPT !.key[cron[c].b] = 0]
            = [x EXCEPT !.key = [x.key EXCEPT ![cron[c].b] = 0]]
      OBVIOUS
    <3>4. QED BY <3>2, <3>3
  <2>3. outbox' \subseteq OutboxRow
    BY <2>1, <2>2, <1>1 DEF NullKey
  <2>4. cron' \in [Crons -> CronRow]
    BY <2>1, NextBackendType DEF NullKey
  <2>5. QED BY <2>1, <2>3, <2>4, Still DEF NullKey, TypeOK
<1>8. DropRow(c) => TypeOK'
  <2>1. SUFFICES ASSUME DropRow(c) PROVE TypeOK'
    OBVIOUS
  <2>2. [cron[c] EXCEPT !.pc = "row", !.row = NoRow, !.b = "openrouter"] \in CronRow
    BY <1>1, Phases DEF CronRow
  <2>3. cron' = [cron EXCEPT ![c] = [cron[c] EXCEPT !.pc = "row", !.row = NoRow,
                                        !.b = "openrouter"]]
    BY <2>1 DEF DropRow, TypeOK
  <2>4. cron' \in [Crons -> CronRow]
    BY <2>2, <2>3, CronPut
  <2>5. outbox' \subseteq OutboxRow
    BY <2>1, <1>1 DEF DropRow
  <2>6. QED BY <2>1, <2>4, <2>5, Still DEF DropRow, TypeOK
<1>9. QED BY <1>2, <1>3, <1>5, <1>6, <1>7, <1>8

LEMMA CronType ==
    ASSUME TypeOK, TokenInv, NEW c \in Crons, Cron(c) \/ CronFails(c) PROVE TypeOK'
<1>1. CronDies(c) => TypeOK'
  <2>1. SUFFICES ASSUME CronDies(c) PROVE TypeOK'
    OBVIOUS
  <2>2. cron' \in [Crons -> CronRow]
    BY <2>1, CronPut, Blank DEF CronDies
  <2>3. QED BY <2>1, <2>2, Still, FaultType DEF CronDies, TypeOK
<1>2. QED
  BY <1>1, CronStartType, RetireType, FenceType, OutboxType DEF Cron, CronFails

LEMMA NextType == ASSUME TypeOK, TokenInv, Next PROVE TypeOK'
<1>1. CASE Age
  <2>1. period' \in 1 .. MaxPeriod /\ 0 .. period \subseteq 0 .. period'
    BY <1>1, AccountAssumption, Bounds DEF Age, TypeOK
  <2>2. /\ OutboxRow \subseteq OutboxRow' /\ AccountRow' = AccountRow
        /\ RequestRow' = RequestRow /\ CronRow \subseteq CronRow'
    BY <1>1, Growth, Bounds DEF Age, AccountRow, RequestRow, KeySets
  <2>3. QED BY <1>1, <2>1, <2>2 DEF Age, TypeOK
<1>2. CASE \E k \in live : KeyDies(k)
  <2>1. faults' \in 0 .. MaxFaults
    BY <1>2, FaultType DEF KeyDies
  <2>2. QED BY <1>2, <2>1, Still DEF KeyDies, TypeOK
<1>3. CASE InboxRestored
  <2>1. faults' \in 0 .. MaxFaults
    BY <1>3, FaultType DEF InboxRestored
  <2>2. QED BY <1>3, <2>1, Still DEF InboxRestored, TypeOK
<1>4. QED BY <1>1, <1>2, <1>3, RequestType, RequestFailsType, CronType DEF Next

LEMMA StutterType == ASSUME TypeOK, UNCHANGED vars PROVE TypeOK'
  BY Still DEF TypeOK, vars

-----------------------------------------------------------------------------
(* The invariant, steps that disturb none of it first *)

Others(r) == \A s \in Requests : s # r => req'[s] = req[s]

\* Request r at most forgets what it knows.
Forgets(r) ==
    \/ req'[r] = NoRequest
    \/ /\ req'[r].gen = req[r].gen /\ req'[r].token = req[r].token
       /\ req'[r].key = req[r].key /\ req'[r].minted \in {0, req[r].minted}
       /\ req'[r].minted # 0 => req'[r].pc \in {"swap", "destroy"}

QuietRequest(r) ==
    /\ UNCHANGED <<account, tokens, keys, lineage, outbox, ledger, cron>>
    /\ Others(r) /\ Forgets(r)

\* A scheduled invocation, the clock or a provider: no key is outboxed anew.
QuietCron ==
    /\ UNCHANGED <<account, tokens, keys, lineage, ledger, req>>
    /\ \A k \in 1 .. keys : Outboxed(k)' => Outboxed(k)
    /\ \A c \in Crons : cron'[c].pc = "record" => cron'[c].at \in ledger

\* Only a request that races holds a key of its own.
LEMMA Minters ==
    ASSUME PlaceInv, NEW r \in Requests, req[r].pc \notin {"swap", "destroy"}
    PROVE req[r].minted = 0
  BY DEF PlaceInv

LEMMA QuietRequestKeeps ==
    ASSUME IInv, NEW r \in Requests, QuietRequest(r)
    PROVE TokenInv' /\ LineageInv' /\ PlaceInv'
<1>1. \A s \in Requests :
         \/ req'[s] = NoRequest
         \/ /\ req'[s].gen = req[s].gen /\ req'[s].token = req[s].token
            /\ req'[s].key = req[s].key /\ req'[s].minted \in {0, req[s].minted}
            /\ req'[s].minted # 0 => req'[s].pc \in {"swap", "destroy"}
  BY DEF QuietRequest, Others, Forgets, IInv, PlaceInv
<1>2. TokenInv'
  BY <1>1 DEF QuietRequest, IInv, TokenInv, NoRequest
<1>3. LineageInv'
  BY <1>1 DEF QuietRequest, IInv, LineageInv, KeyLineage, NoRequest
<1>4. \A k : Stored(k)' = Stored(k) /\ Outboxed(k)' = Outboxed(k)
  BY DEF QuietRequest, Stored, Outboxed
<1>5. PlaceInv'
  <2>1. RetirementSparesCurrent'
    BY <1>4 DEF QuietRequest, IInv, PlaceInv, RetirementSparesCurrent
  <2>2. ASSUME NEW s \in Requests, req'[s].minted # 0
        PROVE /\ req'[s].minted = req[s].minted
              /\ req'[s].pc \in {"swap", "destroy"}
    BY <1>1, <2>2 DEF NoRequest
  <2>3. QED BY <1>4, <2>1, <2>2 DEF IInv, PlaceInv
<1>6. QED BY <1>2, <1>3, <1>5

LEMMA QuietCronKeeps ==
    ASSUME IInv, QuietCron PROVE TokenInv' /\ LineageInv' /\ PlaceInv'
<1>1. \A k : Stored(k)' = Stored(k)
  BY DEF QuietCron, Stored
<1>2. TokenInv'
  BY DEF QuietCron, IInv, TokenInv
<1>3. LineageInv'
  BY DEF QuietCron, IInv, LineageInv, KeyLineage
<1>4. \A r \in Requests : req[r].minted # 0 => req[r].minted \in 1 .. keys
  BY Bounds DEF IInv, TypeOK, RequestRow
<1>5. PlaceInv'
  BY <1>1, <1>4 DEF QuietCron, IInv, PlaceInv, RetirementSparesCurrent
<1>6. QED BY <1>2, <1>3, <1>5

\* What a move of one request leaves of the others and of itself.
LEMMA RequestSteps ==
    ASSUME TypeOK, NEW r \in Requests
    PROVE /\ \A pc : ReqGoto(r, pc) =>
                /\ Others(r) /\ req'[r].pc = pc
                /\ req'[r].gen = req[r].gen /\ req'[r].token = req[r].token
                /\ req'[r].key = req[r].key /\ req'[r].minted = req[r].minted
          /\ ReqDone(r) => Others(r) /\ req'[r] = NoRequest
  BY DEF TypeOK, RequestRow, ReqGoto, ReqDone, Others

LEMMA Moves ==
    ASSUME IInv, NEW r \in Requests, NEW pc, ReqGoto(r, pc),
           req[r].minted # 0 => pc \in {"swap", "destroy"}
    PROVE Others(r) /\ Forgets(r)
<1>1. TypeOK
  BY DEF IInv
<1>2. QED BY <1>1, RequestSteps DEF Forgets

LEMMA Ends ==
    ASSUME IInv, NEW r \in Requests, ReqDone(r) PROVE Others(r) /\ Forgets(r)
<1>1. TypeOK
  BY DEF IInv
<1>2. QED BY <1>1, RequestSteps DEF Forgets

LEMMA QuietRequests ==
    ASSUME IInv, NEW r \in Requests,
           \/ RecordActivity(r) \/ ProvisionStart(r) \/ ProvisionSelect(r)
           \/ RevokeStart(r) \/ Send(r) \/ Destroy(r)
           \/ ActivityLost(r) \/ LookupFails(r) \/ MintRefused(r)
           \/ DestroyFails(r) \/ RequestDies(r)
    PROVE QuietRequest(r)
<1> USE DEF QuietRequest
<1>1. TypeOK /\ PlaceInv
  BY DEF IInv
<1>2. CASE RecordActivity(r) \/ ActivityLost(r)
  <2>1. AfterActivity(r) /\ req[r].pc \in {"activity", "established"}
    BY <1>2 DEF RecordActivity, ActivityLost
  <2>2. Others(r) /\ Forgets(r)
    BY <1>1, <2>1, Minters, Moves, Ends DEF AfterActivity
  <2>3. QED BY <1>2, <2>2 DEF RecordActivity, ActivityLost
<1>3. CASE ProvisionStart(r) \/ ProvisionSelect(r) \/ RevokeStart(r)
  <2>1. req[r].minted = 0
    BY <1>1, <1>3, Minters DEF ProvisionStart, ProvisionSelect, RevokeStart
  <2>2. Others(r) /\ Forgets(r)
    BY <1>3, <2>1, Moves DEF ProvisionStart, ProvisionSelect, RevokeStart
  <2>3. QED BY <1>3, <2>2 DEF ProvisionStart, ProvisionSelect, RevokeStart
<1>4. CASE Send(r) \/ LookupFails(r)
  <2>1. req[r].minted = 0
    BY <1>1, <1>4, Minters DEF Send, LookupFails
  <2>2. CASE req' = [req EXCEPT ![r].pc = "mint", ![r].healed = TRUE]
    BY <1>1, <1>4, <2>1, <2>2
    DEF TypeOK, RequestRow, Others, Forgets, Send, LookupFails
  <2>3. CASE ReqDone(r)
    BY <1>4, <2>3, Ends DEF Send, LookupFails
  <2>4. QED BY <1>4, <2>2, <2>3 DEF Send, LookupFails
<1>5. CASE Destroy(r) \/ DestroyFails(r)
  BY <1>1, <1>5 DEF Destroy, DestroyFails, TypeOK, RequestRow, Others, Forgets
<1>6. CASE MintRefused(r) \/ RequestDies(r)
  BY <1>6, Ends DEF MintRefused, RequestDies
<1>7. QED BY <1>2, <1>3, <1>4, <1>5, <1>6

\* An outbox whose rows name no more keys than before names no key anew.
LEMMA Narrower ==
    ASSUME \A x \in outbox' : \E y \in outbox : \A b \in Backends :
               x.key[b] \in {0, y.key[b]}
    PROVE \A k \in 1 .. keys : Outboxed(k)' => Outboxed(k)
  BY DEF Outboxed

LEMMA QuietCrons ==
    ASSUME IInv, NEW c \in Crons, (Cron(c) /\ ~Retire(c)) \/ CronFails(c)
    PROVE QuietCron
<1>1. TypeOK /\ TokenInv /\ cron \in [Crons -> CronRow]
  BY DEF IInv, TypeOK
<1>2. ASSUME \/ CronStart(c) \/ ListFences(c) \/ FencesDone(c) \/ ListOutbox(c)
             \/ RecordFence(c)
      PROVE QuietCron
  BY <1>1, <1>2
  DEF CronStart, ListFences, FencesDone, ListOutbox, RecordFence, CronRow,
      TokenInv, QuietCron, Outboxed
<1>3. ASSUME NextRow(c) PROVE QuietCron
  <2>1. \A d \in Crons : cron'[d].pc = "record" => cron'[d] = cron[d]
    <3>1. CASE CronGoto(c, "idle")
      BY <1>1, <3>1 DEF CronGoto, CronRow
    <3>2. ASSUME NEW row,
                 cron' = [cron EXCEPT ![c].pc = "purge", ![c].row = row,
                            ![c].rows = @ \ {row}, ![c].b = "openrouter"]
          PROVE \A d \in Crons : cron'[d].pc = "record" => cron'[d] = cron[d]
      BY <1>1, <3>2 DEF CronRow
    <3>3. QED BY <1>3, <3>1, <3>2 DEF NextRow
  <2>2. QED BY <1>1, <1>3, <2>1 DEF NextRow, TokenInv, QuietCron, Outboxed
<1>4. ASSUME FenceInbox(c) \/ FenceFails(c) PROVE QuietCron
  <2>1. \A g \in cron[c].gens : g \in ledger
    BY <1>1 DEF CronRow
  <2>2. CASE FenceInbox(c)
    BY <1>1, <2>1, <2>2 DEF FenceInbox, CronRow, TokenInv, QuietCron, Outboxed
  <2>3. CASE FenceFails(c)
    BY <1>1, <2>1, <2>3 DEF FenceFails, CronRow, TokenInv, QuietCron, Outboxed
  <2>4. QED BY <1>4, <2>2, <2>3
<1>5. ASSUME NextBackend(c) \/ CronGoto(c, "null")
      PROVE \A d \in Crons : cron'[d].pc = "record" => cron'[d] = cron[d]
  BY <1>1, <1>5 DEF NextBackend, CronGoto, CronRow
<1>6. ASSUME Purge(c) \/ PurgeFails(c) PROVE QuietCron
  <2>1. NextBackend(c) \/ CronGoto(c, "null")
    BY <1>6 DEF Purge, PurgeFails
  <2>2. QED BY <1>1, <1>5, <1>6, <2>1
        DEF Purge, PurgeFails, TokenInv, QuietCron, Outboxed
<1>7. ASSUME NullKey(c) PROVE QuietCron
  <2>1. ASSUME NEW x \in outbox'
        PROVE \E y \in outbox : \A b \in Backends : x.key[b] \in {0, y.key[b]}
    <3>1. PICK y \in outbox :
             x = IF y.id = cron[c].row.id
                 THEN [y EXCEPT !.key[cron[c].b] = 0] ELSE y
      BY <1>7 DEF NullKey
    <3>2. y.key \in [Backends -> 0 .. keys]
      BY <1>1 DEF TypeOK, OutboxRow, KeySets
    <3>3. \A b \in Backends : x.key[b] \in {0, y.key[b]}
      BY <1>1, <3>1, <3>2 DEF TypeOK, OutboxRow
    <3>4. QED BY <3>3
  <2>2. \A k \in 1 .. keys : Outboxed(k)' => Outboxed(k)
    BY <2>1, Narrower
  <2>3. QED BY <1>1, <1>5, <1>7, <2>2 DEF NullKey, TokenInv, QuietCron
<1>8. ASSUME DropRow(c) PROVE QuietCron
  BY <1>1, <1>8 DEF DropRow, CronRow, TokenInv, QuietCron, Outboxed
<1>9. ASSUME CronDies(c) PROVE QuietCron
  BY <1>1, <1>9 DEF CronDies, NoCron, TokenInv, QuietCron, Outboxed
<1>10. QED
  BY <1>2, <1>3, <1>4, <1>6, <1>7, <1>8, <1>9 DEF Cron, CronFails

LEMMA QuietOthers ==
    ASSUME IInv, Age \/ (\E k \in live : KeyDies(k)) \/ InboxRestored \/ UNCHANGED vars
    PROVE QuietCron
  BY DEF IInv, TokenInv, Age, KeyDies, InboxRestored, vars, QuietCron, Outboxed

-----------------------------------------------------------------------------
(* The steps that issue a token, make a key or put one in its place *)

LEMMA ProvisionKeeps ==
    ASSUME IInv, NEW r \in Requests,
           ProvisionUpdate(r) \/ ProvisionInsert(r) \/ Revoke(r)
    PROVE TokenInv' /\ LineageInv' /\ PlaceInv'
<1>1. TypeOK /\ TokenInv /\ LineageInv /\ PlaceInv
  BY DEF IInv
<1>2. /\ req[r].minted = 0
      /\ \A s \in Requests : req[s].token \in 0 .. tokens
      /\ ledger \subseteq 1 .. tokens /\ tokens \in Nat
  BY <1>1, Minters, Bounds
  DEF ProvisionUpdate, ProvisionInsert, Revoke, TypeOK, RequestRow
<1>3. /\ Others(r)
      /\ \/ req'[r] = NoRequest
         \/ /\ req'[r].gen = req[r].gen /\ req'[r].token = req[r].token
            /\ req'[r].key = req[r].key /\ req'[r].minted = 0
  BY <1>1, <1>2, RequestSteps DEF ProvisionUpdate, ProvisionInsert, Revoke
<1>4. \A s \in Requests :
         \/ req'[s] = NoRequest
         \/ /\ req'[s].gen = req[s].gen /\ req'[s].token = req[s].token
            /\ req'[s].key = req[s].key /\ req'[s].minted \in {0, req[s].minted}
            /\ s # r => req'[s] = req[s]
  BY <1>3 DEF Others
<1>5. UNCHANGED <<keys, lineage, outbox, ledger, cron>>
  BY DEF ProvisionUpdate, ProvisionInsert, Revoke
<1>6. \A k : Outboxed(k)' = Outboxed(k)
  BY <1>5 DEF Outboxed
<1>7. CASE ~account.present /\ account'.present
  <2>1. /\ account' = [NoAccount EXCEPT !.present = TRUE, !.gen = tokens + 1,
                                        !.token = tokens + 1]
    BY <1>1, <1>7 DEF ProvisionUpdate, ProvisionInsert, Revoke, TypeOK, AccountRow
  <2>2. /\ account'.present /\ account'.gen = tokens + 1 /\ account'.token = tokens + 1
        /\ account'.key = NoKeys
    BY <2>1 DEF NoAccount
  <2>3. \A s \in Requests : req'[s].token # account'.token
    BY <1>2, <1>4, <2>2 DEF NoRequest
  <2>4. TokenInv'
    BY <1>1, <1>2, <1>5, <2>2, <2>3 DEF TokenInv
  <2>5. LineageInv'
    BY <1>1, <1>4, <1>5, <2>2 DEF LineageInv, KeyLineage, NoKeys, NoRequest
  <2>6. \A k : Stored(k)' => k = 0
    BY <2>2 DEF Stored, NoKeys
  <2>7. account'.gen \notin ledger
    BY <1>2, <2>2
  <2>8. ASSUME NEW s \in Requests, req'[s].minted # 0
        PROVE req'[s] = req[s]
    BY <1>3, <1>4, <2>8 DEF NoRequest
  <2>9. PlaceInv'
    BY <1>1, <1>5, <1>6, <2>6, <2>7, <2>8 DEF PlaceInv, RetirementSparesCurrent
  <2>10. QED BY <2>4, <2>5, <2>9
<1>8. CASE ~(~account.present /\ account'.present)
  <2>1. /\ account'.present => account.present
        /\ account'.present => account'.gen = account.gen
        /\ account'.present => account'.token \in {account.token, tokens + 1}
        /\ account'.key = account.key /\ account'.gen = account.gen
    <3>1. CASE ProvisionUpdate(r)
      BY <1>1, <3>1 DEF ProvisionUpdate, TypeOK, AccountRow
    <3>2. CASE ProvisionInsert(r)
      BY <1>1, <1>8, <3>2 DEF ProvisionInsert, NoAccount
    <3>3. CASE Revoke(r)
      BY <1>1, <3>3 DEF Revoke, TypeOK, AccountRow
    <3>4. QED BY <3>1, <3>2, <3>3
  <2>2. \A s \in Requests : req'[s].token # tokens + 1
    BY <1>2, <1>4 DEF NoRequest
  <2>3. ASSUME NEW s \in Requests, account'.present, req'[s].token = account'.token
        PROVE req'[s].gen = account'.gen
    <3>1. account.present /\ req'[s].token = account.token /\ account.token # 0
      BY <1>1, <2>1, <2>2, <2>3 DEF TokenInv
    <3>2. req'[s].token = req[s].token /\ req'[s].gen = req[s].gen
      BY <1>4, <3>1 DEF NoRequest
    <3>3. QED BY <1>1, <2>1, <2>3, <3>1, <3>2 DEF TokenInv
  <2>4. TokenInv'
    BY <1>1, <1>2, <1>5, <2>1, <2>3 DEF TokenInv
  <2>5. LineageInv'
    BY <1>1, <1>4, <1>5, <2>1 DEF LineageInv, KeyLineage, NoRequest
  <2>6. \A k : Stored(k)' = Stored(k)
    BY <2>1 DEF Stored
  <2>7. ASSUME NEW s \in Requests, req'[s].minted # 0
        PROVE req'[s] = req[s]
    BY <1>3, <1>4, <2>7 DEF NoRequest
  <2>8. PlaceInv'
    BY <1>1, <1>5, <1>6, <2>1, <2>6, <2>7 DEF PlaceInv, RetirementSparesCurrent
  <2>9. QED BY <2>4, <2>5, <2>8
<1>9. QED BY <1>7, <1>8

\* A caller learns its token, its generation and its key from the row at once.
LEMMA AuthenticateKeeps ==
    ASSUME IInv, NEW r \in Requests, NEW b \in Backends, Authenticate(r, b)
    PROVE TokenInv' /\ LineageInv' /\ PlaceInv'
<1>1. TypeOK /\ TokenInv /\ LineageInv /\ PlaceInv
  BY DEF IInv
<1>2. /\ Others(r)
      /\ req'[r].gen = account.gen /\ req'[r].token = account.token
      /\ req'[r].key = account.key[b] /\ req'[r].minted = 0
  BY <1>1 DEF Authenticate, TypeOK, Others
<1>3. UNCHANGED <<account, keys, lineage, outbox, ledger, cron>>
  BY DEF Authenticate
<1>4. \A k : Outboxed(k)' = Outboxed(k) /\ Stored(k)' = Stored(k)
  BY <1>3 DEF Outboxed, Stored
<1>5. TokenInv'
  BY <1>1, <1>2, <1>3 DEF TokenInv, Others
<1>6. LineageInv'
  BY <1>1, <1>2, <1>3 DEF LineageInv, KeyLineage, Others
<1>7. ASSUME NEW s \in Requests, req'[s].minted # 0 PROVE req'[s] = req[s]
  BY <1>2, <1>7 DEF Others
<1>8. PlaceInv'
  BY <1>1, <1>3, <1>4, <1>7 DEF PlaceInv, RetirementSparesCurrent
<1>9. QED BY <1>5, <1>6, <1>8

\* A key that is made is new: nothing names it but its minter.
LEMMA NewKeyKeeps ==
    ASSUME IInv, NEW r \in Requests, Mint(r) \/ MintLost(r)
    PROVE TokenInv' /\ LineageInv' /\ PlaceInv'
<1>1. TypeOK /\ TokenInv /\ LineageInv /\ PlaceInv
  BY DEF IInv
<1>2. /\ keys + 1 \in 1 .. MaxKeys /\ keys \in Nat
      /\ lineage' = [lineage EXCEPT ![keys + 1] = req[r].gen]
      /\ UNCHANGED <<account, tokens, outbox, ledger, cron>>
  BY <1>1, AccountAssumption DEF Mint, MintLost, NewKey, TypeOK
<1>3. /\ Others(r)
      /\ \/ req'[r] = NoRequest
         \/ /\ req'[r].gen = req[r].gen /\ req'[r].token = req[r].token
            /\ req'[r].key = req[r].key /\ req'[r].minted = keys + 1
            /\ req'[r].pc = "swap"
  <2>1. CASE Mint(r)
    BY <1>1, <2>1 DEF Mint, TypeOK, RequestRow, Others
  <2>2. CASE MintLost(r)
    BY <1>1, <2>2, RequestSteps DEF MintLost
  <2>3. QED BY <2>1, <2>2
<1>4. /\ \A s \in Requests : req[s].key \in 0 .. keys /\ req[s].minted \in 0 .. keys
      /\ \A b \in Backends : account.key[b] \in 0 .. keys
      /\ \A x \in outbox, b \in Backends : x.key[b] \in 0 .. keys
  BY <1>1, Bounds DEF TypeOK, RequestRow, OutboxRow, KeySets
<1>5. /\ \A k : Outboxed(k)' = Outboxed(k) /\ Stored(k)' = Stored(k)
      /\ ~Outboxed(keys + 1) /\ ~Stored(keys + 1)
  BY <1>2, <1>4 DEF Outboxed, Stored
<1>6. /\ \A k \in 1 .. keys : lineage'[k] = lineage[k]
      /\ lineage'[keys + 1] = req[r].gen
  BY <1>1, <1>2 DEF TypeOK
<1>7. TokenInv'
  BY <1>1, <1>2, <1>3 DEF TokenInv, Others, NoRequest
<1>8. LineageInv'
  <2>1. \A b \in Backends : account.key[b] # 0 => account.key[b] \in 1 .. keys
    BY <1>2, <1>4
  <2>2. \A s \in Requests : /\ req[s].key # 0 => req[s].key \in 1 .. keys
                            /\ req[s].minted # 0 => req[s].minted \in 1 .. keys
    BY <1>2, <1>4
  <2>3. KeyLineage'
    BY <1>1, <1>2, <1>3, <1>6, <2>1, <2>2 DEF LineageInv, KeyLineage, Others, NoRequest
  <2>4. ASSUME NEW s \in Requests, req'[s].minted # 0
        PROVE lineage'[req'[s].minted] = req'[s].gen
    BY <1>1, <1>3, <1>6, <2>2, <2>4 DEF LineageInv, Others, NoRequest
  <2>5. QED BY <2>3, <2>4 DEF LineageInv
<1>9. PlaceInv'
  <2>1. RetirementSparesCurrent'
    <3>1. ASSUME NEW k \in 1 .. keys' PROVE ~(Stored(k)' /\ Outboxed(k)')
      <4>1. k \in 1 .. keys \/ k = keys + 1
        BY <1>2 DEF Mint, MintLost, NewKey
      <4>2. QED BY <1>1, <1>5, <4>1 DEF PlaceInv, RetirementSparesCurrent
    <3>2. QED BY <1>1, <1>2, <3>1 DEF PlaceInv, RetirementSparesCurrent
  <2>2. \A s \in Requests : req[s].minted # keys + 1
    BY <1>2, <1>4
  <2>3. ASSUME NEW s \in Requests, req'[s].minted # 0
        PROVE \/ s # r /\ req'[s] = req[s]
              \/ s = r /\ req'[s].minted = keys + 1 /\ req'[s].pc = "swap"
    BY <1>3, <2>3 DEF Others, NoRequest
  <2>4. QED BY <1>1, <1>5, <2>1, <2>2, <2>3 DEF PlaceInv, Others
<1>10. QED BY <1>7, <1>8, <1>9

\* The row still carries the caller's token, so it is the caller's generation.
LEMMA SameGeneration ==
    ASSUME TokenInv, NEW r \in Requests, Authority(r)
    PROVE req[r].gen = account.gen /\ account.present
  BY DEF TokenInv, Authority, Active

LEMMA SwapKeeps ==
    ASSUME IInv, NEW r \in Requests, Swap(r)
    PROVE TokenInv' /\ LineageInv' /\ PlaceInv'
<1>1. TypeOK /\ TokenInv /\ LineageInv /\ PlaceInv
  BY DEF IInv
<1>2. CASE ~(Authority(r) /\ Unswapped(r))
  <2>1. ReqGoto(r, "destroy") /\ UNCHANGED account
    BY <1>2 DEF Swap
  <2>2. QuietRequest(r)
    BY <2>1, Moves DEF Swap, QuietRequest
  <2>3. QED BY <2>2, QuietRequestKeeps
<1>3. CASE Authority(r) /\ Unswapped(r)
  <2> DEFINE b == req[r].b
             k == req[r].minted
  <2>1. /\ account.present /\ account.gen = req[r].gen /\ b \in Backends
        /\ k \in 0 .. keys
    BY <1>1, <1>3, SameGeneration DEF TypeOK, RequestRow
  <2>2. /\ UNCHANGED <<tokens, keys, lineage, outbox, ledger, cron>>
        /\ account' = [account EXCEPT !.key[b] = k]
    BY <1>3 DEF Swap
  <2>3. /\ account'.present = account.present /\ account'.gen = account.gen
        /\ account'.token = account.token
        /\ account'.key = [account.key EXCEPT ![b] = k]
    BY <1>1, <2>2 DEF TypeOK, AccountRow
  <2>4. /\ Others(r) /\ req'[r].gen = req[r].gen /\ req'[r].token = req[r].token
        /\ req'[r].key = k /\ req'[r].minted = 0
    BY <1>1, <1>3 DEF Swap, TypeOK, RequestRow, Others
  <2>5. \A d \in Backends : account'.key[d] = IF d = b THEN k ELSE account.key[d]
    BY <1>1, <2>1, <2>3, Bounds DEF KeySets
  <2>6. TokenInv'
    BY <1>1, <2>2, <2>3, <2>4 DEF TokenInv, Others
  <2>7. LineageInv'
    BY <1>1, <2>1, <2>2, <2>3, <2>4, <2>5 DEF LineageInv, KeyLineage, Others
  <2>8. \A j : Outboxed(j)' = Outboxed(j) /\ (Stored(j)' => Stored(j) \/ j = k)
    BY <2>2, <2>5 DEF Outboxed, Stored
  <2>9. k # 0 => ~Outboxed(k)
    BY <1>1 DEF PlaceInv
  <2>10. ASSUME NEW s \in Requests, req'[s].minted # 0
         PROVE s # r /\ req'[s] = req[s] /\ req[s].minted # k
    BY <1>1, <2>4, <2>10 DEF PlaceInv, Others
  <2>11. RetirementSparesCurrent'
    BY <1>1, <2>2, <2>3, <2>8, <2>9 DEF PlaceInv, RetirementSparesCurrent
  <2>12. PlaceInv'
    BY <1>1, <2>8, <2>10, <2>11 DEF PlaceInv
  <2>13. QED BY <2>6, <2>7, <2>12
<1>4. QED BY <1>2, <1>3

LEMMA AdoptKeeps ==
    ASSUME IInv, NEW r \in Requests, Adopt(r)
    PROVE TokenInv' /\ LineageInv' /\ PlaceInv'
<1>1. TypeOK /\ TokenInv /\ LineageInv /\ PlaceInv
  BY DEF IInv
<1>2. CASE ReqDone(r)
  <2>1. QuietRequest(r)
    BY <1>2, Ends DEF Adopt, QuietRequest
  <2>2. QED BY <2>1, QuietRequestKeeps
<1>3. CASE ~ReqDone(r)
  <2>1. Authority(r) /\ req' = [req EXCEPT ![r].pc = "send",
                                           ![r].key = account.key[req[r].b]]
    BY <1>3 DEF Adopt
  <2>2. account.gen = req[r].gen /\ req[r].b \in Backends /\ req[r].minted = 0
    BY <1>1, <2>1, SameGeneration, Minters DEF Adopt, TypeOK, RequestRow
  <2>3. /\ Others(r) /\ req'[r].gen = req[r].gen /\ req'[r].token = req[r].token
        /\ req'[r].key = account.key[req[r].b] /\ req'[r].minted = 0
    BY <1>1, <2>1, <2>2 DEF TypeOK, RequestRow, Others
  <2>4. UNCHANGED <<account, tokens, keys, lineage, outbox, ledger, cron>>
    BY DEF Adopt
  <2>5. \A k : Outboxed(k)' = Outboxed(k) /\ Stored(k)' = Stored(k)
    BY <2>4 DEF Outboxed, Stored
  <2>6. TokenInv'
    BY <1>1, <2>3, <2>4 DEF TokenInv, Others
  <2>7. LineageInv'
    BY <1>1, <2>2, <2>3, <2>4 DEF LineageInv, KeyLineage, Others
  <2>8. ASSUME NEW s \in Requests, req'[s].minted # 0 PROVE req'[s] = req[s]
    BY <2>3, <2>8 DEF Others
  <2>9. PlaceInv'
    BY <1>1, <2>4, <2>5, <2>8 DEF PlaceInv, RetirementSparesCurrent
  <2>10. QED BY <2>6, <2>7, <2>9
<1>4. QED BY <1>2, <1>3

\* Retirement moves the keys of the row to the outbox and leaves no row.
LEMMA RetireKeeps ==
    ASSUME IInv, NEW c \in Crons, Retire(c)
    PROVE TokenInv' /\ LineageInv' /\ PlaceInv'
<1>1. TypeOK /\ TokenInv /\ LineageInv /\ PlaceInv
  BY DEF IInv
<1>2. /\ UNCHANGED <<tokens, keys, lineage, req>> /\ ledger \subseteq ledger'
      /\ \A d \in Crons : cron'[d].pc = "record" => cron'[d] = cron[d]
  BY <1>1 DEF Retire, TypeOK, CronRow
<1>3. CASE ~MayRetire(c)
  <2>1. QuietCron
    BY <1>1, <1>2, <1>3 DEF Retire, QuietCron, TokenInv, Outboxed
  <2>2. QED BY <2>1, QuietCronKeeps
<1>4. CASE MayRetire(c)
  <2>1. account' = NoAccount
    BY <1>4 DEF Retire, Remains
  <2>2. ~account'.present /\ \A b \in Backends : account'.key[b] = 0
    BY <2>1 DEF NoAccount, NoKeys
  <2>3. \A k : k # 0 => /\ ~Stored(k)'
                        /\ Outboxed(k)' => Outboxed(k) \/ Stored(k)
    BY <1>4, <2>2 DEF Retire, Stored, Outboxed
  <2>4. TokenInv'
    BY <1>1, <1>2, <2>2 DEF TokenInv
  <2>5. LineageInv'
    BY <1>1, <1>2, <2>2 DEF LineageInv, KeyLineage
  <2>6. PlaceInv'
    <3>1. RetirementSparesCurrent'
      <4>1. \A k \in 1 .. keys' : k # 0
        BY <1>1, Bounds
      <4>2. QED BY <2>2, <2>3, <4>1 DEF RetirementSparesCurrent
    <3>2. QED BY <1>1, <1>2, <2>3, <3>1 DEF PlaceInv
  <2>7. QED BY <2>4, <2>5, <2>6
<1>5. QED BY <1>3, <1>4

-----------------------------------------------------------------------------
(* Theorems that hold whatever fails *)

LEMMA InitInv == Init => IInv
<1>1. SUFFICES ASSUME Init PROVE IInv
  OBVIOUS
<1>2. TypeOK
  BY <1>1, InitType
<1>3. TokenInv /\ LineageInv
  BY <1>1 DEF Init, TokenInv, LineageInv, KeyLineage, NoAccount, NoKeys, NoRequest,
              NoCron
<1>4. PlaceInv
  BY <1>1 DEF Init, PlaceInv, RetirementSparesCurrent, NoAccount, NoRequest, Outboxed
<1>5. QED BY <1>2, <1>3, <1>4 DEF IInv

LEMMA StepInv == ASSUME IInv, [Next]_vars PROVE IInv'
<1>1. TypeOK /\ TokenInv
  BY DEF IInv
<1>2. TypeOK'
  BY <1>1, NextType, StutterType
<1>3. ASSUME NEW r \in Requests, Request(r) \/ RequestFails(r)
      PROVE TokenInv' /\ LineageInv' /\ PlaceInv'
  BY <1>3, QuietRequests, QuietRequestKeeps, ProvisionKeeps, AuthenticateKeeps,
     NewKeyKeeps, SwapKeeps, AdoptKeeps, AccountAssumption
  DEF Request, RequestFails
<1>4. ASSUME NEW c \in Crons, Cron(c) \/ CronFails(c)
      PROVE TokenInv' /\ LineageInv' /\ PlaceInv'
  BY <1>4, RetireKeeps, QuietCrons, QuietCronKeeps
<1>5. Age \/ (\E k \in live : KeyDies(k)) \/ InboxRestored \/ UNCHANGED vars
        => TokenInv' /\ LineageInv' /\ PlaceInv'
  BY QuietOthers, QuietCronKeeps
<1>6. TokenInv' /\ LineageInv' /\ PlaceInv'
  BY <1>3, <1>4, <1>5 DEF Next
<1>7. QED BY <1>2, <1>6 DEF IInv

\* Whatever fails and however requests and retirements overlap, a token names one
\* generation and a key is in one place (provision.ts, userRetention.ts).
THEOREM AccountInvariantHolds == Spec => []IInv
<1>1. QED BY InitInv, StepInv, PTL DEF Spec

\* Every reachable state is well typed.
THEOREM AccountTypeCorrect == Spec => []TypeOK
<1>1. IInv => TypeOK
  BY DEF IInv
<1>2. QED BY <1>1, AccountInvariantHolds, PTL

\* No row and no request ever holds a key of another generation: the callerAuthority
\* conjunct of the compare-and-swap is enough, whatever else runs in between.
THEOREM KeysKeepTheirGeneration == Spec => []KeyLineage
<1>1. IInv => KeyLineage
  BY DEF IInv, LineageInv
<1>2. QED BY <1>1, AccountInvariantHolds, PTL

\* The outbox and the inbox ledger never name what the current account owns, so the
\* purge and the fences of an earlier account cannot harm it.
THEOREM CurrentAccountIsSpared == Spec => []RetirementSparesCurrent
<1>1. IInv => RetirementSparesCurrent
  BY DEF IInv, PlaceInv
<1>2. QED BY <1>1, AccountInvariantHolds, PTL

\* A row disappears only in a batch that found its last activity too old.
LEMMA SparedStep ==
    ASSUME TypeOK, Next, account.present, ~account'.present PROVE user < period
<1>1. ASSUME NEW c \in Crons, Retire(c) PROVE user < period
  <2>1. user < cron[c].cutoff
    BY <1>1 DEF Retire, MayRetire
  <2>2. cron[c].cutoff \in 0 .. period
    BY DEF TypeOK, CronRow
  <2>3. QED BY <2>1, <2>2, Bounds
<1>2. ASSUME NEW c \in Crons, (Cron(c) /\ ~Retire(c)) \/ CronFails(c) PROVE FALSE
  BY <1>2
  DEF Cron, CronFails, CronStart, ListFences, FenceInbox, RecordFence, FencesDone,
      ListOutbox, NextRow, Purge, NullKey, DropRow, FenceFails, PurgeFails, CronDies
<1>3. ASSUME NEW r \in Requests, RequestFails(r) PROVE FALSE
  BY <1>3
  DEF RequestFails, ActivityLost, LookupFails, MintRefused, MintLost, DestroyFails,
      RequestDies
<1>4. ASSUME NEW r \in Requests, Request(r) PROVE FALSE
  <2>1. ~ProvisionUpdate(r) /\ ~ProvisionInsert(r) /\ ~Revoke(r)
    BY DEF ProvisionUpdate, ProvisionInsert, Revoke, TypeOK, AccountRow
  <2>2. ~Swap(r)
    BY DEF Swap, TypeOK, AccountRow
  <2>3. QED
    BY <1>4, <2>1, <2>2
    DEF Request, RecordActivity, ProvisionStart, ProvisionSelect, RevokeStart,
        Authenticate, Send, Mint, Destroy, Adopt
<1>5. ~Age /\ ~InboxRestored /\ \A k \in live : ~KeyDies(k)
  BY DEF Age, InboxRestored, KeyDies
<1>6. QED BY <1>1, <1>2, <1>3, <1>4, <1>5 DEF Next

\* The batch evaluates eligibility again (userRetention.ts ELIGIBLE), so an account
\* used between the selection and the batch is kept.
THEOREM UsedAccountsAreSpared == Spec => UsedAccountSpared
<1>1. TypeOK /\ [Next]_vars
        => [account.present /\ ~account'.present => user < period]_vars
  BY SparedStep
<1>2. QED BY <1>1, AccountTypeCorrect, PTL DEF Spec, UsedAccountSpared
=============================================================================
