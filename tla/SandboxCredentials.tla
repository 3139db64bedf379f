------------------------- MODULE SandboxCredentials -------------------------
(* One owner's compute and its API credentials: machines and secrets at the   *)
(* provider, credential rows in D1, and the actors that change them beside    *)
(* the owner's controller: the provider itself, API execution, the delete     *)
(* route, the inactivity reaper and the hourly cleanup.  The rows are also    *)
(* the cleanup outbox: a row goes when its secret is known to be gone.        *)
EXTENDS Naturals, FiniteSets

CONSTANTS Machines,    \* sandbox ids the provider may give out
          Creds,       \* credential ids
          None,
          MaxFaults,   \* bound on calls that are lost, refused or abandoned
          MaxRequests  \* bound on what people and the reaper ask for

Deleters == {"reaper", "owner"}

ASSUME CredentialsAssumption ==
    /\ None \notin Machines \cup Creds
    /\ {MaxFaults, MaxRequests} \subseteq Nat

VARIABLES
    vm,       \* state of each machine; "late" is a create nobody has seen land
    mount,    \* the credential mounted on each machine
    secret,   \* the secret of each credential at the provider
    row,      \* sandbox_credentials
    cached,   \* user_keys.daytona_sandbox_id
    api,      \* a request that needs the sandbox running
    del,      \* the reaper and the delete route
    cron,     \* the credential the cleanup has read as orphaned
    faults,
    requests

provider == <<vm, mount, secret>>
authority == <<row, cached>>
actors == <<api, del, cron>>
counts == <<faults, requests>>
credVars == <<provider, authority, actors, counts>>

-----------------------------------------------------------------------------
MachineStates == {"none", "late", "stopped", "starting", "started", "stopping", "error", "gone"}
Alive(m) == vm[m] \in {"stopped", "starting", "started", "stopping", "error"}
Found == {m \in Machines : Alive(m)}
\* Ids are new each time; which of them comes next does not matter.
Next1(S) == {x \in S : x = CHOOSE y \in S : TRUE}
Fresh == Next1({m \in Machines : vm[m] = "none"})

NoRow == [state |-> "none", m |-> None, known |-> FALSE, age |-> "fresh"]
Idle == [pc |-> "idle", m |-> None]

Fault == faults < MaxFaults /\ faults' = faults + 1 /\ UNCHANGED requests
Request == requests < MaxRequests /\ requests' = requests + 1

\* activeSandboxCredential: at most one by the index on live rows.
Active(m) == {c \in Creds : row[c].state = "active" /\ row[c].m = m}

\* revokeSandboxCredentials
Revoked(r, m) == [c \in Creds |-> IF r[c].m = m /\ r[c].state \in {"pending", "active"}
                                  THEN [r[c] EXCEPT !.state = "revoked"] ELSE r[c]]

CredInit ==
    /\ \E S \in {{}, Next1(Machines)} :
          vm = [m \in Machines |-> IF m \in S THEN "stopped" ELSE "none"]
    /\ mount = [m \in Machines |-> None]
    /\ secret = [c \in Creds |-> "none"]
    /\ row = [c \in Creds |-> NoRow]
    /\ cached = None
    /\ api = Idle
    /\ del = [d \in Deleters |-> Idle]
    /\ cron = None
    /\ faults = 0 /\ requests = 0

-----------------------------------------------------------------------------
(* The provider *)

\* Transitions end, machines left alone stop and are removed, late creates land.
Settle(m) ==
    /\ \/ vm[m] = "starting" /\ vm' = [vm EXCEPT ![m] = "started"]
       \/ vm[m] = "stopping" /\ vm' = [vm EXCEPT ![m] = "stopped"]
       \/ vm[m] = "late" /\ vm' = [vm EXCEPT ![m] = "started"]
    /\ UNCHANGED <<mount, secret, authority, actors, counts>>

\* Stopping for inactivity counts against either bound.
AutoStop(m) ==
    /\ vm[m] = "started" /\ (Fault \/ (Request /\ UNCHANGED faults))
    /\ vm' = [vm EXCEPT ![m] = "stopping"]
    /\ UNCHANGED <<mount, secret, authority, actors>>

\* A machine that is not asleep fails, and stays so until somebody recovers it.
Break(m) ==
    /\ vm[m] \in {"starting", "started", "stopping"} /\ Fault
    /\ vm' = [vm EXCEPT ![m] = "error"]
    /\ UNCHANGED <<mount, secret, authority, actors>>

Vanish(m) ==
    /\ Alive(m) /\ Fault /\ vm' = [vm EXCEPT ![m] = "gone"]
    /\ UNCHANGED <<mount, secret, authority, actors>>

Land(c) ==
    /\ secret[c] = "late" /\ secret' = [secret EXCEPT ![c] = "held"]
    /\ UNCHANGED <<vm, mount, authority, actors, counts>>

Started(m) == vm' = IF vm[m] = "stopped" THEN [vm EXCEPT ![m] = "starting"] ELSE vm

-----------------------------------------------------------------------------
(* ensureSandbox and resolveSandboxId, for any request that runs something *)

\* The cached id, then the label; two machines are an error, none or a label
\* lookup that fails means a new one.
ApiFind ==
    /\ api.pc = "idle" /\ Request
    /\ \/ /\ cached \in Found /\ api' = [pc |-> "start", m |-> cached] /\ UNCHANGED faults
       \/ /\ cached \notin Found /\ UNCHANGED faults
          /\ \E m \in Machines : Found = {m} /\ api' = [pc |-> "start", m |-> m]
       \/ /\ Found = {} /\ UNCHANGED faults
          /\ api' = [pc |-> "create", m |-> None]
       \/ /\ faults < MaxFaults /\ faults' = faults + 1
          /\ api' = [pc |-> "create", m |-> None]
    /\ UNCHANGED <<provider, authority, del, cron>>

ApiCreate ==
    /\ api.pc = "create"
    /\ \/ \E m \in Fresh : /\ vm' = [vm EXCEPT ![m] = "started"]
                           /\ api' = [pc |-> "write", m |-> m]
       \/ UNCHANGED vm /\ api' = Idle
    /\ UNCHANGED <<mount, secret, authority, del, cron, counts>>

ApiStart ==
    /\ api.pc = "start"
    /\ \/ vm[api.m] # "error" /\ Started(api.m) /\ api' = [api EXCEPT !.pc = "write"]
       \/ /\ vm[api.m] = "error" /\ vm' = [vm EXCEPT ![api.m] = "starting"]  \* recovered
          /\ api' = [api EXCEPT !.pc = "write"]
       \/ vm[api.m] = "error" /\ UNCHANGED vm /\ api' = Idle
    /\ UNCHANGED <<mount, secret, authority, del, cron, counts>>

\* Once it runs its id is cached, unless it was cached before; waiting may fail.
ApiWrite ==
    /\ api.pc = "write"
    /\ \/ vm[api.m] = "started" /\ cached' = api.m
       \/ UNCHANGED cached
    /\ api' = Idle
    /\ UNCHANGED <<provider, row, del, cron, counts>>

-----------------------------------------------------------------------------
(* The reaper and the delete route *)

\* The reaper takes a machine it has just read as stopped and long inactive,
\* the route the cached one or the one with the owner's label.
Target(d) == IF d = "reaper" THEN {m \in Machines : vm[m] = "stopped"}
             ELSE IF cached # None THEN {cached} ELSE Found

DeleteBegin(d) ==
    /\ del[d].pc = "idle" /\ Request /\ UNCHANGED faults
    /\ \E m \in Target(d) : del' = [del EXCEPT ![d] = [pc |-> "revoke", m |-> m]]
    /\ UNCHANGED <<provider, authority, api, cron>>

Revokes(d) == Revoked(row, del[d].m)
DeleteRevoke(d) ==
    /\ del[d].pc = "revoke"
    /\ row' = Revokes(d)
    /\ del' = [del EXCEPT ![d].pc = "delete"]
    /\ UNCHANGED <<provider, cached, api, cron, counts>>

\* The call may be refused or its answer lost: the machine may be gone and the
\* id stay cached.
DeleteCall(d) ==
    /\ del[d].pc = "delete"
    /\ LET m == del[d].m IN
       /\ vm' \in {vm, [vm EXCEPT ![m] = IF Alive(m) THEN "gone" ELSE @]}
       /\ \/ del' = [del EXCEPT ![d] = Idle]
          \/ vm'[m] = "gone" /\ del' = [del EXCEPT ![d].pc = "clear"]
    /\ UNCHANGED <<mount, secret, authority, api, cron, counts>>

\* The reaper clears this machine's id, the route whatever is cached.
DeleteClear(d) ==
    /\ del[d].pc = "clear"
    /\ cached' = IF d = "reaper" /\ cached # del[d].m THEN cached ELSE None
    /\ del' = [del EXCEPT ![d] = Idle]
    /\ UNCHANGED <<provider, row, api, cron, counts>>

-----------------------------------------------------------------------------
(* cleanupSandboxCredentials, hourly, row by row *)

\* Setup that took twenty minutes is over.
CleanStale(c) ==
    /\ row[c].state = "pending" /\ row[c].age # "fresh"
    /\ row' = [row EXCEPT ![c].state = "revoked"]
    /\ UNCHANGED <<provider, cached, actors, counts>>

\* An active credential stays while its machine exists and is the cached one.
\* It is read as orphaned, then revoked, with what else its machine has.
MutantGoneNow(m) == cached = None
GoneNow(m) == ~Alive(m) \/ cached # m
CleanCheck(c) ==
    /\ cron = None /\ row[c].state = "active" /\ GoneNow(row[c].m)
    /\ cron' = c
    /\ UNCHANGED <<provider, authority, api, del, counts>>

CleanRevoke(c) ==
    /\ cron = c /\ cron' = None
    /\ row' = Revoked(row, row[c].m)
    /\ UNCHANGED <<provider, cached, api, del, counts>>

\* Delete the secret, by its id or found by its name, then the row.  Without a
\* secret to be found the row is kept for a day, in case it is yet to appear.
MutantErasable(c) == TRUE
Erasable(c) == row[c].known \/ secret[c] = "held" \/ row[c].age = "old"
CleanErase(c) ==
    /\ row[c].state = "revoked" /\ Erasable(c)
    /\ secret' = IF secret[c] = "held" THEN [secret EXCEPT ![c] = "gone"] ELSE secret
    /\ row' = [row EXCEPT ![c].state = "deleted"]
    /\ UNCHANGED <<vm, mount, cached, actors, counts>>

\* A run that ends early, before the revocation or between secret and row.
CleanFails(c) ==
    /\ Fault
    /\ \/ cron = c /\ cron' = None /\ UNCHANGED secret
       \/ /\ row[c].state = "revoked" /\ secret[c] = "held"
          /\ secret' = [secret EXCEPT ![c] = "gone"] /\ UNCHANGED cron
    /\ UNCHANGED <<vm, mount, authority, api, del>>

\* Time: twenty minutes for a pending row, a day for one whose secret nobody
\* knows.  A created secret appears within the day.
Ages(c) ==
    /\ row[c].age # "old"
    /\ \/ /\ row[c].state = "pending" /\ row[c].age = "fresh"
          /\ row' = [row EXCEPT ![c].age = "stale"]
       \/ /\ row[c].state = "revoked" /\ ~row[c].known /\ secret[c] # "late"
          /\ row' = [row EXCEPT ![c].age = "old"]
    /\ UNCHANGED <<provider, cached, actors, counts>>

Delete(d) == DeleteBegin(d) \/ DeleteRevoke(d) \/ DeleteCall(d) \/ DeleteClear(d)
Api == ApiFind \/ ApiCreate \/ ApiStart \/ ApiWrite
Clean(c) == CleanStale(c) \/ CleanCheck(c) \/ CleanRevoke(c) \/ CleanErase(c)

-----------------------------------------------------------------------------
(* The controller's calls, for its jobs to compose *)

\* Revoke what an earlier attempt left pending, then insert the new row before
\* any secret exists.
Unused == Next1({c \in Creds : row[c].state = "none"})
Insert(c, m) ==
    row' = [a \in Creds |->
              IF a = c THEN [state |-> "pending", m |-> m, known |-> FALSE, age |-> "fresh"]
              ELSE IF row[a].m = m /\ row[a].state = "pending"
              THEN [row[a] EXCEPT !.state = "revoked"] ELSE row[a]]

RevokeOne(c) == row' = [row EXCEPT ![c].state = IF @ = "deleted" THEN @ ELSE "revoked"]

MutantMayActivate(c) == TRUE
MayActivate(c) == row[c].state = "pending" /\ cached = row[c].m
=============================================================================
