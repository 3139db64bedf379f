--------------------------- MODULE SandboxBrowser ---------------------------
(* The owner's controller, a Durable Object that sets services up on the      *)
(* owner's machine, issues its credential, publishes a link per service and   *)
(* retires it again.  Its jobs run one at a time and may be evicted at any    *)
(* step; alarms resume what storage says is due.  Links are registrations in  *)
(* D1, and a connection manager per origin owns the sockets opened over one.  *)
EXTENDS SandboxCredentials

CONSTANTS Services,
          Attaching      \* services that never create a machine (computeruse)

ASSUME BrowserAssumption ==
    /\ Attaching \subseteq Services
    /\ None \notin Services

VARIABLES
    op,         \* the stored operation of each service
    uncertain,  \* creationUncertain, stored for the owner
    job,        \* the job that runs, with what it has read
    creates,    \* history: creates begun since a machine was found or one was refused
    reg,        \* preview_registrations: the credential a link is bound to
    over,       \* the term of that link is over
    pending,    \* slots with origins in preview_invalidations
    hand,       \* a WebSocket handshake, on the current or a retired origin
    sock        \* origins of the sockets open for each service

stored == <<op, uncertain>>
links == <<reg, over, pending, hand, sock>>
browserVars == <<stored, job, creates, links>>
vars == <<credVars, browserVars>>

-----------------------------------------------------------------------------
Retired == {"failed", "expired", "stopped"}
NoOp == [phase |-> "none", step |-> "discover", m |-> None, key |-> None,
         tried |-> FALSE, woken |-> FALSE, invalidated |-> FALSE, cleanup |-> FALSE,
         late |-> FALSE, dead |-> FALSE]
NewOp == [NoOp EXCEPT !.phase = "opening"]
\* A job: its step, the service an alarm advances (None: it serves a request),
\* the one it retires and those still to retire, what follows, what it has read.
NoJob == [pc |-> "idle", s |-> None, r |-> None, todo |-> {}, next |-> "end",
          m |-> None, seen |-> "none", c |-> None]

Init ==
    /\ CredInit
    /\ op = [s \in Services |-> NoOp]
    /\ uncertain = FALSE
    /\ job = NoJob
    /\ creates = 0
    /\ reg = [s \in Services |-> None]
    /\ over = [s \in Services |-> FALSE]
    /\ pending = [s \in Services |-> FALSE]
    /\ hand = [s \in Services |-> "none"]
    /\ sock = [s \in Services |-> {}]

Phase(p) == {s \in Services : op[s].phase = p}
Asked == job = NoJob /\ Request /\ UNCHANGED faults

\* retire: persist the phase, then revoke access.  It ends the job, unless the
\* job retires siblings on its way to something else.
\* What only setup reads is dropped with it.
Settled(o, phase) == [o EXCEPT !.phase = phase, !.tried = FALSE, !.woken = FALSE, !.late = FALSE]
Phased(s, phase) == [op EXCEPT ![s] = [Settled(op[s], phase) EXCEPT !.invalidated = FALSE]]
Retire(s, phase) ==
    /\ op' = Phased(s, phase)
    /\ job' = [NoJob EXCEPT !.pc = "unlink", !.r = s]
RetireSibling(s) ==
    /\ op' = Phased(s, "stopped")
    /\ job' = [job EXCEPT !.pc = "unlink", !.r = s, !.todo = @ \ {s}]
Fail(s) == Retire(s, "failed")
End == job' = NoJob /\ UNCHANGED op
Save(s, o) == op' = [op EXCEPT ![s] = o] /\ job' = NoJob

\* A link answers only while its credential is the active one of the cached
\* machine and its term has not run out.
Live(s) == /\ reg[s] # None /\ ~over[s]
           /\ row[reg[s]].state = "active" /\ cached = row[reg[s]].m

-----------------------------------------------------------------------------
(* What the owner asks for *)

\* POST start and restart.
Start(s) ==
    /\ Asked
    /\ ~op[s].cleanup /\ ~(op[s].phase = "stopped" /\ ~op[s].invalidated)
    /\ Phase("opening") \subseteq {s}
    /\ op[s].phase = "opening" => op[s].late \/ op[s].dead
    /\ op' = [op EXCEPT ![s] = NewOp]
    /\ UNCHANGED <<provider, authority, actors, uncertain, job, creates, links>>

\* stop: the intent to clean up is stored before access is revoked.
StopWork(s, by) ==
    LET quiet == op[s].phase = "stopped" /\ op[s].invalidated IN
    /\ job' = [NoJob EXCEPT !.s = by, !.r = s, !.next = "clean",
                            !.pc = IF quiet THEN "clean" ELSE "unlink"]
    /\ op' = [op EXCEPT ![s] = [Settled(op[s], "stopped") EXCEPT
                 !.invalidated = quiet, !.cleanup = op[s].cleanup \/ op[s].phase # "stopped"]]

Stop(s) ==
    /\ Asked /\ op[s].phase # "none" /\ StopWork(s, None)
    /\ UNCHANGED <<provider, authority, actors, uncertain, creates, links>>

\* POST access/revoke: the cached machine's credentials, then every link.
AccessRevoke ==
    /\ Asked /\ row' = Revoked(row, cached)
    /\ job' = [NoJob EXCEPT !.pc = "retire", !.todo = Services \ Phase("none")]
    /\ UNCHANGED <<provider, cached, actors, stored, creates, links>>

\* POST access/rotate matters here only when it fails: it revokes.
RotateFails ==
    /\ Asked /\ cached # None /\ Active(cached) # {}
    /\ row' = Revoked(row, cached)
    /\ UNCHANGED <<provider, cached, actors, stored, job, creates, links>>

\* wake-existing, after a login: a sleeping machine whose credential is mounted.
WakeExisting ==
    /\ Asked /\ \A s \in Phase("opening") : op[s].late
    /\ \E m \in Machines :
          /\ Found = {m} /\ vm[m] = "stopped" /\ Active(m) # {}
          /\ job' = [NoJob EXCEPT !.pc = "retire", !.todo = Phase("ready"),
                                  !.next = "start", !.m = m]
    /\ UNCHANGED <<provider, authority, actors, stored, creates, links>>

-----------------------------------------------------------------------------
(* Retirement: revokeUserPreview for each service in turn *)

MutantAfter(todo) == IF todo # {} THEN [job EXCEPT !.pc = "retire"] ELSE [job EXCEPT !.pc = job.next]
After(todo) == IF todo # {} THEN [job EXCEPT !.pc = "retire"]
               ELSE IF job.next = "end" THEN NoJob ELSE [job EXCEPT !.pc = job.next]

RetireNext ==
    /\ job.pc = "retire"
    /\ IF job.todo = {} THEN job' = After({}) /\ UNCHANGED op
       ELSE \E s \in job.todo : RetireSibling(s)
    /\ UNCHANGED <<credVars, uncertain, creates, links>>

\* Delete the registration; a trigger notes the origin.  Handshakes and sockets
\* go on over an origin that is now retired.
Aged(h) == CASE h = "dial" -> "dialOld" [] h = "join" -> "joinOld" [] OTHER -> h
Unlinked(s) ==
    /\ reg' = [reg EXCEPT ![s] = None]
    /\ pending' = [pending EXCEPT ![s] = @ \/ reg[s] # None]
    /\ hand' = [hand EXCEPT ![s] = Aged(@)]
    /\ sock' = [sock EXCEPT ![s] = IF @ = {} THEN {} ELSE {"old"}]

Unlink ==
    /\ job.pc = "unlink" /\ Unlinked(job.r)
    /\ job' = [job EXCEPT !.pc = "sync"]
    /\ UNCHANGED <<credVars, stored, creates, over>>

\* The connection manager closes the sockets of retired origins.  It does so in
\* turn with handshakes, so it waits for one that is under way.
MutantSynced(s) == sock' = [sock EXCEPT ![s] = @ \ {"old"}]
Synced(s) == /\ pending[s] => hand[s] \notin {"dialOld", "joinOld"}
             /\ sock' = IF pending[s] THEN [sock EXCEPT ![s] = @ \ {"old"}] ELSE sock
Flushed(s) == Synced(s) /\ pending' = [pending EXCEPT ![s] = FALSE]

Sync ==
    /\ job.pc = "sync" /\ Flushed(job.r)
    /\ op' = IF job.next = "find" THEN op ELSE [op EXCEPT ![job.r].invalidated = TRUE]
    /\ job' = After(job.todo)
    /\ UNCHANGED <<credVars, uncertain, creates, reg, over, hand>>

\* The manager refuses: the operation stays not invalidated, and a stop does
\* not go on to clean up.  Or D1 or the manager is out of reach: that ends a
\* request, and fails the service whose alarm it is, a stop that retries included.
RevokeFails ==
    /\ Fault
    /\ \/ /\ job.pc = "sync" /\ UNCHANGED op
          /\ job' = IF job.next = "clean" THEN NoJob ELSE After(job.todo)
       \/ /\ job.pc \in {"unlink", "sync"}
          /\ IF job.s # None THEN Fail(job.s) ELSE End
    /\ UNCHANGED <<provider, authority, actors, uncertain, creates, links>>

\* stop: processes are ended on a machine that runs, never by waking one; for
\* any other that is not asleep the cleanup stays to be done.
Between == {"starting", "stopping", "error"}
AtRest(s) == op[s].cleanup /\ op[s].m # None => vm[op[s].m] \notin Between
StopClean ==
    /\ job.pc = "clean" /\ AtRest(job.r)
    /\ Save(job.r, [op[job.r] EXCEPT !.cleanup = FALSE])
    /\ UNCHANGED <<credVars, uncertain, creates, links>>

StopCleanLater ==
    /\ job.pc = "clean"
    /\ \/ ~AtRest(job.r) /\ UNCHANGED counts
       \/ AtRest(job.r) /\ Fault
    /\ job' = NoJob
    /\ UNCHANGED <<provider, authority, actors, stored, creates, links>>
-----------------------------------------------------------------------------
(* advance: one step of an operation that is due *)

MutantDueStop(s) == \/ op[s].phase = "opening"
                    \/ op[s].phase \in Retired /\ ~op[s].invalidated
Due(s) == \/ op[s].phase = "opening"
          \/ op[s].phase = "ready" /\ op[s].dead
          \/ op[s].phase \in Retired /\ (~op[s].invalidated \/ op[s].cleanup)

\* Read the operation, its credential and its machine, in the order that
\* decides; the next actions use what was read here.
Advance(s) ==
    LET o == op[s]
        bound == o.step \in {"discover", "credentials"} \/ Active(o.m) = {o.key} IN
    /\ job = NoJob /\ Due(s)
    /\ IF o.phase = "stopped" /\ o.cleanup THEN StopWork(s, s)
       ELSE IF ~bound THEN Fail(s)
       ELSE IF o.dead THEN Retire(s, "expired")
       ELSE IF o.phase \in Retired THEN Retire(s, o.phase)
       ELSE IF o.late THEN Fail(s)
       ELSE IF o.step = "discover"
       THEN /\ job' = [NoJob EXCEPT !.pc = "unlink", !.s = s, !.r = s, !.next = "find"]
            /\ UNCHANGED op
       ELSE IF ~Alive(o.m) THEN Fail(s)
       ELSE /\ job' = [NoJob EXCEPT !.pc = o.step, !.s = s, !.m = o.m, !.seen = vm[o.m],
                                    !.c = IF Active(o.m) = {} THEN None ELSE o.key]
            /\ UNCHANGED op
    /\ UNCHANGED <<credVars, uncertain, creates, links>>

\* discover.  Finding none, the intent to create is stored before the call, for
\* the operation and for the owner; either stops another create.
MutantMayCreate(s) == s \notin Attaching /\ ~op[s].tried
MayCreate(s) == s \notin Attaching /\ ~op[s].tried /\ ~uncertain

Find ==
    LET s == job.s IN
    /\ job.pc = "find"
    /\ \/ Cardinality(Found) > 1 /\ Fail(s) /\ UNCHANGED <<uncertain, creates>>
       \/ /\ Found = {} /\ uncertain' = (uncertain \/ s \notin Attaching)
          /\ IF MayCreate(s)
             THEN /\ op' = [op EXCEPT ![s].tried = TRUE]
                  /\ job' = [job EXCEPT !.pc = "create"] /\ creates' = creates + 1
             ELSE Fail(s) /\ UNCHANGED creates
       \/ \E m \in Machines :
             /\ Found = {m} /\ uncertain' = FALSE /\ creates' = 0
             /\ \/ Fail(s)    \* public, or too small
                \/ /\ job' = [job EXCEPT !.pc = "retire", !.next = "bind", !.m = m,
                          !.todo = IF vm[m] = "stopped" THEN Phase("ready") ELSE {}]
                   /\ UNCHANGED op
    /\ UNCHANGED <<credVars, links>>

\* The create: made, refused as unauthorized, or in doubt.
Create ==
    /\ job.pc = "create"
    /\ \/ \E m \in Fresh : /\ vm' = [vm EXCEPT ![m] = "started"]
                           /\ job' = [job EXCEPT !.pc = "bind", !.m = m]
          /\ uncertain' = FALSE /\ creates' = 0 /\ UNCHANGED <<op, counts>>
       \/ /\ uncertain' = FALSE /\ creates' = 0 /\ Fail(job.s) /\ UNCHANGED <<vm, counts>>
       \/ /\ Fault /\ UNCHANGED <<uncertain, creates>>
          /\ \/ UNCHANGED vm
             \/ \E m \in Fresh, x \in {"late", "started"} : vm' = [vm EXCEPT ![m] = x]
          /\ Fail(job.s) \/ End
    /\ UNCHANGED <<mount, secret, authority, actors, links>>

Bind ==
    /\ job.pc = "bind" /\ cached' = job.m
    /\ Save(job.s, [op[job.s] EXCEPT !.m = job.m, !.step = "credentials"])
    /\ UNCHANGED <<provider, row, actors, counts, uncertain, creates, links>>

\* credentials.  A machine just created is stopped once, so that its first mount
\* precedes its start; in transition, it is waited for.
StopNew ==
    /\ job.pc = "credentials"
    /\ op[job.s].tried /\ job.seen = "started" /\ job.c = None
    /\ \/ /\ vm' = IF vm[job.m] = "started" THEN [vm EXCEPT ![job.m] = "stopping"] ELSE vm
          /\ End /\ UNCHANGED counts
       \/ Fault /\ Fail(job.s) /\ UNCHANGED vm
    /\ UNCHANGED <<mount, secret, authority, actors, uncertain, creates, links>>

\* ensureSandboxCredential: the active one, or a new row for a machine that is
\* asleep or already mounts a secret.  Credential ids run out in the model.
Ensure ==
    LET s == job.s
        m == job.m IN
    /\ job.pc = "credentials"
    /\ ~(op[s].tried /\ job.seen = "started" /\ job.c = None)
    /\ IF job.seen \in {"starting", "stopping"} THEN End /\ UNCHANGED row
       ELSE IF Active(m) # {}
       THEN /\ Save(s, [op[s] EXCEPT !.key = CHOOSE c \in Active(m) : TRUE, !.step = "wake"])
            /\ UNCHANGED row
       ELSE \/ /\ vm[m] = "stopped" \/ (vm[m] = "started" /\ mount[m] # None)
               /\ \E c \in Unused : Insert(c, m) /\ job' = [job EXCEPT !.pc = "secret", !.c = c]
               /\ UNCHANGED op
            \/ Fail(s) /\ UNCHANGED row
    /\ UNCHANGED <<provider, cached, actors, counts, uncertain, creates, links>>

GiveUp == RevokeOne(job.c) /\ Fail(job.s)

\* The answer may be lost, the job evicted, or the secret appear later.
Secret ==
    LET c == job.c IN
    /\ job.pc = "secret"
    /\ \/ /\ secret' = [secret EXCEPT ![c] = "held"]
          /\ row' = IF row[c].state = "pending" THEN [row EXCEPT ![c].known = TRUE] ELSE row
          /\ job' = [job EXCEPT !.pc = "mount"] /\ UNCHANGED <<op, counts>>
       \/ /\ Fault /\ secret' \in {[secret EXCEPT ![c] = x] : x \in {"none", "late", "held"}}
          /\ GiveUp \/ (End /\ UNCHANGED row)
    /\ UNCHANGED <<vm, mount, cached, actors, uncertain, creates, links>>

Mount ==
    LET m == job.m IN
    /\ job.pc = "mount"
    /\ \/ /\ Alive(m) /\ mount' = [mount EXCEPT ![m] = job.c]
          /\ job' = [job EXCEPT !.pc = "activate"] /\ UNCHANGED <<row, op, counts>>
       \/ /\ ~Alive(m) /\ GiveUp /\ UNCHANGED <<mount, counts>>
       \/ /\ Fault /\ mount' \in {mount, [mount EXCEPT ![m] = job.c]}
          /\ GiveUp \/ (End /\ UNCHANGED row)
    /\ UNCHANGED <<vm, secret, cached, actors, uncertain, creates, links>>

Activate ==
    /\ job.pc = "activate"
    /\ IF MayActivate(job.c)
       THEN /\ row' = [row EXCEPT ![job.c].state = "active"]
            /\ Save(job.s, [op[job.s] EXCEPT !.key = job.c, !.step = "wake"])
       ELSE GiveUp
    /\ UNCHANGED <<provider, cached, actors, counts, uncertain, creates, links>>

\* wake: asked for once.
Wake ==
    LET s == job.s IN
    /\ job.pc = "wake"
    /\ IF job.seen = "started" THEN Save(s, [op[s] EXCEPT !.step = "prepare"])
       ELSE IF job.seen = "stopped" /\ ~op[s].woken
       THEN /\ op' = [op EXCEPT ![s].woken = TRUE]
            /\ job' = [job EXCEPT !.pc = "start"]
       ELSE IF job.seen = "error" THEN Fail(s)
       ELSE End
    /\ UNCHANGED <<credVars, uncertain, creates, links>>

\* POST start, for setup or after a login; only setup has an operation to fail.
StartCall ==
    /\ job.pc = "start"
    /\ \/ vm[job.m] # "error" /\ Started(job.m) /\ End /\ UNCHANGED counts
       \/ /\ UNCHANGED <<vm, counts>> /\ (~Alive(job.m) \/ vm[job.m] = "error")
          /\ IF job.s = None THEN End ELSE Fail(job.s)
       \/ Fault /\ UNCHANGED vm /\ IF job.s = None THEN End ELSE Fail(job.s)
    /\ UNCHANGED <<mount, secret, authority, actors, uncertain, creates, links>>

\* prepare and inspect run the installer; a Toolbox that lags is tried again.
Install ==
    LET s == job.s IN
    /\ job.pc \in {"prepare", "inspect"}
    /\ IF job.seen # "started" THEN Fail(s)
       ELSE \/ Save(s, [op[s] EXCEPT !.step = IF job.pc = "prepare" THEN "inspect" ELSE "register"])
            \/ End
            \/ Fail(s)
    /\ UNCHANGED <<credVars, uncertain, creates, links>>

\* register: an earlier run may have written the link and not the operation.
Ready(s) == Save(s, Settled(op[s], "ready"))
Register ==
    LET s == job.s IN
    /\ job.pc = "register"
    /\ \/ job.seen # "started" /\ Fail(s) /\ UNCHANGED <<links, counts>>
       \/ /\ job.seen = "started" /\ reg[s] = op[s].key
          /\ IF over[s] THEN Fail(s) ELSE Ready(s)
          /\ UNCHANGED <<links, counts>>
       \/ /\ job.seen = "started" /\ reg[s] # op[s].key
          /\ reg' = [reg EXCEPT ![s] = op[s].key] /\ over' = [over EXCEPT ![s] = FALSE]
          /\ job' = [job EXCEPT !.pc = "publish"] /\ UNCHANGED <<op, pending, hand, sock, counts>>
       \/ (job.seen = "started" /\ Fault /\ Fail(s) /\ UNCHANGED links)
    /\ UNCHANGED <<provider, authority, actors, uncertain, creates>>

Publish ==
    /\ job.pc = "publish"
    /\ \/ Flushed(job.s) /\ Ready(job.s) /\ UNCHANGED counts
       \/ Fault /\ Fail(job.s) /\ UNCHANGED <<sock, pending>>
    /\ UNCHANGED <<provider, authority, actors, uncertain, creates, reg, over, hand>>

\* The object is evicted: storage stays, the job is lost.
Evict ==
    /\ job # NoJob /\ Fault /\ job' = NoJob
    /\ UNCHANGED <<provider, authority, actors, stored, creates, links>>

-----------------------------------------------------------------------------
(* Time, and the sockets of a link *)

SetupEnds(s) ==
    /\ op[s].phase = "opening" /\ ~op[s].late /\ op' = [op EXCEPT ![s].late = TRUE]
    /\ UNCHANGED <<credVars, uncertain, job, creates, links>>

LinkEnds(s) ==
    /\ op[s].phase = "ready" /\ ~op[s].dead
    /\ op' = [op EXCEPT ![s].dead = TRUE] /\ over' = [over EXCEPT ![s] = TRUE]
    /\ UNCHANGED <<credVars, uncertain, job, creates, reg, pending, hand, sock>>

\* A handshake reads the registration, dials, and reads it again before it joins.
Dial(s) ==
    /\ Request /\ hand[s] = "none" /\ Live(s) /\ hand' = [hand EXCEPT ![s] = "dial"]
    /\ UNCHANGED <<provider, authority, actors, faults, stored, job, creates, reg, over, pending, sock>>

Recheck(s) ==
    /\ hand[s] \in {"dial", "dialOld"}
    /\ hand' = [hand EXCEPT ![s] = IF @ = "dial" /\ Live(s) THEN "join" ELSE "none"]
    /\ UNCHANGED <<credVars, stored, job, creates, reg, over, pending, sock>>

Join(s) ==
    /\ hand[s] \in {"join", "joinOld"} /\ hand' = [hand EXCEPT ![s] = "none"]
    /\ sock' = [sock EXCEPT ![s] = @ \cup {IF hand[s] = "join" THEN "current" ELSE "old"}]
    /\ UNCHANGED <<credVars, stored, job, creates, reg, over, pending>>

\* The connection managers' own alarms, and a client that leaves.
SweepSockets(s) ==
    /\ sock[s] # {}
    /\ \/ hand[s] \notin {"dialOld", "joinOld"} /\ sock' = [sock EXCEPT ![s] = @ \ {"old"}]
       \/ ~Live(s) /\ sock' = [sock EXCEPT ![s] = @ \ {"current"}]
       \/ \E x \in sock[s] : sock' = [sock EXCEPT ![s] = @ \ {x}]
    /\ UNCHANGED <<credVars, stored, job, creates, reg, over, pending, hand>>

\* cleanupPreviews, hourly.
CronUnlink(s) ==
    /\ reg[s] # None /\ over[s] /\ Unlinked(s)
    /\ UNCHANGED <<credVars, stored, job, creates, over>>
CronSync(s) ==
    /\ pending[s] /\ Flushed(s)
    /\ UNCHANGED <<credVars, stored, job, creates, reg, over, hand>>

-----------------------------------------------------------------------------
\* Calls are bounded by seconds: no day passes over a job.
Age(c) == Ages(c) /\ job.c # c

World == \/ \E m \in Machines : Settle(m) \/ AutoStop(m) \/ Break(m) \/ Vanish(m)
         \/ \E c \in Creds : Land(c) \/ Clean(c) \/ CleanFails(c)
         \/ Api
         \/ \E d \in Deleters : Delete(d)

Work == \/ RetireNext \/ Unlink \/ Sync \/ StopClean \/ StopCleanLater
        \/ Find \/ Create \/ Bind \/ StopNew \/ Ensure \/ Secret \/ Mount \/ Activate
        \/ Wake \/ StartCall \/ Install \/ Register \/ Publish

Next == \/ World /\ UNCHANGED browserVars
        \/ \E c \in Creds : Age(c) /\ UNCHANGED browserVars
        \/ Work \/ RevokeFails \/ Evict \/ AccessRevoke \/ RotateFails \/ WakeExisting
        \/ \E s \in Services :
              \/ Start(s) \/ Stop(s) \/ Advance(s) \/ SetupEnds(s) \/ LinkEnds(s)
              \/ Dial(s) \/ Recheck(s) \/ Join(s) \/ SweepSockets(s)
              \/ CronUnlink(s) \/ CronSync(s)

Spec == Init /\ [][Next]_vars
\* Calls end, alarms fire and are served in turn, the provider settles, time goes
\* on and the hourly cleanup reaches every row.
FairSpec ==
    /\ Spec
    /\ WF_vars(Work)
    /\ \A s \in Services : SF_vars(Advance(s)) /\ WF_vars(SetupEnds(s))
    /\ WF_vars(\E s \in Services : Recheck(s) \/ Join(s))
    /\ WF_vars((\E m \in Machines : Settle(m)) /\ UNCHANGED browserVars)
    /\ WF_vars((\E c \in Creds : Land(c) \/ Age(c) \/ Clean(c)) /\ UNCHANGED browserVars)

-----------------------------------------------------------------------------
(* Properties *)

TypeOK ==
    /\ vm \in [Machines -> MachineStates]
    /\ mount \in [Machines -> Creds \cup {None}]
    /\ secret \in [Creds -> {"none", "late", "held", "gone"}]
    /\ row \in [Creds -> [state : {"none", "pending", "active", "revoked", "deleted"},
                          m : Machines \cup {None}, known : BOOLEAN,
                          age : {"fresh", "stale", "old"}]]
    /\ cached \in Machines \cup {None}
    /\ api \in [pc : {"idle", "create", "start", "write"}, m : Machines \cup {None}]
    /\ del \in [Deleters -> [pc : {"idle", "revoke", "delete", "clear"},
                             m : Machines \cup {None}]]
    /\ cron \in Creds \cup {None}
    /\ op \in [Services -> [phase : Retired \cup {"none", "opening", "ready"},
                   step : {"discover", "credentials", "wake", "prepare", "inspect", "register"},
                   m : Machines \cup {None}, key : Creds \cup {None},
                   tried : BOOLEAN, woken : BOOLEAN, invalidated : BOOLEAN,
                   cleanup : BOOLEAN, late : BOOLEAN, dead : BOOLEAN]]
    /\ job \in [pc : {"idle", "retire", "unlink", "sync", "clean", "find", "create", "bind",
                      "credentials", "secret", "mount", "activate", "wake", "start",
                      "prepare", "inspect", "register", "publish"},
                s : Services \cup {None}, r : Services \cup {None}, todo : SUBSET Services,
                next : {"end", "find", "bind", "start", "clean"},
                m : Machines \cup {None}, seen : MachineStates, c : Creds \cup {None}]
    /\ uncertain \in BOOLEAN /\ creates \in Nat
    /\ reg \in [Services -> Creds \cup {None}]
    /\ over \in [Services -> BOOLEAN] /\ pending \in [Services -> BOOLEAN]
    /\ hand \in [Services -> {"none", "dial", "join", "dialOld", "joinOld"}]
    /\ sock \in [Services -> SUBSET {"current", "old"}]
    /\ faults \in 0..MaxFaults /\ requests \in 0..MaxRequests

\* No secret is ever without a row that will delete it, however the call that
\* created it ended and whenever the cleanup looked.
SecretsTracked ==
    \A c \in Creds : secret[c] \in {"late", "held"} => row[c].state \notin {"none", "deleted"}

\* A credential that authorizes on a machine that exists is the one mounted
\* there, with its secret in place: nobody holds authority the machine cannot use.
ActiveIsMounted ==
    \A c \in Creds : row[c].state = "active" /\ Alive(row[c].m) =>
        mount[row[c].m] = c /\ secret[c] = "held"

\* While the outcome of a create is in doubt no other is begun, by any operation
\* of any service, over evictions and deliberate retries.
CreatedOnce == creates <= 1

\* Once a retired operation says its access is revoked, no link answers for it,
\* no socket is open and no handshake can still open one.
AccessRevoked ==
    \A s \in Services : op[s].phase \in Retired /\ op[s].invalidated =>
        /\ reg[s] = None /\ sock[s] = {} /\ hand[s] = "none"

\* Setup ends, in a link or in a failure the owner sees, whatever is lost.  A stop
\* reaches the processes it is for or learns that they are gone, unless an alarm
\* that retries it is cut off and leaves the operation failed, or the machine is
\* in error, where the program waits for somebody to recover or remove it.
OperationsEnd ==
    \A s \in Services :
        /\ op[s].phase = "opening" ~> op[s].phase # "opening"
        /\ op[s].cleanup ~> \/ ~op[s].cleanup \/ op[s].phase = "failed"
                            \/ op[s].m # None /\ vm[op[s].m] = "error"

\* The credentials of a machine that is gone are erased, secret and row, even
\* when it was deleted behind the program's back.
GoneIsErased ==
    \A c \in Creds : row[c].state \in {"pending", "active", "revoked"} /\ vm[row[c].m] = "gone"
                       ~> row[c].state = "deleted"
=============================================================================
