--------------------------- MODULE SandboxProofs ---------------------------
(* For every number of machines, credentials, services and failures: the      *)
(* secrets of SandboxBrowser are tracked, authority is mounted, a create in   *)
(* doubt is not repeated, and revoked access is closed.                      *)
EXTENDS SandboxBrowser, TLAPS

-----------------------------------------------------------------------------
(* The inductive invariant, in four parts that depend only on the types. *)

\* Past discovery an operation, and the job that advances it, know the machine.
Attached ==
    /\ \A s \in Services : op[s].step # "discover" => op[s].m \in Machines
    /\ job.pc \in {"bind", "credentials", "secret", "mount", "activate"} \/ job.next = "bind" =>
          job.m \in Machines
    /\ job.pc \in {"credentials", "secret", "mount", "activate", "wake", "prepare", "inspect"} /\
       job.s \in Services => op[job.s].m \in Machines
    /\ job.pc \in {"secret", "mount", "activate"} => job.c \in Creds

\* While a credential is made, its row is there and nobody knows its secret; no
\* other authorizes on its machine, since only a job activates.
Making ==
    job.pc \in {"secret", "mount", "activate"} =>
        /\ row[job.c].m = job.m
        /\ Active(job.m) = {}
        /\ row[job.c].state \in {"pending", "revoked", "deleted"}
        /\ job.pc = "secret" =>
              /\ row[job.c].state # "deleted" /\ ~row[job.c].known /\ row[job.c].age # "old"
              /\ secret[job.c] \notin {"late", "held"}
        /\ job.pc \in {"mount", "activate"} /\ row[job.c].state = "pending" =>
              secret[job.c] = "held"
        /\ job.pc = "activate" => mount[job.m] = job.c

\* A secret that may yet appear has a row that waits for it; an active row has
\* its secret, on its machine, whether that exists or not.
Authority ==
    \A c \in Creds :
        /\ row[c].known \/ row[c].age = "old" => secret[c] # "late"
        /\ row[c].state = "active" =>
              row[c].m \in Machines /\ mount[row[c].m] = c /\ secret[c] = "held"

\* What goes on over a link has the link; what goes on over a retired origin is
\* pending, for the manager to close.
Linked ==
    /\ \A s \in Services :
        /\ hand[s] \in {"dial", "join"} \/ "current" \in sock[s] => reg[s] # None
        /\ hand[s] \in {"dialOld", "joinOld"} \/ "old" \in sock[s] => pending[s]
    /\ job.pc = "sync" /\ job.r \in Services => reg[job.r] = None
    /\ job.pc = "register" =>
          job.s \in Services /\ op[job.s].phase = "opening" /\ op[job.s].key \in Creds

InDoubt == uncertain \/ creates = 0

Typed == TypeOK /\ Attached
Tracked == SecretsTracked /\ Authority /\ Making
Access == Linked /\ AccessRevoked
Creating == InDoubt /\ CreatedOnce
IInv == Typed /\ Tracked /\ Access /\ Creating

-----------------------------------------------------------------------------
(* Types. *)
Rows == [state : {"none", "pending", "active", "revoked", "deleted"},
         m : Machines \cup {None}, known : BOOLEAN, age : {"fresh", "stale", "old"}]
Deletions == [pc : {"idle", "revoke", "delete", "clear"}, m : Machines \cup {None}]
Operations == [phase : Retired \cup {"none", "opening", "ready"},
               step : {"discover", "credentials", "wake", "prepare", "inspect", "register"},
               m : Machines \cup {None}, key : Creds \cup {None},
               tried : BOOLEAN, woken : BOOLEAN, invalidated : BOOLEAN,
               cleanup : BOOLEAN, late : BOOLEAN, dead : BOOLEAN]
Jobs == [pc : {"idle", "retire", "unlink", "sync", "clean", "find", "create", "bind",
               "credentials", "secret", "mount", "activate", "wake", "start",
               "prepare", "inspect", "register", "publish"},
         s : Services \cup {None}, r : Services \cup {None}, todo : SUBSET Services,
         next : {"end", "find", "bind", "start", "clean"},
         m : Machines \cup {None}, seen : MachineStates, c : Creds \cup {None}]

CredTyped ==
    /\ vm \in [Machines -> MachineStates]
    /\ mount \in [Machines -> Creds \cup {None}]
    /\ secret \in [Creds -> {"none", "late", "held", "gone"}]
    /\ row \in [Creds -> Rows]
    /\ cached \in Machines \cup {None}
    /\ api \in [pc : {"idle", "create", "start", "write"}, m : Machines \cup {None}]
    /\ del \in [Deleters -> Deletions]
    /\ cron \in Creds \cup {None}
    /\ faults \in 0..MaxFaults /\ requests \in 0..MaxRequests
OpTyped == op \in [Services -> Operations] /\ job \in Jobs
LinkTyped ==
    /\ reg \in [Services -> Creds \cup {None}]
    /\ over \in [Services -> BOOLEAN] /\ pending \in [Services -> BOOLEAN]
    /\ hand \in [Services -> {"none", "dial", "join", "dialOld", "joinOld"}]
    /\ sock \in [Services -> SUBSET {"current", "old"}]
CountTyped == uncertain \in BOOLEAN /\ creates \in Nat

LEMMA TypesAre == TypeOK <=> CredTyped /\ OpTyped /\ LinkTyped /\ CountTyped
BY DEF TypeOK, CredTyped, OpTyped, LinkTyped, CountTyped, Rows, Deletions, Operations, Jobs

LEMMA FaultTyped ==
    ASSUME CredTyped
    PROVE /\ Fault => faults' \in 0..MaxFaults /\ requests' \in 0..MaxRequests
          /\ Request => requests' \in 0..MaxRequests
          /\ UNCHANGED counts => faults' \in 0..MaxFaults /\ requests' \in 0..MaxRequests
          /\ faults < MaxFaults /\ faults' = faults + 1 => faults' \in 0..MaxFaults
          /\ UNCHANGED faults => faults' \in 0..MaxFaults
<1>1. MaxFaults \in Nat /\ MaxRequests \in Nat BY CredentialsAssumption
<1>2. QED BY <1>1 DEF CredTyped, Fault, Request, counts

LEMMA RevokedTyped ==
    ASSUME CredTyped, NEW m
    PROVE Revoked(row, m) \in [Creds -> Rows]
BY DEF CredTyped, Revoked, Rows

LEMMA FreshIn ==
    /\ Fresh \subseteq Machines /\ Unused \subseteq Creds
    /\ \A m \in Fresh : vm[m] = "none"
    /\ \A c \in Unused : row[c].state = "none"
BY DEF Fresh, Unused, Next1

LEMMA ProviderTyped ==
    ASSUME CredTyped, NEW m \in Machines, Settle(m) \/ AutoStop(m) \/ Break(m) \/ Vanish(m)
    PROVE CredTyped'
<1>1. CASE Settle(m)
  BY <1>1, FaultTyped DEF CredTyped, Settle, MachineStates, authority, actors, counts
<1>2. CASE AutoStop(m)
  <2>1. faults' \in 0..MaxFaults /\ requests' \in 0..MaxRequests BY <1>2, FaultTyped DEF AutoStop
  <2>2. QED BY <1>2, <2>1 DEF CredTyped, AutoStop, MachineStates, authority, actors
<1>3. CASE Vanish(m)
  <2>1. faults' \in 0..MaxFaults /\ requests' \in 0..MaxRequests BY <1>3, FaultTyped DEF Vanish
  <2>2. QED BY <1>3, <2>1 DEF CredTyped, Vanish, MachineStates, authority, actors
<1>4. CASE Break(m)
  <2>1. faults' \in 0..MaxFaults /\ requests' \in 0..MaxRequests BY <1>4, FaultTyped DEF Break
  <2>2. QED BY <1>4, <2>1 DEF CredTyped, Break, MachineStates, authority, actors
<1>5. QED BY <1>1, <1>2, <1>3, <1>4

LEMMA ApiTyped ==
    ASSUME CredTyped, Api
    PROVE CredTyped'
<1>1. CASE ApiFind
  <2>1. faults' \in 0..MaxFaults /\ requests' \in 0..MaxRequests BY <1>1, FaultTyped DEF ApiFind
  <2>2. api' \in [pc : {"idle", "create", "start", "write"}, m : Machines \cup {None}]
    BY <1>1 DEF ApiFind, Found
  <2>3. QED BY <1>1, <2>1, <2>2 DEF CredTyped, ApiFind, provider, authority
<1>2. CASE ApiCreate
  <2>1. faults' \in 0..MaxFaults /\ requests' \in 0..MaxRequests BY <1>2, FaultTyped DEF ApiCreate
  <2>2. vm' \in [Machines -> MachineStates]
        /\ api' \in [pc : {"idle", "create", "start", "write"}, m : Machines \cup {None}]
    BY <1>2, FreshIn DEF ApiCreate, CredTyped, MachineStates, Idle
  <2>3. QED BY <1>2, <2>1, <2>2 DEF CredTyped, ApiCreate, authority
<1>3. CASE ApiStart
  <2>1. faults' \in 0..MaxFaults /\ requests' \in 0..MaxRequests BY <1>3, FaultTyped DEF ApiStart
  <2>2. vm' \in [Machines -> MachineStates]
        /\ api' \in [pc : {"idle", "create", "start", "write"}, m : Machines \cup {None}]
    BY <1>3 DEF ApiStart, Started, CredTyped, MachineStates, Idle
  <2>3. QED BY <1>3, <2>1, <2>2 DEF CredTyped, ApiStart, authority
<1>4. CASE ApiWrite
  <2>1. faults' \in 0..MaxFaults /\ requests' \in 0..MaxRequests BY <1>4, FaultTyped DEF ApiWrite
  <2>2. cached' \in Machines \cup {None}
        /\ api' \in [pc : {"idle", "create", "start", "write"}, m : Machines \cup {None}]
    BY <1>4 DEF ApiWrite, CredTyped, Idle
  <2>3. QED BY <1>4, <2>1, <2>2 DEF CredTyped, ApiWrite, provider
<1>5. QED BY <1>1, <1>2, <1>3, <1>4 DEF Api

LEMMA DeleteTyped ==
    ASSUME CredTyped, NEW d \in Deleters, Delete(d)
    PROVE CredTyped'
<1>1. CASE DeleteBegin(d)
  <2>1. faults' \in 0..MaxFaults /\ requests' \in 0..MaxRequests
    BY <1>1, FaultTyped DEF DeleteBegin
  <2>2. Target(d) \subseteq Machines BY DEF Target, Found, CredTyped
  <2>3. del' \in [Deleters -> Deletions] BY <1>1, <2>2 DEF DeleteBegin, CredTyped, Deletions
  <2>4. QED BY <1>1, <2>1, <2>3 DEF CredTyped, DeleteBegin, provider, authority
<1>2. CASE DeleteRevoke(d)
  <2>1. row' \in [Creds -> Rows] BY <1>2, RevokedTyped DEF DeleteRevoke, Revokes
  <2>2. del' \in [Deleters -> Deletions] BY <1>2 DEF DeleteRevoke, CredTyped, Deletions
  <2>3. QED BY <1>2, <2>1, <2>2, FaultTyped DEF CredTyped, DeleteRevoke, provider
<1>3. CASE DeleteCall(d)
  <2>1. vm' \in [Machines -> MachineStates] BY <1>3 DEF DeleteCall, CredTyped, MachineStates
  <2>2. del' \in [Deleters -> Deletions] BY <1>3 DEF DeleteCall, CredTyped, Deletions, Idle
  <2>3. QED BY <1>3, <2>1, <2>2, FaultTyped DEF CredTyped, DeleteCall, authority
<1>4. CASE DeleteClear(d)
  <2>1. cached' \in Machines \cup {None} BY <1>4 DEF DeleteClear, CredTyped
  <2>2. del' \in [Deleters -> Deletions] BY <1>4 DEF DeleteClear, CredTyped, Deletions, Idle
  <2>3. QED BY <1>4, <2>1, <2>2, FaultTyped DEF CredTyped, DeleteClear, provider
<1>5. QED BY <1>1, <1>2, <1>3, <1>4 DEF Delete

LEMMA CleanTyped ==
    ASSUME CredTyped, NEW c \in Creds, Land(c) \/ Clean(c) \/ CleanFails(c) \/ Ages(c)
    PROVE CredTyped'
<1>1. CASE Land(c)
  BY <1>1, FaultTyped DEF CredTyped, Land, authority, actors, counts
<1>2. CASE CleanStale(c)
  <2>1. row' \in [Creds -> Rows] BY <1>2 DEF CleanStale, CredTyped, Rows
  <2>2. QED BY <1>2, <2>1, FaultTyped DEF CredTyped, CleanStale, provider, actors
<1>3. CASE CleanCheck(c)
  BY <1>3, FaultTyped DEF CredTyped, CleanCheck, provider, authority
<1>4. CASE CleanRevoke(c)
  <2>1. row' \in [Creds -> Rows] BY <1>4, RevokedTyped DEF CleanRevoke
  <2>2. QED BY <1>4, <2>1, FaultTyped DEF CredTyped, CleanRevoke, provider
<1>5. CASE CleanErase(c)
  <2>1. row' \in [Creds -> Rows] BY <1>5 DEF CleanErase, CredTyped, Rows
  <2>2. secret' \in [Creds -> {"none", "late", "held", "gone"}] BY <1>5 DEF CleanErase, CredTyped
  <2>3. QED BY <1>5, <2>1, <2>2, FaultTyped DEF CredTyped, CleanErase, actors
<1>6. CASE CleanFails(c)
  <2>1. faults' \in 0..MaxFaults /\ requests' \in 0..MaxRequests BY <1>6, FaultTyped DEF CleanFails
  <2>2. secret' \in [Creds -> {"none", "late", "held", "gone"}] /\ cron' \in Creds \cup {None}
    BY <1>6 DEF CleanFails, CredTyped
  <2>3. QED BY <1>6, <2>1, <2>2 DEF CredTyped, CleanFails, authority
<1>7. CASE Ages(c)
  <2>1. row' \in [Creds -> Rows] BY <1>7 DEF Ages, CredTyped, Rows
  <2>2. QED BY <1>7, <2>1, FaultTyped DEF CredTyped, Ages, provider, actors
<1>8. QED BY <1>1, <1>2, <1>3, <1>4, <1>5, <1>6, <1>7 DEF Clean

\* The forms an operation's step takes.
LEMMA JobForms ==
    ASSUME OpTyped
    PROVE /\ NoJob \in Jobs /\ NoOp \in Operations /\ NewOp \in Operations
          /\ \A s \in Services \cup {None}, phase \in Retired : Retire(s, phase) => OpTyped'
          /\ \A s \in Services : RetireSibling(s) => OpTyped'
          /\ \A s \in Services \cup {None} : Fail(s) => OpTyped'
          /\ End => OpTyped'
          /\ \A s \in Services \cup {None}, o \in Operations : Save(s, o) => OpTyped'
<1>1. NoJob \in Jobs BY DEF NoJob, Jobs, MachineStates
<1>2. NoOp \in Operations /\ NewOp \in Operations BY DEF NoOp, NewOp, Operations, Retired
<1>3. op \in [Services -> Operations] /\ job \in Jobs BY DEF OpTyped
<1>4. ASSUME NEW s \in Services \cup {None}, NEW phase \in Retired
      PROVE Phased(s, phase) \in [Services -> Operations]
  <2>1. CASE s \in Services
    <3>1. [Settled(op[s], phase) EXCEPT !.invalidated = FALSE] \in Operations
      BY <1>3, <2>1 DEF Settled, Operations
    <3>2. QED BY <1>3, <3>1 DEF Phased
  <2>2. CASE s = None
    <3>1. None \notin Services BY BrowserAssumption
    <3>2. Phased(s, phase) = op BY <1>3, <2>2, <3>1 DEF Phased
    <3>3. QED BY <1>3, <3>2
  <2>3. QED BY <2>1, <2>2
<1>5. ASSUME NEW s \in Services \cup {None}, NEW phase \in Retired, Retire(s, phase)
      PROVE OpTyped'
  <2>1. job' \in Jobs BY <1>1, <1>5 DEF Retire, Jobs
  <2>2. QED BY <1>4, <1>5, <2>1 DEF Retire, OpTyped
<1>6. ASSUME NEW s \in Services, RetireSibling(s) PROVE OpTyped'
  <2>1. job' \in Jobs BY <1>3, <1>6 DEF RetireSibling, Jobs
  <2>2. op' \in [Services -> Operations] BY <1>4, <1>6 DEF RetireSibling, Retired
  <2>3. QED BY <2>1, <2>2 DEF OpTyped
<1>7. ASSUME NEW s \in Services \cup {None}, Fail(s) PROVE OpTyped'
  BY <1>5, <1>7 DEF Fail, Retired
<1>8. End => OpTyped' BY <1>1, <1>3 DEF End, OpTyped
<1>9. ASSUME NEW s \in Services \cup {None}, NEW o \in Operations, Save(s, o) PROVE OpTyped'
  BY <1>1, <1>3, <1>9 DEF Save, OpTyped
<1>10. QED BY <1>1, <1>2, <1>5, <1>6, <1>7, <1>8, <1>9

LEMMA AfterTyped ==
    ASSUME OpTyped, NEW todo
    PROVE After(todo) \in Jobs
<1>1. NoJob \in Jobs /\ job \in Jobs BY JobForms DEF OpTyped
<1>2. QED BY <1>1 DEF After, Jobs

LEMMA AttachedForms ==
    ASSUME OpTyped, Attached
    PROVE /\ \A s \in Services \cup {None}, phase \in Retired : Retire(s, phase) => Attached'
          /\ \A s \in Services : RetireSibling(s) => Attached'
          /\ \A s \in Services \cup {None} : Fail(s) => Attached'
          /\ End => Attached'
          /\ \A s \in Services \cup {None}, o \in Operations :
                Save(s, o) /\ (o.step # "discover" => o.m \in Machines) => Attached'
<1>1. op \in [Services -> Operations] /\ job \in Jobs BY DEF OpTyped
<1>2. NoJob.pc = "idle" /\ NoJob.next = "end" BY DEF NoJob
<1>3. ASSUME NEW s \in Services \cup {None}, NEW phase
      PROVE \A t \in Services : /\ Phased(s, phase)[t].step = op[t].step
                                /\ Phased(s, phase)[t].m = op[t].m
  BY <1>1 DEF Phased, Settled, Operations
<1>4. ASSUME NEW s \in Services \cup {None}, NEW phase \in Retired, Retire(s, phase)
      PROVE Attached'
  <2>1. op' = Phased(s, phase) /\ job'.pc = "unlink" /\ job'.next = "end"
    BY <1>4 DEF Retire, NoJob
  <2>2. QED BY <1>3, <2>1 DEF Attached
<1>5. ASSUME NEW s \in Services, RetireSibling(s) PROVE Attached'
  <2>1. op' = Phased(s, "stopped") /\ job'.pc = "unlink" /\ job'.next = job.next /\ job'.m = job.m
    BY <1>1, <1>5 DEF RetireSibling, Jobs
  <2>2. QED BY <1>3, <2>1 DEF Attached
<1>6. ASSUME NEW s \in Services \cup {None}, Fail(s) PROVE Attached'
  BY <1>4, <1>6 DEF Fail, Retired
<1>7. End => Attached' BY <1>2 DEF End, Attached
<1>8. ASSUME NEW s \in Services \cup {None}, NEW o \in Operations,
             Save(s, o), o.step # "discover" => o.m \in Machines
      PROVE Attached'
  <2>1. \A t \in Services : op'[t] = o \/ op'[t] = op[t] BY <1>1, <1>8 DEF Save
  <2>2. job'.pc = "idle" /\ job'.next = "end" BY <1>2, <1>8 DEF Save
  <2>3. QED BY <1>8, <2>1, <2>2 DEF Attached
<1>9. QED BY <1>4, <1>5, <1>6, <1>7, <1>8

\* A job that goes on keeps what it knows.
LEMMA AfterAttached ==
    ASSUME OpTyped, Attached, NEW todo, job' = After(todo),
           \A t \in Services : op'[t].step = op[t].step /\ op'[t].m = op[t].m
    PROVE Attached'
<1>1. job \in Jobs BY DEF OpTyped
<1>2. CASE job' = NoJob BY <1>2 DEF NoJob, Attached
<1>3. CASE job' = [job EXCEPT !.pc = "retire"] BY <1>1, <1>3 DEF Attached, Jobs
<1>4. CASE job' = [job EXCEPT !.pc = job.next] /\ job.next # "end"
  <2>1. job'.pc = job.next /\ job'.next = job.next /\ job'.m = job.m BY <1>1, <1>4 DEF Jobs
  <2>2. job.next \in {"find", "bind", "start", "clean"} BY <1>1, <1>4 DEF Jobs
  <2>3. QED BY <2>1, <2>2 DEF Attached
<1>5. QED BY <1>2, <1>3, <1>4 DEF After

LEMMA Saved ==
    ASSUME OpTyped, Attached, NEW s \in Services \cup {None}, NEW o, Save(s, o),
           s \in Services => o \in Operations /\ (o.step # "discover" => o.m \in Machines)
    PROVE OpTyped' /\ Attached'
<1>1. CASE s \in Services BY <1>1, JobForms, AttachedForms
<1>2. CASE s = None
  <2>1. None \notin Services BY BrowserAssumption
  <2>2. op' = op BY <1>2, <2>1 DEF Save, OpTyped
  <2>3. End BY <2>2 DEF Save, End
  <2>4. QED BY <2>3, JobForms, AttachedForms
<1>3. QED BY <1>1, <1>2

LEMMA Failed ==
    ASSUME OpTyped, Attached
    PROVE /\ \A s \in Services \cup {None} : Fail(s) => OpTyped' /\ Attached'
          /\ End => OpTyped' /\ Attached'
BY JobForms, AttachedForms

LEMMA JobRefers ==
    ASSUME OpTyped
    PROVE /\ job.s \in Services \cup {None} /\ job.r \in Services \cup {None}
          /\ \A s \in Services : /\ op[s] \in Operations
                                 /\ op[s].m \in Machines \cup {None} /\ op[s].key \in Creds \cup {None}
BY DEF OpTyped, Jobs, Operations

\* What people ask of the controller.
LEMMA AskedTyped ==
    ASSUME OpTyped, Attached, CredTyped,
           (\E s \in Services : Start(s) \/ Stop(s)) \/ AccessRevoke \/ RotateFails \/ WakeExisting
    PROVE OpTyped' /\ Attached' /\ CredTyped'
<1>1. op \in [Services -> Operations] /\ job \in Jobs /\ NoJob \in Jobs /\ NewOp \in Operations
  BY JobForms DEF OpTyped
<1>2. Asked => faults' \in 0..MaxFaults /\ requests' \in 0..MaxRequests BY FaultTyped DEF Asked
<1>3. ASSUME NEW s \in Services, Start(s) PROVE OpTyped' /\ Attached' /\ CredTyped'
  <2>1. op' = [op EXCEPT ![s] = NewOp] /\ job' = job BY <1>3 DEF Start
  <2>2. NewOp.step = "discover" BY DEF NewOp, NoOp
  <2>3. OpTyped' BY <1>1, <2>1 DEF OpTyped
  <2>a. job.pc = "idle" /\ job.next = "end" BY <1>3 DEF Start, Asked, NoJob
  <2>4. Attached' BY <1>1, <2>1, <2>2, <2>a DEF Attached
  <2>5. CredTyped' BY <1>2, <1>3 DEF Start, CredTyped, provider, authority, actors
  <2>6. QED BY <2>3, <2>4, <2>5
<1>4. ASSUME NEW s \in Services, Stop(s) PROVE OpTyped' /\ Attached' /\ CredTyped'
  <2>1. None \in Services \cup {None} /\ StopWork(s, None) BY <1>4 DEF Stop
  <2>2. job'.pc \in {"clean", "unlink"} /\ job' \in Jobs /\ job'.next = "clean"
    BY <1>1, <2>1 DEF StopWork, Jobs, NoJob
  <2>a. PICK quiet \in BOOLEAN, cleanup \in BOOLEAN :
           op' = [op EXCEPT ![s] = [Settled(op[s], "stopped") EXCEPT
                                       !.invalidated = quiet, !.cleanup = cleanup]]
    <3>1. op[s].cleanup \in BOOLEAN BY <1>1 DEF Operations
    <3>2. QED BY <2>1, <3>1 DEF StopWork
  <2>b. PICK o : o = [Settled(op[s], "stopped") EXCEPT !.invalidated = quiet, !.cleanup = cleanup]
    OBVIOUS
  <2>3. /\ op' = [op EXCEPT ![s] = o] /\ o.step = op[s].step /\ o.m = op[s].m
        /\ o \in Operations
    BY <1>1, <2>a, <2>b DEF Operations, Settled, Retired
  <2>4. OpTyped' BY <1>1, <2>2, <2>3 DEF OpTyped
  <2>5. Attached' BY <1>1, <2>2, <2>3 DEF Attached
  <2>6. CredTyped' BY <1>2, <1>4 DEF Stop, CredTyped, provider, authority, actors
  <2>7. QED BY <2>4, <2>5, <2>6
<1>5. ASSUME AccessRevoke PROVE OpTyped' /\ Attached' /\ CredTyped'
  <2>1. row' \in [Creds -> Rows] BY <1>5, RevokedTyped DEF AccessRevoke
  <2>2. job' \in Jobs /\ job'.pc = "retire" /\ job'.next = "end" /\ op' = op
    BY <1>1, <1>5 DEF AccessRevoke, Jobs, NoJob, stored
  <2>3. OpTyped' BY <1>1, <2>2 DEF OpTyped
  <2>4. Attached' BY <2>2 DEF Attached
  <2>5. CredTyped' BY <1>2, <1>5, <2>1 DEF AccessRevoke, CredTyped, provider, actors
  <2>6. QED BY <2>3, <2>4, <2>5
<1>6. ASSUME RotateFails PROVE OpTyped' /\ Attached' /\ CredTyped'
  <2>1. row' \in [Creds -> Rows] BY <1>6, RevokedTyped DEF RotateFails
  <2>2. CredTyped' BY <1>2, <1>6, <2>1 DEF RotateFails, CredTyped, provider, actors
  <2>3. QED BY <1>1, <1>6, <2>2 DEF RotateFails, OpTyped, Attached, stored
<1>7. ASSUME WakeExisting PROVE OpTyped' /\ Attached' /\ CredTyped'
  <2>a. PICK m \in Machines : job' = [NoJob EXCEPT !.pc = "retire", !.todo = Phase("ready"),
                                                  !.next = "start", !.m = m]
    BY <1>7 DEF WakeExisting
  <2>b. Phase("ready") \in SUBSET Services BY DEF Phase
  <2>1. job' \in Jobs /\ job'.pc = "retire" /\ job'.next = "start"
    BY <1>1, <2>a, <2>b DEF Jobs
  <2>c. op' = op BY <1>7 DEF WakeExisting, stored
  <2>2. OpTyped' BY <1>1, <2>1, <2>c DEF OpTyped
  <2>3. Attached' BY <2>1, <2>c DEF Attached
  <2>4. CredTyped' BY <1>2, <1>7 DEF WakeExisting, CredTyped, provider, authority, actors
  <2>5. QED BY <2>2, <2>3, <2>4
<1>8. QED BY <1>3, <1>4, <1>5, <1>6, <1>7

\* Retirement, and the end of a stop.
LEMMA RetiringTyped ==
    ASSUME OpTyped, Attached, CredTyped,
           RetireNext \/ Unlink \/ Sync \/ RevokeFails \/ StopClean \/ StopCleanLater \/ Evict
    PROVE OpTyped' /\ Attached' /\ CredTyped'
<1>1. op \in [Services -> Operations] /\ job \in Jobs /\ NoJob \in Jobs
  BY JobForms DEF OpTyped
<1>2. /\ Fault => faults' \in 0..MaxFaults /\ requests' \in 0..MaxRequests
      /\ UNCHANGED counts => faults' \in 0..MaxFaults /\ requests' \in 0..MaxRequests
  BY FaultTyped
<1>3. credVars' = credVars => CredTyped'
  BY <1>2 DEF credVars, CredTyped, provider, authority, actors, counts
<1>4. UNCHANGED <<provider, authority, actors>> /\ (Fault \/ UNCHANGED counts) => CredTyped'
  BY <1>2 DEF CredTyped, provider, authority, actors
<1>5. ASSUME NEW todo, job' = After(todo), op' = op PROVE OpTyped' /\ Attached'
  <2>1. OpTyped' BY <1>1, <1>5, AfterTyped DEF OpTyped
  <2>2. QED BY <1>5, <2>1, AfterAttached
<1>6. ASSUME RetireNext PROVE OpTyped' /\ Attached' /\ CredTyped'
  <2>1. CredTyped' BY <1>3, <1>6 DEF RetireNext
  <2>2. CASE job' = After({}) /\ op' = op BY <1>5, <2>1, <2>2
  <2>3. ASSUME NEW s \in job.todo, RetireSibling(s) PROVE OpTyped' /\ Attached'
    <3>1. s \in Services BY <1>1 DEF Jobs
    <3>2. QED BY <2>3, <3>1, JobForms, AttachedForms
  <2>4. QED BY <1>6, <2>1, <2>2, <2>3 DEF RetireNext
<1>7. ASSUME Unlink PROVE OpTyped' /\ Attached' /\ CredTyped'
  <2>1. job' = [job EXCEPT !.pc = "sync"] /\ op' = op BY <1>7 DEF Unlink, stored
  <2>2. job' \in Jobs /\ job'.pc = "sync" /\ job'.next = job.next /\ job'.m = job.m
    BY <1>1, <2>1 DEF Jobs
  <2>3. OpTyped' BY <1>1, <2>1, <2>2 DEF OpTyped
  <2>4. Attached' BY <2>1, <2>2 DEF Attached
  <2>5. QED BY <1>3, <1>7, <2>3, <2>4 DEF Unlink
<1>8. ASSUME Sync PROVE OpTyped' /\ Attached' /\ CredTyped'
  <2>1. job' = After(job.todo) BY <1>8 DEF Sync
  <2>2. op' = op \/ op' = [op EXCEPT ![job.r].invalidated = TRUE] BY <1>8 DEF Sync
  <2>3. op' \in [Services -> Operations]
    <3>1. CASE job.r \in Services
      <4>0. op[job.r] \in Operations BY <1>1, <3>1
      <4>1. [op[job.r] EXCEPT !.invalidated = TRUE] \in Operations BY <4>0 DEF Operations
      <4>2. QED BY <1>1, <2>2, <4>1
    <3>2. CASE job.r \notin Services
      <4>1. op' = op BY <1>1, <2>2, <3>2
      <4>2. QED BY <1>1, <4>1
    <3>3. QED BY <3>1, <3>2
  <2>4. \A t \in Services : op'[t].step = op[t].step /\ op'[t].m = op[t].m
    BY <1>1, <2>2 DEF Operations
  <2>5. OpTyped' BY <1>1, <2>1, <2>3, AfterTyped DEF OpTyped
  <2>6. Attached' BY <2>1, <2>4, AfterAttached
  <2>7. QED BY <1>3, <1>8, <2>5, <2>6 DEF Sync
<1>9. ASSUME RevokeFails PROVE OpTyped' /\ Attached' /\ CredTyped'
  <2>1. CredTyped' BY <1>4, <1>9 DEF RevokeFails
  <2>2. CASE job' = NoJob /\ op' = op
    <3>1. End BY <2>2 DEF End
    <3>2. QED BY <2>1, <3>1, Failed
  <2>3. CASE job' = After(job.todo) /\ op' = op BY <1>5, <2>1, <2>3
  <2>4. CASE Fail(job.s) BY <2>1, <2>4, Failed, JobRefers
  <2>5. CASE End BY <2>1, <2>5, Failed
  <2>6. QED BY <1>9, <2>2, <2>3, <2>4, <2>5 DEF RevokeFails
<1>10. ASSUME StopClean PROVE OpTyped' /\ Attached' /\ CredTyped'
  <2>1. job.r \in Services \cup {None} BY JobRefers
  <2>2. PICK o : o = [op[job.r] EXCEPT !.cleanup = FALSE] OBVIOUS
  <2>3. job.r \in Services => o \in Operations /\ (o.step # "discover" => o.m \in Machines)
    <3>1. ASSUME job.r \in Services
          PROVE o \in Operations /\ o.step = op[job.r].step /\ o.m = op[job.r].m
      <4>1. op[job.r] \in Operations BY <1>1, <3>1
      <4>2. QED BY <2>2, <4>1 DEF Operations
    <3>2. QED BY <3>1 DEF Attached
  <2>4. Save(job.r, o) BY <1>10, <2>2 DEF StopClean
  <2>5. OpTyped' /\ Attached' BY <2>1, <2>3, <2>4, Saved
  <2>6. QED BY <1>3, <1>10, <2>5 DEF StopClean
<1>11. ASSUME StopCleanLater PROVE OpTyped' /\ Attached' /\ CredTyped'
  <2>1. End BY <1>11 DEF StopCleanLater, End, stored
  <2>2. CredTyped' BY <1>4, <1>11 DEF StopCleanLater
  <2>3. QED BY <2>1, <2>2, Failed
<1>12. ASSUME Evict PROVE OpTyped' /\ Attached' /\ CredTyped'
  <2>1. End BY <1>12 DEF Evict, End, stored
  <2>2. CredTyped' BY <1>4, <1>12 DEF Evict
  <2>3. QED BY <2>1, <2>2, Failed
<1>13. QED BY <1>6, <1>7, <1>8, <1>9, <1>10, <1>11, <1>12

LEMMA AdvanceTyped ==
    ASSUME OpTyped, Attached, NEW s \in Services, Advance(s)
    PROVE OpTyped' /\ Attached'
<1>1. /\ op \in [Services -> Operations] /\ job \in Jobs /\ NoJob \in Jobs
      /\ s \in Services \cup {None} /\ op[s] \in Operations
  BY JobForms DEF OpTyped
<1>2. CASE StopWork(s, s)
  <2>1. job'.pc \in {"clean", "unlink"} /\ job' \in Jobs /\ job'.next = "clean"
    BY <1>1, <1>2 DEF StopWork, Jobs, NoJob
  <2>2. PICK quiet \in BOOLEAN, cleanup \in BOOLEAN :
           op' = [op EXCEPT ![s] = [Settled(op[s], "stopped") EXCEPT
                                       !.invalidated = quiet, !.cleanup = cleanup]]
    <3>1. op[s].cleanup \in BOOLEAN BY <1>1 DEF Operations
    <3>2. QED BY <1>2, <3>1 DEF StopWork
  <2>3. PICK o : o = [Settled(op[s], "stopped") EXCEPT !.invalidated = quiet, !.cleanup = cleanup]
    OBVIOUS
  <2>4. /\ op' = [op EXCEPT ![s] = o] /\ o.step = op[s].step /\ o.m = op[s].m
        /\ o \in Operations
    BY <1>1, <2>2, <2>3 DEF Operations, Settled, Retired
  <2>5. OpTyped' BY <1>1, <2>1, <2>4 DEF OpTyped
  <2>6. Attached' BY <1>1, <2>1, <2>4 DEF Attached
  <2>7. QED BY <2>5, <2>6
<1>3. ASSUME NEW phase \in Retired, Retire(s, phase) PROVE OpTyped' /\ Attached'
  BY <1>1, <1>3, JobForms, AttachedForms
<1>4. CASE Fail(s) BY <1>1, <1>4, Failed
<1>5. CASE job' = [NoJob EXCEPT !.pc = "unlink", !.s = s, !.r = s, !.next = "find"] /\ op' = op
  <2>1. job' \in Jobs /\ job'.pc = "unlink" /\ job'.next = "find" BY <1>1, <1>5 DEF Jobs
  <2>2. QED BY <1>1, <1>5, <2>1 DEF OpTyped, Attached
<1>6. ASSUME op[s].step # "discover", op' = op,
             job' = [NoJob EXCEPT !.pc = op[s].step, !.s = s, !.m = op[s].m, !.seen = vm[op[s].m],
                                  !.c = IF Active(op[s].m) = {} THEN None ELSE op[s].key],
             vm[op[s].m] \in MachineStates
      PROVE OpTyped' /\ Attached'
  <2>1. op[s].m \in Machines BY <1>6 DEF Attached
  <2>2. op[s].key \in Creds \cup {None} BY <1>1 DEF Operations
  <2>a. op[s].step \in {"credentials", "wake", "prepare", "inspect", "register"}
    BY <1>1, <1>6 DEF Operations
  <2>b. PICK c \in Creds \cup {None} : c = IF Active(op[s].m) = {} THEN None ELSE op[s].key
    BY <2>2
  <2>c. job' = [NoJob EXCEPT !.pc = op[s].step, !.s = s, !.m = op[s].m, !.seen = vm[op[s].m],
                             !.c = c]
    BY <1>6, <2>b
  <2>3. job' \in Jobs /\ job'.m = op[s].m /\ job'.next = "end" /\ job'.pc = op[s].step
    BY <1>1, <1>6, <2>1, <2>a, <2>c DEF Jobs, NoJob
  <2>4. OpTyped' BY <1>1, <1>6, <2>3 DEF OpTyped
  <2>5. Attached' BY <1>6, <2>1, <2>3, <2>a DEF Attached
  <2>6. QED BY <2>4, <2>5
<1>7. op[s].phase \in Retired => op[s].phase \in Retired OBVIOUS
<1>8. Alive(op[s].m) => vm[op[s].m] \in MachineStates BY DEF Alive, MachineStates
<1>9. Retired = {"failed", "expired", "stopped"} BY DEF Retired
<1>10. QED BY <1>2, <1>3, <1>4, <1>5, <1>6, <1>8, <1>9 DEF Advance

LEMMA JobKept ==
    ASSUME OpTyped, Attached, CredTyped, NEW pc \in {"idle", "retire", "unlink", "sync", "clean",
               "find", "create", "bind", "credentials", "secret", "mount", "activate", "wake",
               "start", "prepare", "inspect", "register", "publish"}
    PROVE /\ [job EXCEPT !.pc = pc] \in Jobs
          /\ \A m \in Machines : [job EXCEPT !.pc = pc, !.m = m] \in Jobs
          /\ \A c \in Creds : [job EXCEPT !.pc = pc, !.c = c] \in Jobs
<1>1. job \in Jobs BY DEF OpTyped
<1>2. [job EXCEPT !.pc = pc] \in Jobs BY <1>1 DEF Jobs
<1>3. ASSUME NEW m \in Machines PROVE [job EXCEPT !.pc = pc, !.m = m] \in Jobs
  BY <1>1 DEF Jobs
<1>4. ASSUME NEW c \in Creds PROVE [job EXCEPT !.pc = pc, !.c = c] \in Jobs
  BY <1>1 DEF Jobs
<1>5. QED BY <1>2, <1>3, <1>4

LEMMA RowKept ==
    ASSUME CredTyped, NEW c
    PROVE /\ RevokeOne(c) => row' \in [Creds -> Rows]
          /\ \A m \in Machines : Insert(c, m) => row' \in [Creds -> Rows]
<1>1. row \in [Creds -> Rows] BY DEF CredTyped
<1>2. ASSUME RevokeOne(c) PROVE row' \in [Creds -> Rows]
  <2>1. CASE c \in Creds
    <3>1. [row[c] EXCEPT !.state = IF row[c].state = "deleted" THEN row[c].state ELSE "revoked"] \in Rows
      BY <1>1, <2>1 DEF Rows
    <3>2. row' = [row EXCEPT ![c] =
              [row[c] EXCEPT !.state = IF row[c].state = "deleted" THEN row[c].state ELSE "revoked"]]
      BY <1>1, <1>2, <2>1 DEF RevokeOne
    <3>3. QED BY <1>1, <3>1, <3>2
  <2>2. CASE c \notin Creds
    <3>1. row' = row BY <1>1, <1>2, <2>2 DEF RevokeOne
    <3>2. QED BY <1>1, <3>1
  <2>3. QED BY <2>1, <2>2
<1>3. ASSUME NEW m \in Machines, Insert(c, m) PROVE row' \in [Creds -> Rows]
  <2>1. [state |-> "pending", m |-> m, known |-> FALSE, age |-> "fresh"] \in Rows BY DEF Rows
  <2>2. \A a \in Creds : row[a] \in Rows /\ [row[a] EXCEPT !.state = "revoked"] \in Rows
    BY <1>1 DEF Rows
  <2>3. QED BY <1>3, <2>1, <2>2 DEF Insert
<1>4. QED BY <1>2, <1>3

\* Discovery.
LEMMA DiscoverTyped ==
    ASSUME OpTyped, Attached, CredTyped, CountTyped, Find \/ Create \/ Bind
    PROVE OpTyped' /\ Attached' /\ CredTyped' /\ CountTyped'
<1>1. op \in [Services -> Operations] /\ job \in Jobs /\ job.s \in Services \cup {None}
  BY JobRefers DEF OpTyped
<1>2. /\ Fault => faults' \in 0..MaxFaults /\ requests' \in 0..MaxRequests
      /\ UNCHANGED counts => faults' \in 0..MaxFaults /\ requests' \in 0..MaxRequests
  BY FaultTyped
<1>3. ASSUME Find PROVE OpTyped' /\ Attached' /\ CredTyped' /\ CountTyped'
  <2>1. CredTyped' BY <1>2, <1>3 DEF Find, credVars, CredTyped, provider, authority, actors, counts
  <2>2. CountTyped'
    <3>1. uncertain' \in BOOLEAN /\ (creates' = creates \/ creates' = creates + 1 \/ creates' = 0)
      BY <1>3 DEF Find, CountTyped
    <3>2. QED BY <3>1 DEF CountTyped
  <2>3. CASE Fail(job.s) BY <1>1, <2>1, <2>2, <2>3, Failed
  <2>4. CASE op' = [op EXCEPT ![job.s].tried = TRUE] /\ job' = [job EXCEPT !.pc = "create"] /\ job.pc = "find"
    <3>1. job' \in Jobs /\ job'.pc = "create" /\ job'.next = job.next /\ job'.m = job.m
      BY <1>1, <2>4 DEF Jobs
    <3>2. op' \in [Services -> Operations]
      <4>1. CASE job.s \in Services
        <5>0. op[job.s] \in Operations BY <1>1, <4>1
        <5>1. [op[job.s] EXCEPT !.tried = TRUE] \in Operations BY <5>0 DEF Operations
        <5>2. QED BY <1>1, <2>4, <5>1
      <4>2. CASE job.s \notin Services
        <5>1. op' = op BY <1>1, <2>4, <4>2
        <5>2. QED BY <1>1, <5>1
      <4>3. QED BY <4>1, <4>2
    <3>3. \A t \in Services : op'[t].step = op[t].step /\ op'[t].m = op[t].m
      BY <1>1, <2>4 DEF Operations
    <3>4. OpTyped' BY <3>1, <3>2 DEF OpTyped
    <3>5. Attached' BY <3>1, <3>3 DEF Attached
    <3>6. QED BY <2>1, <2>2, <3>4, <3>5
  <2>5. ASSUME NEW m \in Machines, op' = op,
               job' = [job EXCEPT !.pc = "retire", !.next = "bind", !.m = m,
                                  !.todo = IF vm[m] = "stopped" THEN Phase("ready") ELSE {}]
        PROVE OpTyped' /\ Attached'
    <3>1. PICK T \in SUBSET Services : T = IF vm[m] = "stopped" THEN Phase("ready") ELSE {}
      BY DEF Phase
    <3>2. job' = [job EXCEPT !.pc = "retire", !.next = "bind", !.m = m, !.todo = T]
      BY <2>5, <3>1
    <3>3. job' \in Jobs /\ job'.pc = "retire" /\ job'.m = m BY <1>1, <3>2 DEF Jobs
    <3>4. OpTyped' BY <1>1, <2>5, <3>3 DEF OpTyped
    <3>5. Attached' BY <2>5, <3>3 DEF Attached
    <3>6. QED BY <3>4, <3>5
  <2>6. QED BY <1>3, <2>1, <2>2, <2>3, <2>4, <2>5 DEF Find
<1>4. ASSUME Create PROVE OpTyped' /\ Attached' /\ CredTyped' /\ CountTyped'
  <2>1. vm' \in [Machines -> MachineStates]
    BY <1>4, FreshIn DEF Create, CredTyped, MachineStates
  <2>2. CredTyped' BY <1>2, <1>4, <2>1 DEF Create, CredTyped, authority, actors
  <2>3. CountTyped'
    <3>1. \/ uncertain' = FALSE /\ creates' = 0
          \/ uncertain' = uncertain /\ creates' = creates
      BY <1>4 DEF Create
    <3>2. CASE uncertain' = FALSE /\ creates' = 0
      <4>1. uncertain' \in BOOLEAN BY <3>2
      <4>2. creates' \in Nat BY <3>2
      <4>3. QED BY <4>1, <4>2 DEF CountTyped
    <3>3. CASE uncertain' = uncertain /\ creates' = creates BY <3>3 DEF CountTyped
    <3>4. QED BY <3>1, <3>2, <3>3
  <2>4. CASE Fail(job.s) \/ End BY <1>1, <2>2, <2>3, <2>4, Failed
  <2>5. ASSUME NEW m \in Fresh, job' = [job EXCEPT !.pc = "bind", !.m = m], op' = op
        PROVE OpTyped' /\ Attached'
    <3>1. m \in Machines BY FreshIn
    <3>2. job' \in Jobs BY <2>5, <3>1, JobKept
    <3>3. job'.pc = "bind" /\ job'.m = m BY <1>1, <2>5 DEF Jobs
    <3>4. OpTyped' BY <1>1, <2>5, <3>2 DEF OpTyped
    <3>5. Attached' BY <2>5, <3>1, <3>3 DEF Attached
    <3>6. QED BY <3>4, <3>5
  <2>6. QED BY <1>4, <2>2, <2>3, <2>4, <2>5 DEF Create
<1>5. ASSUME Bind PROVE OpTyped' /\ Attached' /\ CredTyped' /\ CountTyped'
  <2>1. job.m \in Machines BY <1>5 DEF Bind, Attached
  <2>2. CredTyped' BY <1>2, <1>5, <2>1 DEF Bind, CredTyped, provider, actors
  <2>3. PICK o : o = [op[job.s] EXCEPT !.m = job.m, !.step = "credentials"] OBVIOUS
  <2>4. ASSUME job.s \in Services PROVE o \in Operations /\ o.m \in Machines
    <3>1. op[job.s] \in Operations BY <1>1, <2>4
    <3>2. QED BY <2>1, <2>3, <3>1 DEF Operations
  <2>5. Save(job.s, o) BY <1>5, <2>3 DEF Bind
  <2>6. OpTyped' /\ Attached' BY <1>1, <2>4, <2>5, Saved
  <2>7. QED BY <1>5, <2>2, <2>6 DEF Bind, CountTyped
<1>6. QED BY <1>3, <1>4, <1>5

\* Credentials: the row, the secret, the mount, the activation.
LEMMA IssueTyped ==
    ASSUME OpTyped, Attached, CredTyped, StopNew \/ Ensure \/ Secret \/ Mount \/ Activate
    PROVE OpTyped' /\ Attached' /\ CredTyped'
<1>1. op \in [Services -> Operations] /\ job \in Jobs /\ job.s \in Services \cup {None}
  BY JobRefers DEF OpTyped
<1>2. /\ Fault => faults' \in 0..MaxFaults /\ requests' \in 0..MaxRequests
      /\ UNCHANGED counts => faults' \in 0..MaxFaults /\ requests' \in 0..MaxRequests
  BY FaultTyped
<1>3. job.pc \in {"credentials", "secret", "mount", "activate"} => job.m \in Machines
  BY DEF Attached
<1>4. GiveUp => row' \in [Creds -> Rows] /\ OpTyped' /\ Attached'
  BY <1>1, Failed, RowKept DEF GiveUp
<1>5. ASSUME NEW o, Save(job.s, o),
             job.pc \in {"credentials", "activate"},
             \E c \in Creds : o = [op[job.s] EXCEPT !.key = c, !.step = "wake"]
      PROVE OpTyped' /\ Attached'
  <2>1. ASSUME job.s \in Services PROVE o \in Operations /\ o.m \in Machines
    <3>1. op[job.s] \in Operations /\ op[job.s].m \in Machines BY <1>1, <1>5, <2>1 DEF Attached
    <3>2. QED BY <1>5, <3>1 DEF Operations
  <2>2. QED BY <1>1, <1>5, <2>1, Saved
<1>6. ASSUME StopNew PROVE OpTyped' /\ Attached' /\ CredTyped'
  <2>1. vm' \in [Machines -> MachineStates] BY <1>6 DEF StopNew, CredTyped, MachineStates
  <2>2. CredTyped' BY <1>2, <1>6, <2>1 DEF StopNew, CredTyped, authority, actors
  <2>3. QED BY <1>1, <1>6, <2>2, Failed DEF StopNew
<1>7. ASSUME Ensure PROVE OpTyped' /\ Attached' /\ CredTyped'
  <2>1. ASSUME row' \in [Creds -> Rows] PROVE CredTyped'
    BY <1>2, <1>7, <2>1 DEF Ensure, CredTyped, provider, actors
  <2>2. row \in [Creds -> Rows] BY DEF CredTyped
  <2>3. CASE (End \/ Fail(job.s)) /\ row' = row BY <1>1, <2>1, <2>2, <2>3, Failed
  <2>4. CASE /\ Save(job.s, [op[job.s] EXCEPT !.key = CHOOSE c \in Active(job.m) : TRUE, !.step = "wake"])
             /\ Active(job.m) # {} /\ job.pc = "credentials" /\ row' = row
    <3>1. PICK c : c = CHOOSE x \in Active(job.m) : TRUE OBVIOUS
    <3>2. c \in Creds BY <2>4, <3>1 DEF Active
    <3>3. Save(job.s, [op[job.s] EXCEPT !.key = c, !.step = "wake"]) BY <2>4, <3>1
    <3>4. OpTyped' /\ Attached' BY <1>5, <2>4, <3>2, <3>3
    <3>5. QED BY <2>1, <2>2, <2>4, <3>4
  <2>5. ASSUME NEW c \in Unused, Insert(c, job.m), job' = [job EXCEPT !.pc = "secret", !.c = c],
               op' = op, job.pc = "credentials"
        PROVE OpTyped' /\ Attached' /\ CredTyped'
    <3>1. c \in Creds /\ job.m \in Machines BY <1>3, <2>5, FreshIn
    <3>2. row' \in [Creds -> Rows] BY <2>5, <3>1, RowKept
    <3>3. job' \in Jobs BY <2>5, <3>1, JobKept
    <3>4. job'.m = job.m /\ job'.s = job.s /\ job'.c \in Creds BY <1>1, <2>5, <3>1 DEF Jobs
    <3>5. OpTyped' BY <1>1, <2>5, <3>3 DEF OpTyped
    <3>6. Attached' BY <2>5, <3>1, <3>4 DEF Attached
    <3>7. QED BY <2>1, <3>2, <3>5, <3>6
  <2>6. QED BY <1>7, <2>3, <2>4, <2>5 DEF Ensure
<1>8. ASSUME NEW pc \in {"mount", "activate"}, job' = [job EXCEPT !.pc = pc], op' = op,
             job.pc \in {"secret", "mount"}
      PROVE OpTyped' /\ Attached'
  <2>1. job' \in Jobs BY <1>8, JobKept
  <2>2. job'.m = job.m /\ job'.s = job.s /\ job'.c = job.c /\ job'.next = job.next
    BY <1>1, <1>8 DEF Jobs
  <2>3. OpTyped' BY <1>1, <1>8, <2>1 DEF OpTyped
  <2>4. Attached' BY <1>8, <2>2 DEF Attached
  <2>5. QED BY <2>3, <2>4
<1>9. ASSUME Secret PROVE OpTyped' /\ Attached' /\ CredTyped'
  <2>1. secret' \in [Creds -> {"none", "late", "held", "gone"}] BY <1>9 DEF Secret, CredTyped
  <2>2. ASSUME row' \in [Creds -> Rows] PROVE CredTyped'
    BY <1>2, <1>9, <2>1, <2>2 DEF Secret, CredTyped, actors
  <2>3. row \in [Creds -> Rows] BY DEF CredTyped
  <2>4. [row EXCEPT ![job.c].known = TRUE] \in [Creds -> Rows]
    <3>1. CASE job.c \in Creds
      <4>1. [row[job.c] EXCEPT !.known = TRUE] \in Rows BY <2>3, <3>1 DEF Rows
      <4>2. QED BY <2>3, <4>1
    <3>2. CASE job.c \notin Creds
      <4>1. [row EXCEPT ![job.c].known = TRUE] = row BY <2>3, <3>2
      <4>2. QED BY <2>3, <4>1
    <3>3. QED BY <3>1, <3>2
  <2>5. CASE GiveUp BY <1>4, <2>2, <2>5
  <2>6. CASE End /\ row' = row BY <2>2, <2>3, <2>6, Failed
  <2>7. CASE /\ row' = IF row[job.c].state = "pending" THEN [row EXCEPT ![job.c].known = TRUE] ELSE row
             /\ job' = [job EXCEPT !.pc = "mount"] /\ op' = op /\ job.pc = "secret"
    <3>1. row' \in [Creds -> Rows] BY <2>3, <2>4, <2>7
    <3>2. OpTyped' /\ Attached' BY <1>8, <2>7
    <3>3. QED BY <2>2, <3>1, <3>2
  <2>8. QED BY <1>9, <2>5, <2>6, <2>7 DEF Secret
<1>10. ASSUME Mount PROVE OpTyped' /\ Attached' /\ CredTyped'
  <2>1. job.c \in Creds \cup {None} BY <1>1 DEF Jobs
  <2>2. mount' \in [Machines -> Creds \cup {None}] BY <1>10, <2>1 DEF Mount, CredTyped
  <2>3. ASSUME row' \in [Creds -> Rows] PROVE CredTyped'
    BY <1>2, <1>10, <2>2, <2>3 DEF Mount, CredTyped, actors
  <2>4. row \in [Creds -> Rows] BY DEF CredTyped
  <2>5. CASE GiveUp BY <1>4, <2>3, <2>5
  <2>6. CASE End /\ row' = row BY <2>3, <2>4, <2>6, Failed
  <2>7. CASE job' = [job EXCEPT !.pc = "activate"] /\ op' = op /\ row' = row /\ job.pc = "mount"
    BY <1>8, <2>3, <2>4, <2>7
  <2>8. QED BY <1>10, <2>5, <2>6, <2>7 DEF Mount
<1>11. ASSUME Activate PROVE OpTyped' /\ Attached' /\ CredTyped'
  <2>1. ASSUME row' \in [Creds -> Rows] PROVE CredTyped'
    BY <1>2, <1>11, <2>1 DEF Activate, CredTyped, provider, actors
  <2>2. CASE GiveUp BY <1>4, <2>1, <2>2
  <2>3. CASE /\ MayActivate(job.c) /\ row' = [row EXCEPT ![job.c].state = "active"]
             /\ Save(job.s, [op[job.s] EXCEPT !.key = job.c, !.step = "wake"])
    <3>1. job.pc = "activate" BY <1>11 DEF Activate
    <3>2. job.c \in Creds BY <3>1 DEF Attached
    <3>3. row' \in [Creds -> Rows] BY <2>3, <3>2 DEF CredTyped, Rows
    <3>4. OpTyped' /\ Attached' BY <1>5, <2>3, <3>1, <3>2
    <3>5. QED BY <2>1, <3>3, <3>4
  <2>4. QED BY <1>11, <2>2, <2>3 DEF Activate
<1>12. QED BY <1>6, <1>7, <1>9, <1>10, <1>11

\* Wake, the installer, the link.
LEMMA SetUpTyped ==
    ASSUME OpTyped, Attached, CredTyped, Wake \/ StartCall \/ Install \/ Register \/ Publish
    PROVE OpTyped' /\ Attached' /\ CredTyped'
<1>1. op \in [Services -> Operations] /\ job \in Jobs /\ job.s \in Services \cup {None}
  BY JobRefers DEF OpTyped
<1>2. /\ Fault => faults' \in 0..MaxFaults /\ requests' \in 0..MaxRequests
      /\ UNCHANGED counts => faults' \in 0..MaxFaults /\ requests' \in 0..MaxRequests
  BY FaultTyped
<1>3. credVars' = credVars => CredTyped'
  BY <1>2 DEF credVars, CredTyped, provider, authority, actors, counts
<1>4. UNCHANGED <<provider, authority, actors>> /\ (Fault \/ UNCHANGED counts) => CredTyped'
  BY <1>2 DEF CredTyped, provider, authority, actors
<1>5. ASSUME NEW o, Save(job.s, o),
             job.pc \in {"wake", "prepare", "inspect"},
             \E step \in {"prepare", "inspect", "register"} : o = [op[job.s] EXCEPT !.step = step]
      PROVE OpTyped' /\ Attached'
  <2>1. ASSUME job.s \in Services PROVE o \in Operations /\ o.m \in Machines
    <3>1. op[job.s] \in Operations /\ op[job.s].m \in Machines BY <1>1, <1>5, <2>1 DEF Attached
    <3>2. QED BY <1>5, <3>1 DEF Operations
  <2>2. QED BY <1>1, <1>5, <2>1, Saved
<1>6. ASSUME NEW pc \in {"start", "publish"}, job' = [job EXCEPT !.pc = pc],
             job.pc \in {"wake", "register"}, op' \in [Services -> Operations],
             \A t \in Services : op'[t].step = op[t].step /\ op'[t].m = op[t].m
      PROVE OpTyped' /\ Attached'
  <2>1. job' \in Jobs BY <1>6, JobKept
  <2>2. job'.m = job.m /\ job'.next = job.next /\ job'.pc = pc BY <1>1, <1>6 DEF Jobs
  <2>3. OpTyped' BY <1>6, <2>1 DEF OpTyped
  <2>4. Attached' BY <1>6, <2>2 DEF Attached
  <2>5. QED BY <2>3, <2>4
<1>7. ASSUME Ready(job.s) PROVE OpTyped' /\ Attached'
  <2>1. PICK o : o = Settled(op[job.s], "ready") OBVIOUS
  <2>2. ASSUME job.s \in Services
        PROVE o \in Operations /\ (o.step # "discover" => o.m \in Machines)
    <3>1. op[job.s] \in Operations BY <1>1, <2>2
    <3>2. o \in Operations /\ o.step = op[job.s].step /\ o.m = op[job.s].m
      BY <2>1, <3>1 DEF Settled, Operations
    <3>3. QED BY <2>2, <3>2 DEF Attached
  <2>3. Save(job.s, o) BY <1>7, <2>1 DEF Ready
  <2>4. QED BY <1>1, <2>2, <2>3, Saved
<1>8. ASSUME Wake PROVE OpTyped' /\ Attached' /\ CredTyped'
  <2>1. CredTyped' BY <1>3, <1>8 DEF Wake
  <2>2. CASE Save(job.s, [op[job.s] EXCEPT !.step = "prepare"])
    <3>1. job.pc = "wake" BY <1>8 DEF Wake
    <3>2. OpTyped' /\ Attached' BY <1>5, <2>2, <3>1
    <3>3. QED BY <2>1, <3>2
  <2>3. CASE op' = [op EXCEPT ![job.s].woken = TRUE] /\ job' = [job EXCEPT !.pc = "start"]
    <3>1. op' \in [Services -> Operations]
      <4>1. CASE job.s \in Services
        <5>1. op[job.s] \in Operations BY <1>1, <4>1
        <5>2. [op[job.s] EXCEPT !.woken = TRUE] \in Operations BY <5>1 DEF Operations
        <5>3. QED BY <1>1, <2>3, <5>2
      <4>2. CASE job.s \notin Services
        <5>1. op' = op BY <1>1, <2>3, <4>2
        <5>2. QED BY <1>1, <5>1
      <4>3. QED BY <4>1, <4>2
    <3>2. \A t \in Services : op'[t].step = op[t].step /\ op'[t].m = op[t].m
      BY <1>1, <2>3 DEF Operations
    <3>3. job.pc = "wake" BY <1>8 DEF Wake
    <3>4. OpTyped' /\ Attached' BY <1>6, <2>3, <3>1, <3>2, <3>3
    <3>5. QED BY <2>1, <3>4
  <2>4. CASE End BY <2>1, <2>4, Failed
  <2>5. CASE Fail(job.s) BY <1>1, <2>1, <2>5, Failed
  <2>6. QED BY <1>8, <2>2, <2>3, <2>4, <2>5 DEF Wake
<1>9. ASSUME StartCall PROVE OpTyped' /\ Attached' /\ CredTyped'
  <2>1. vm' \in [Machines -> MachineStates]
    BY <1>9 DEF StartCall, Started, CredTyped, MachineStates
  <2>2. CredTyped' BY <1>2, <1>9, <2>1 DEF StartCall, CredTyped, authority, actors
  <2>3. End \/ Fail(job.s) BY <1>9 DEF StartCall
  <2>4. QED BY <1>1, <2>2, <2>3, Failed
<1>10. ASSUME Install PROVE OpTyped' /\ Attached' /\ CredTyped'
  <2>1. CredTyped' BY <1>3, <1>10 DEF Install
  <2>2. End \/ Fail(job.s) => OpTyped' /\ Attached' BY <1>1, Failed
  <2>3. job.pc \in {"prepare", "inspect"} BY <1>10 DEF Install
  <2>4. PICK step \in {"inspect", "register"} :
           step = IF job.pc = "prepare" THEN "inspect" ELSE "register" OBVIOUS
  <2>5. CASE Save(job.s, [op[job.s] EXCEPT !.step = step])
    <3>1. OpTyped' /\ Attached' BY <1>5, <2>3, <2>5
    <3>2. QED BY <2>1, <3>1
  <2>6. QED BY <1>10, <2>1, <2>2, <2>4, <2>5 DEF Install
<1>11. ASSUME Register PROVE OpTyped' /\ Attached' /\ CredTyped'
  <2>1. CredTyped' BY <1>4, <1>11 DEF Register
  <2>2. CASE Fail(job.s) BY <1>1, <2>1, <2>2, Failed
  <2>3. CASE Ready(job.s) BY <1>7, <2>1, <2>3
  <2>4. CASE job' = [job EXCEPT !.pc = "publish"] /\ op' = op
    <3>1. job.pc = "register" BY <1>11 DEF Register
    <3>2. OpTyped' /\ Attached' BY <1>1, <1>6, <2>4, <3>1
    <3>3. QED BY <2>1, <3>2
  <2>5. QED BY <1>11, <2>2, <2>3, <2>4 DEF Register
<1>12. ASSUME Publish PROVE OpTyped' /\ Attached' /\ CredTyped'
  <2>1. CredTyped' BY <1>4, <1>12 DEF Publish
  <2>2. CASE Fail(job.s) BY <1>1, <2>1, <2>2, Failed
  <2>3. CASE Ready(job.s) BY <1>7, <2>1, <2>3
  <2>4. QED BY <1>12, <2>2, <2>3 DEF Publish
<1>13. QED BY <1>8, <1>9, <1>10, <1>11, <1>12

\* Time, and what goes on over links.
LinkStep(s) == \/ SetupEnds(s) \/ LinkEnds(s) \/ Dial(s) \/ Recheck(s) \/ Join(s)
               \/ SweepSockets(s) \/ CronUnlink(s) \/ CronSync(s)

LEMMA TimeTyped ==
    ASSUME OpTyped, Attached, CredTyped, NEW s \in Services, LinkStep(s)
    PROVE OpTyped' /\ Attached' /\ CredTyped'
<1>1. op \in [Services -> Operations] /\ job \in Jobs /\ op[s] \in Operations BY DEF OpTyped
<1>3. credVars' = credVars => CredTyped'
  BY FaultTyped DEF credVars, CredTyped, provider, authority, actors, counts
<1>4. ASSUME SetupEnds(s) \/ LinkEnds(s) PROVE OpTyped' /\ Attached' /\ CredTyped'
  <2>1. CredTyped' /\ job' = job BY <1>3, <1>4 DEF SetupEnds, LinkEnds
  <2>2. op' = [op EXCEPT ![s].late = TRUE] \/ op' = [op EXCEPT ![s].dead = TRUE]
    BY <1>4 DEF SetupEnds, LinkEnds
  <2>3. op' \in [Services -> Operations]
    <3>1. [op[s] EXCEPT !.late = TRUE] \in Operations /\ [op[s] EXCEPT !.dead = TRUE] \in Operations
      BY <1>1 DEF Operations
    <3>2. QED BY <1>1, <2>2, <3>1
  <2>4. \A t \in Services : op'[t].step = op[t].step /\ op'[t].m = op[t].m
    BY <1>1, <2>2 DEF Operations
  <2>5. OpTyped' BY <1>1, <2>1, <2>3 DEF OpTyped
  <2>6. job.s' = job.s /\ job.pc' = job.pc BY <2>1
  <2>7. Attached' BY <2>1, <2>4 DEF Attached
  <2>8. QED BY <2>1, <2>5, <2>7
<1>5. ASSUME op' = op, job' = job PROVE OpTyped' /\ Attached'
  BY <1>5 DEF OpTyped, Attached
<1>6. ASSUME Dial(s) PROVE OpTyped' /\ Attached' /\ CredTyped'
  <2>1. faults' \in 0..MaxFaults /\ requests' \in 0..MaxRequests BY <1>6, FaultTyped DEF Dial
  <2>2. CredTyped' BY <1>6, <2>1 DEF Dial, CredTyped, provider, authority, actors
  <2>3. op' = op /\ job' = job BY <1>6 DEF Dial, stored
  <2>4. QED BY <1>5, <2>2, <2>3
<1>7. ASSUME Recheck(s) \/ Join(s) \/ SweepSockets(s) \/ CronUnlink(s) \/ CronSync(s)
      PROVE OpTyped' /\ Attached' /\ CredTyped'
  <2>1. op' = op /\ job' = job BY <1>7 DEF Recheck, Join, SweepSockets, CronUnlink, CronSync, stored
  <2>2. CredTyped' BY <1>3, <1>7 DEF Recheck, Join, SweepSockets, CronUnlink, CronSync
  <2>3. QED BY <1>5, <2>1, <2>2
<1>8. QED BY <1>4, <1>6, <1>7 DEF LinkStep

LEMMA CountKept ==
    ASSUME CountTyped, UNCHANGED <<uncertain, creates>> PROVE CountTyped'
BY DEF CountTyped

LEMMA UnlinkedTyped ==
    ASSUME LinkTyped, NEW s, over' = over, Unlinked(s) \/ (Flushed(s) /\ reg' = reg /\ hand' = hand)
    PROVE LinkTyped'
<1>1. ASSUME Unlinked(s) PROVE LinkTyped'
  <2>1. reg' \in [Services -> Creds \cup {None}] BY <1>1 DEF Unlinked, LinkTyped
  <2>2. pending' \in [Services -> BOOLEAN]
    <3>1. CASE s \in Services
      <4>1. PICK b \in BOOLEAN : b = (pending[s] \/ reg[s] # None) OBVIOUS
      <4>2. pending' = [pending EXCEPT ![s] = b] BY <1>1, <3>1, <4>1 DEF Unlinked, LinkTyped
      <4>3. QED BY <4>2 DEF LinkTyped
    <3>2. CASE s \notin Services
      <4>1. pending' = pending BY <1>1, <3>2 DEF Unlinked, LinkTyped
      <4>2. QED BY <4>1 DEF LinkTyped
    <3>3. QED BY <3>1, <3>2
  <2>3. hand' \in [Services -> {"none", "dial", "join", "dialOld", "joinOld"}]
    BY <1>1 DEF Unlinked, LinkTyped, Aged
  <2>4. sock' \in [Services -> SUBSET {"current", "old"}] BY <1>1 DEF Unlinked, LinkTyped
  <2>5. QED BY <2>1, <2>2, <2>3, <2>4 DEF LinkTyped
<1>2. ASSUME Flushed(s), reg' = reg, hand' = hand PROVE LinkTyped'
  <2>1. pending' \in [Services -> BOOLEAN] BY <1>2 DEF Flushed, LinkTyped
  <2>2. sock' \in [Services -> SUBSET {"current", "old"}] BY <1>2 DEF Flushed, Synced, LinkTyped
  <2>3. QED BY <1>2, <2>1, <2>2 DEF LinkTyped
<1>3. QED BY <1>1, <1>2

LEMMA LinksKept ==
    ASSUME LinkTyped, UNCHANGED links PROVE LinkTyped'
BY DEF LinkTyped, links

LEMMA LinksTyped ==
    ASSUME LinkTyped, OpTyped, CountTyped,
           Unlink \/ Sync \/ Register \/ Publish \/ \E s \in Services : LinkStep(s)
    PROVE LinkTyped' /\ CountTyped'
<1>1. CASE Unlink
  BY <1>1, UnlinkedTyped, CountKept DEF Unlink, stored
<1>2. CASE Sync
  BY <1>2, UnlinkedTyped, CountKept DEF Sync
<1>3. CASE Publish
  BY <1>3, UnlinkedTyped, LinksKept, CountKept DEF Publish, links
<1>4. CASE Register
  <2>1. CountTyped' BY <1>4, CountKept DEF Register
  <2>2. CASE UNCHANGED links BY <2>1, <2>2, LinksKept
  <2>3. CASE /\ reg' = [reg EXCEPT ![job.s] = op[job.s].key] /\ over' = [over EXCEPT ![job.s] = FALSE]
             /\ UNCHANGED <<pending, hand, sock>>
    <3>1. job.s \in Services => op[job.s].key \in Creds \cup {None} BY JobRefers
    <3>2. reg' \in [Services -> Creds \cup {None}] BY <2>3, <3>1 DEF LinkTyped
    <3>3. over' \in [Services -> BOOLEAN] BY <2>3 DEF LinkTyped
    <3>4. QED BY <2>1, <2>3, <3>2, <3>3 DEF LinkTyped
  <2>4. QED BY <1>4, <2>2, <2>3 DEF Register
<1>5. ASSUME NEW s \in Services, LinkStep(s) PROVE LinkTyped' /\ CountTyped'
  <2>1. CountTyped'
    BY <1>5, CountKept DEF LinkStep, SetupEnds, LinkEnds, Dial, Recheck, Join, SweepSockets,
                           CronUnlink, CronSync, stored
  <2>2. CASE SetupEnds(s) BY <2>1, <2>2, LinksKept DEF SetupEnds
  <2>3. CASE LinkEnds(s)
    <3>1. over' \in [Services -> BOOLEAN] BY <2>3 DEF LinkEnds, LinkTyped
    <3>2. QED BY <2>1, <2>3, <3>1 DEF LinkEnds, LinkTyped
  <2>4. CASE Dial(s) BY <2>1, <2>4 DEF Dial, LinkTyped
  <2>5. CASE Recheck(s) BY <2>1, <2>5 DEF Recheck, LinkTyped
  <2>6. CASE Join(s) BY <2>1, <2>6 DEF Join, LinkTyped
  <2>7. CASE SweepSockets(s) BY <2>1, <2>7 DEF SweepSockets, LinkTyped
  <2>8. CASE CronUnlink(s) BY <2>1, <2>8, UnlinkedTyped DEF CronUnlink
  <2>9. CASE CronSync(s) BY <2>1, <2>9, UnlinkedTyped DEF CronSync
  <2>10. QED BY <1>5, <2>2, <2>3, <2>4, <2>5, <2>6, <2>7, <2>8, <2>9 DEF LinkStep
<1>6. QED BY <1>1, <1>2, <1>3, <1>4, <1>5

-----------------------------------------------------------------------------
(* The steps by what they may change, and the preservation of the types. *)
Asks == (\E s \in Services : Start(s) \/ Stop(s)) \/ AccessRevoke \/ RotateFails \/ WakeExisting
Retires == RetireNext \/ RevokeFails \/ StopClean \/ StopCleanLater \/ Evict
Issues == StopNew \/ Ensure \/ Secret \/ Mount \/ Activate

LEMMA Steps ==
    ASSUME Next
    PROVE \/ World /\ UNCHANGED browserVars
          \/ \E c \in Creds : Age(c) /\ UNCHANGED browserVars
          \/ Asks \/ Retires \/ Issues
          \/ Find \/ Create \/ Bind
          \/ Wake \/ StartCall \/ Install
          \/ \E s \in Services : Advance(s)
          \/ Unlink \/ Sync \/ Register \/ Publish
          \/ \E s \in Services : LinkStep(s)
BY DEF Next, Work, Asks, Retires, Issues, LinkStep

LEMMA WorldTyped ==
    ASSUME CredTyped, World \/ \E c \in Creds : Age(c)
    PROVE CredTyped'
BY ProviderTyped, ApiTyped, DeleteTyped, CleanTyped DEF World, Age

LEMMA LinksStay ==
    ASSUME \/ Asks \/ Retires \/ Issues \/ Wake \/ StartCall \/ Install
           \/ \E s \in Services : Advance(s)
    PROVE UNCHANGED <<links, uncertain, creates>>
<1>1. Asks => UNCHANGED <<links, uncertain, creates>>
  BY DEF Asks, Start, Stop, AccessRevoke, RotateFails, WakeExisting, stored
<1>2. Retires => UNCHANGED <<links, uncertain, creates>>
  BY DEF Retires, RetireNext, RevokeFails, StopClean, StopCleanLater, Evict, stored
<1>3. Issues => UNCHANGED <<links, uncertain, creates>>
  BY DEF Issues, StopNew, Ensure, Secret, Mount, Activate
<1>4. Wake \/ StartCall \/ Install => UNCHANGED <<links, uncertain, creates>>
  BY DEF Wake, StartCall, Install
<1>5. (\E s \in Services : Advance(s)) => UNCHANGED <<links, uncertain, creates>>
  BY DEF Advance
<1>6. QED BY <1>1, <1>2, <1>3, <1>4, <1>5

LEMMA TypedNext ==
    ASSUME Typed, Next
    PROVE Typed'
<1>1. OpTyped /\ Attached /\ CredTyped /\ LinkTyped /\ CountTyped BY TypesAre DEF Typed
<1>2. SUFFICES OpTyped' /\ Attached' /\ CredTyped' /\ LinkTyped' /\ CountTyped'
  BY TypesAre, PTL DEF Typed
<1>3. ASSUME World \/ (\E c \in Creds : Age(c)), UNCHANGED browserVars
      PROVE OpTyped' /\ Attached' /\ CredTyped' /\ LinkTyped' /\ CountTyped'
  <2>1. CredTyped' BY <1>1, <1>3, WorldTyped
  <2>2. op' = op /\ job' = job /\ UNCHANGED <<links, uncertain, creates>>
    BY <1>3 DEF browserVars, stored
  <2>3. LinkTyped' /\ CountTyped' BY <1>1, <2>2, LinksKept, CountKept
  <2>4. QED BY <1>1, <2>1, <2>2, <2>3 DEF OpTyped, Attached
<1>4. ASSUME Asks \/ Retires \/ Issues \/ Wake \/ StartCall \/ Install
             \/ \E s \in Services : Advance(s)
      PROVE OpTyped' /\ Attached' /\ CredTyped' /\ LinkTyped' /\ CountTyped'
  <2>1. UNCHANGED <<links, uncertain, creates>> BY <1>4, LinksStay
  <2>2. LinkTyped' /\ CountTyped' BY <1>1, <2>1, LinksKept, CountKept
  <2>3. Asks => OpTyped' /\ Attached' /\ CredTyped' BY <1>1, AskedTyped DEF Asks
  <2>4. Retires => OpTyped' /\ Attached' /\ CredTyped' BY <1>1, RetiringTyped DEF Retires
  <2>5. Issues => OpTyped' /\ Attached' /\ CredTyped' BY <1>1, IssueTyped DEF Issues
  <2>6. Wake \/ StartCall \/ Install => OpTyped' /\ Attached' /\ CredTyped' BY <1>1, SetUpTyped
  <2>7. ASSUME NEW s \in Services, Advance(s) PROVE OpTyped' /\ Attached' /\ CredTyped'
    <3>1. OpTyped' /\ Attached' BY <1>1, <2>7, AdvanceTyped
    <3>2. credVars' = credVars BY <2>7 DEF Advance
    <3>3. QED BY <1>1, <3>1, <3>2, FaultTyped
          DEF credVars, CredTyped, provider, authority, actors, counts
  <2>8. QED BY <1>4, <2>2, <2>3, <2>4, <2>5, <2>6, <2>7
<1>5. ASSUME Find \/ Create \/ Bind
      PROVE OpTyped' /\ Attached' /\ CredTyped' /\ LinkTyped' /\ CountTyped'
  <2>1. UNCHANGED links BY <1>5 DEF Find, Create, Bind
  <2>2. QED BY <1>1, <1>5, <2>1, LinksKept, DiscoverTyped
<1>6. ASSUME Unlink \/ Sync \/ Register \/ Publish
      PROVE OpTyped' /\ Attached' /\ CredTyped' /\ LinkTyped' /\ CountTyped'
  <2>1. LinkTyped' /\ CountTyped' BY <1>1, <1>6, LinksTyped
  <2>2. Unlink \/ Sync => OpTyped' /\ Attached' /\ CredTyped' BY <1>1, RetiringTyped
  <2>3. Register \/ Publish => OpTyped' /\ Attached' /\ CredTyped' BY <1>1, SetUpTyped
  <2>4. QED BY <1>6, <2>1, <2>2, <2>3
<1>7. ASSUME NEW s \in Services, LinkStep(s)
      PROVE OpTyped' /\ Attached' /\ CredTyped' /\ LinkTyped' /\ CountTyped'
  BY <1>1, <1>7, LinksTyped, TimeTyped
<1>8. QED BY <1>3, <1>4, <1>5, <1>6, <1>7, Steps

-----------------------------------------------------------------------------
(* A create in doubt. *)

LEMMA CreatingNext ==
    ASSUME Typed, Creating, Next
    PROVE Creating'
<1>1. CountTyped BY TypesAre DEF Typed
<1>2. creates \in Nat /\ creates <= 1 /\ (uncertain \/ creates = 0)
  BY <1>1 DEF Creating, InDoubt, CreatedOnce, CountTyped
<1>3. ASSUME UNCHANGED <<uncertain, creates>> PROVE Creating'
  BY <1>3 DEF Creating, InDoubt, CreatedOnce
<1>4. ASSUME uncertain' = FALSE, creates' = 0 PROVE Creating'
  BY <1>4 DEF Creating, InDoubt, CreatedOnce
<1>5. ASSUME Find PROVE Creating'
  <2>1. CASE UNCHANGED <<uncertain, creates>> BY <1>3, <2>1
  <2>2. CASE uncertain' = FALSE /\ creates' = 0 BY <1>4, <2>2
  <2>3. CASE uncertain' = (uncertain \/ job.s \notin Attaching) /\ MayCreate(job.s) /\ creates' = creates + 1
    <3>1. job.s \notin Attaching /\ ~uncertain BY <2>3 DEF MayCreate
    <3>2. creates = 0 BY <1>2, <3>1, Zenon
    <3>3. creates' = 1 BY <2>3, <3>2
    <3>4. uncertain' BY <2>3, <3>1, Zenon
    <3>5. CreatedOnce' BY <3>3 DEF CreatedOnce
    <3>6. QED BY <3>4, <3>5, Zenon DEF Creating, InDoubt
  <2>4. CASE uncertain' = (uncertain \/ job.s \notin Attaching) /\ creates' = creates
    <3>1. uncertain => uncertain' BY <2>4
    <3>2. QED BY <1>2, <2>4, <3>1 DEF Creating, InDoubt, CreatedOnce
  <2>5. QED BY <1>5, <2>1, <2>2, <2>3, <2>4 DEF Find
<1>6. ASSUME Create PROVE Creating'
  BY <1>3, <1>4, <1>6 DEF Create
<1>7. Bind \/ Unlink \/ Sync \/ Register \/ Publish => UNCHANGED <<uncertain, creates>>
  BY DEF Bind, Unlink, Sync, Register, Publish, stored
<1>8. (\E s \in Services : LinkStep(s)) => UNCHANGED <<uncertain, creates>>
  BY DEF LinkStep, SetupEnds, LinkEnds, Dial, Recheck, Join, SweepSockets,
         CronUnlink, CronSync, stored
<1>9. UNCHANGED browserVars => UNCHANGED <<uncertain, creates>> BY DEF browserVars, stored
<1>10. QED BY <1>3, <1>5, <1>6, <1>7, <1>8, <1>9, LinksStay, Steps

-----------------------------------------------------------------------------
(* Access. *)

\* Without a change to a link: nothing else calls an operation invalidated or
\* goes to the steps that rely on what was unlinked or opened.
Cleared(s) == op[s].phase \in Retired /\ op[s].invalidated
LEMMA AccessKept ==
    ASSUME Access, UNCHANGED <<reg, pending, hand, sock>>,
           \A s \in Services : Cleared(s)' => Cleared(s),
           job'.pc = "sync" => job'.pc = job.pc /\ job'.r = job.r,
           job'.pc = "register" => job'.s \in Services /\ op'[job'.s].phase = "opening"
                                                       /\ op'[job'.s].key \in Creds
    PROVE Access'
<1>1. Linked' BY DEF Access, Linked
<1>2. AccessRevoked' BY DEF Access, AccessRevoked, Cleared
<1>3. QED BY <1>1, <1>2 DEF Access

LEMMA AccessForms ==
    ASSUME OpTyped, Access, UNCHANGED <<reg, pending, hand, sock>>
    PROVE /\ \A s \in Services \cup {None}, phase \in Retired : Retire(s, phase) => Access'
          /\ \A s \in Services : RetireSibling(s) => Access'
          /\ \A s \in Services \cup {None} : Fail(s) => Access'
          /\ End => Access'
          /\ \A s \in Services \cup {None} : \A o :
                Save(s, o) /\ (s \in Services =>
                    (o.phase \in Retired /\ o.invalidated => Cleared(s))) => Access'
          /\ job'.pc \notin {"sync", "register"} /\ op' = op => Access'
<1>1. op \in [Services -> Operations] /\ job \in Jobs BY DEF OpTyped
<1>2. NoJob.pc = "idle" BY DEF NoJob
<1>3. ASSUME NEW s \in Services \cup {None}, NEW phase, op' = Phased(s, phase), job'.pc = "unlink"
      PROVE Access'
  <2>1. ASSUME NEW t \in Services, Cleared(t)' PROVE Cleared(t)
    <3>1. CASE t = s
      <4>1. op'[t].invalidated = FALSE BY <1>1, <1>3, <3>1 DEF Phased, Settled, Operations
      <4>2. QED BY <2>1, <4>1 DEF Cleared
    <3>2. CASE t # s
      <4>1. op'[t] = op[t] BY <1>1, <1>3, <3>2 DEF Phased
      <4>2. QED BY <2>1, <4>1 DEF Cleared
    <3>3. QED BY <3>1, <3>2
  <2>2. QED BY <1>3, <2>1, AccessKept
<1>4. ASSUME NEW s \in Services \cup {None}, NEW phase \in Retired, Retire(s, phase) PROVE Access'
  BY <1>3, <1>4 DEF Retire, NoJob
<1>5. ASSUME NEW s \in Services, RetireSibling(s) PROVE Access'
  <2>1. op' = Phased(s, "stopped") /\ job'.pc = "unlink" BY <1>1, <1>5 DEF RetireSibling, Jobs
  <2>2. QED BY <1>3, <2>1
<1>6. ASSUME NEW s \in Services \cup {None}, Fail(s) PROVE Access'
  BY <1>4, <1>6 DEF Fail, Retired
<1>7. ASSUME End PROVE Access'
  BY <1>2, <1>7, AccessKept DEF End, Cleared
<1>8. ASSUME NEW s \in Services \cup {None}, NEW o, Save(s, o),
             s \in Services => (o.phase \in Retired /\ o.invalidated => Cleared(s))
      PROVE Access'
  <2>1. ASSUME NEW t \in Services, Cleared(t)' PROVE Cleared(t)
    <3>1. CASE t = s
      <4>1. op'[t] = o BY <1>1, <1>8, <3>1 DEF Save
      <4>2. QED BY <1>8, <2>1, <3>1, <4>1 DEF Cleared
    <3>2. CASE t # s
      <4>1. op'[t] = op[t] BY <1>1, <1>8, <3>2 DEF Save
      <4>2. QED BY <2>1, <4>1 DEF Cleared
    <3>3. QED BY <3>1, <3>2
  <2>2. job'.pc = "idle" BY <1>2, <1>8 DEF Save
  <2>3. QED BY <2>1, <2>2, AccessKept
<1>9. ASSUME job'.pc \notin {"sync", "register"}, op' = op PROVE Access'
  BY <1>9, AccessKept DEF Cleared
<1>10. QED BY <1>4, <1>5, <1>6, <1>7, <1>8, <1>9

\* Where a job goes from a retirement.
LEMMA AfterGoes ==
    ASSUME OpTyped, NEW todo, job' = After(todo)
    PROVE job'.pc \in {"idle", "retire", "find", "bind", "start", "clean"}
<1>1. job \in Jobs BY DEF OpTyped
<1>2. CASE job' = NoJob BY <1>2 DEF NoJob
<1>3. CASE job' = [job EXCEPT !.pc = "retire"] BY <1>1, <1>3 DEF Jobs
<1>4. CASE job' = [job EXCEPT !.pc = job.next] /\ job.next # "end" BY <1>1, <1>4 DEF Jobs
<1>5. QED BY <1>2, <1>3, <1>4 DEF After

LEMMA StopWorkAccess ==
    ASSUME OpTyped, Access, NEW s \in Services, NEW by, StopWork(s, by),
           UNCHANGED <<reg, pending, hand, sock>>
    PROVE Access'
<1>1. op \in [Services -> Operations] /\ job \in Jobs /\ op[s] \in Operations BY DEF OpTyped
<1>2. PICK quiet : quiet = (op[s].phase = "stopped" /\ op[s].invalidated) OBVIOUS
<1>3. PICK o : o = [Settled(op[s], "stopped") EXCEPT
                      !.invalidated = quiet, !.cleanup = op[s].cleanup \/ op[s].phase # "stopped"]
  OBVIOUS
<1>4. op' = [op EXCEPT ![s] = o] BY <1>2, <1>3 DEF StopWork
<1>5. o.invalidated = quiet BY <1>1, <1>3 DEF Operations, Settled
<1>6. job'.pc \in {"clean", "unlink"} BY DEF StopWork, NoJob
<1>7. ASSUME NEW t \in Services, Cleared(t)' PROVE Cleared(t)
  <2>1. CASE t = s
    <3>1. op'[t].invalidated = quiet BY <1>1, <1>4, <1>5, <2>1
    <3>2. quiet BY <1>7, <3>1 DEF Cleared
    <3>3. op[s].phase = "stopped" /\ op[s].invalidated BY <1>2, <3>2
    <3>4. QED BY <2>1, <3>3 DEF Cleared, Retired
  <2>2. CASE t # s
    <3>1. op'[t] = op[t] BY <1>1, <1>4, <2>2
    <3>2. QED BY <1>7, <3>1 DEF Cleared
  <2>3. QED BY <2>1, <2>2
<1>8. QED BY <1>6, <1>7, AccessKept

\* Requests, retirement, credentials and the steps of setup before the link.
LEMMA AccessStays ==
    ASSUME OpTyped, Access,
           \/ Asks \/ Retires \/ Issues \/ Wake \/ StartCall \/ Install \/ Find \/ Create \/ Bind
    PROVE Access'
<1>1. op \in [Services -> Operations] /\ job \in Jobs /\ job.s \in Services \cup {None}
  BY JobRefers DEF OpTyped
<1>2. UNCHANGED <<reg, pending, hand, sock>>
  <2>1. UNCHANGED links BY LinksStay DEF Find, Create, Bind
  <2>2. QED BY <2>1 DEF links
<1>3. /\ Fail(job.s) \/ End => Access'
      /\ \A o : Save(job.s, o) /\ (job.s \in Services =>
                    (o.phase \in Retired /\ o.invalidated => Cleared(job.s))) => Access'
      /\ job'.pc \notin {"sync", "register"} /\ op' = op => Access'
  BY <1>1, <1>2, AccessForms
<1>4. ASSUME NEW pc \in {"mount", "activate", "secret", "create", "bind", "start", "retire"},
             op' = op, \/ job' = [job EXCEPT !.pc = pc]
                       \/ \E c : job' = [job EXCEPT !.pc = pc, !.c = c]
                       \/ \E m : job' = [job EXCEPT !.pc = pc, !.m = m]
      PROVE Access'
  <2>1. job'.pc = pc BY <1>1, <1>4 DEF Jobs
  <2>2. QED BY <1>3, <1>4, <2>1
<1>5. ASSUME NEW pc \in {"create", "start"}, job' = [job EXCEPT !.pc = pc],
             \A s \in Services : op'[s].phase = op[s].phase /\ op'[s].invalidated = op[s].invalidated
      PROVE Access'
  <2>1. job'.pc = pc BY <1>1, <1>5 DEF Jobs
  <2>2. QED BY <1>2, <1>5, <2>1, AccessKept DEF Cleared
<1>6. ASSUME NEW o, Save(job.s, o),
             job.s \in Services => o.phase = op[job.s].phase /\ o.invalidated = op[job.s].invalidated
      PROVE Access'
  BY <1>3, <1>6 DEF Cleared
<1>7. job.s \in Services => op[job.s] \in Operations BY <1>1
<1>8. ASSUME Asks PROVE Access'
  <2>1. ASSUME NEW s \in Services, Start(s) PROVE Access'
    <3>1. job'.pc = "idle" /\ op' = [op EXCEPT ![s] = NewOp] BY <2>1 DEF Start, Asked, NoJob
    <3>2. \A t \in Services : Cleared(t)' => Cleared(t)
      BY <1>1, <3>1 DEF Cleared, NewOp, NoOp, Retired
    <3>3. QED BY <1>2, <3>1, <3>2, AccessKept
  <2>2. ASSUME NEW s \in Services, Stop(s) PROVE Access'
    BY <1>2, <2>2, StopWorkAccess DEF Stop
  <2>3. ASSUME AccessRevoke \/ WakeExisting PROVE Access'
    <3>1. job'.pc = "retire" /\ op' = op BY <2>3 DEF AccessRevoke, WakeExisting, NoJob, stored
    <3>2. QED BY <1>3, <3>1
  <2>4. ASSUME RotateFails PROVE Access'
    <3>1. job'.pc = "idle" /\ op' = op BY <2>4 DEF RotateFails, Asked, NoJob, stored
    <3>2. QED BY <1>3, <3>1
  <2>5. QED BY <1>8, <2>1, <2>2, <2>3, <2>4 DEF Asks
<1>9. ASSUME Retires PROVE Access'
  <2>1. ASSUME NEW todo, job' = After(todo), op' = op PROVE Access'
    BY <1>3, <2>1, AfterGoes
  <2>2. CASE RetireNext
    <3>1. ASSUME NEW s \in job.todo, RetireSibling(s) PROVE Access'
      <4>1. s \in Services BY <1>1 DEF Jobs
      <4>2. QED BY <1>2, <3>1, <4>1, AccessForms
    <3>2. QED BY <2>1, <2>2, <3>1 DEF RetireNext
  <2>3. CASE RevokeFails
    <3>1. job' = NoJob /\ op' = op => End BY DEF End
    <3>2. QED BY <1>3, <2>1, <2>3, <3>1 DEF RevokeFails
  <2>4. CASE StopClean
    <3>1. job.r \in Services \cup {None} BY JobRefers
    <3>2. PICK o : o = [op[job.r] EXCEPT !.cleanup = FALSE] OBVIOUS
    <3>3. ASSUME job.r \in Services
          PROVE o.phase = op[job.r].phase /\ o.invalidated = op[job.r].invalidated
      <4>1. op[job.r] \in Operations BY <1>1, <3>3
      <4>2. QED BY <3>2, <4>1 DEF Operations
    <3>4. Save(job.r, o) BY <2>4, <3>2 DEF StopClean
    <3>5. job.r \in Services => (o.phase \in Retired /\ o.invalidated => Cleared(job.r))
      BY <3>3 DEF Cleared
    <3>6. QED BY <1>2, <3>1, <3>4, <3>5, AccessForms
  <2>5. CASE StopCleanLater \/ Evict
    <3>1. End BY <2>5 DEF StopCleanLater, Evict, End, stored
    <3>2. QED BY <1>3, <3>1
  <2>6. QED BY <1>9, <2>2, <2>3, <2>4, <2>5 DEF Retires
<1>10. ASSUME Issues PROVE Access'
  <2>1. CASE StopNew BY <1>3, <2>1 DEF StopNew
  <2>2. ASSUME NEW c, Save(job.s, [op[job.s] EXCEPT !.key = c, !.step = "wake"]) PROVE Access'
    <3>1. PICK o : o = [op[job.s] EXCEPT !.key = c, !.step = "wake"] OBVIOUS
    <3>2. job.s \in Services => o.phase = op[job.s].phase /\ o.invalidated = op[job.s].invalidated
      BY <1>7, <3>1 DEF Operations
    <3>3. Save(job.s, o) BY <2>2, <3>1
    <3>4. QED BY <1>6, <3>2, <3>3
  <2>3. CASE Ensure BY <1>3, <1>4, <2>2, <2>3 DEF Ensure
  <2>4. GiveUp => Access' BY <1>3 DEF GiveUp
  <2>5. CASE Secret BY <1>3, <1>4, <2>4, <2>5 DEF Secret
  <2>6. CASE Mount BY <1>3, <1>4, <2>4, <2>6 DEF Mount
  <2>7. CASE Activate BY <2>2, <2>4, <2>7 DEF Activate
  <2>8. QED BY <1>10, <2>1, <2>3, <2>5, <2>6, <2>7 DEF Issues
<1>11. ASSUME NEW step, Save(job.s, [op[job.s] EXCEPT !.step = step]) PROVE Access'
  <2>1. PICK o : o = [op[job.s] EXCEPT !.step = step] OBVIOUS
  <2>2. job.s \in Services => o.phase = op[job.s].phase /\ o.invalidated = op[job.s].invalidated
    BY <1>7, <2>1 DEF Operations
  <2>3. Save(job.s, o) BY <1>11, <2>1
  <2>4. QED BY <1>6, <2>2, <2>3
<1>12. CASE Wake
  <2>1. CASE op' = [op EXCEPT ![job.s].woken = TRUE] /\ job' = [job EXCEPT !.pc = "start"]
    <3>1. \A s \in Services : op'[s].phase = op[s].phase /\ op'[s].invalidated = op[s].invalidated
      BY <1>1, <2>1 DEF Operations
    <3>2. QED BY <1>5, <2>1, <3>1
  <2>2. QED BY <1>3, <1>11, <1>12, <2>1 DEF Wake
<1>13. CASE StartCall BY <1>3, <1>13 DEF StartCall
<1>14. CASE Install BY <1>3, <1>11, <1>14 DEF Install
<1>15. CASE Find
  <2>1. CASE op' = [op EXCEPT ![job.s].tried = TRUE] /\ job' = [job EXCEPT !.pc = "create"]
    <3>1. \A s \in Services : op'[s].phase = op[s].phase /\ op'[s].invalidated = op[s].invalidated
      BY <1>1, <2>1 DEF Operations
    <3>2. QED BY <1>5, <2>1, <3>1
  <2>2. ASSUME NEW m, NEW todo, op' = op,
               job' = [job EXCEPT !.pc = "retire", !.next = "bind", !.m = m, !.todo = todo]
        PROVE Access'
    <3>1. job'.pc = "retire" BY <1>1, <2>2 DEF Jobs
    <3>2. QED BY <1>3, <2>2, <3>1
  <2>3. QED BY <1>3, <1>15, <2>1, <2>2 DEF Find
<1>16. CASE Create BY <1>3, <1>4, <1>16 DEF Create
<1>17. CASE Bind
  <2>1. PICK o : o = [op[job.s] EXCEPT !.m = job.m, !.step = "credentials"] OBVIOUS
  <2>2. job.s \in Services => o.phase = op[job.s].phase /\ o.invalidated = op[job.s].invalidated
    BY <1>7, <2>1 DEF Operations
  <2>3. Save(job.s, o) BY <1>17, <2>1 DEF Bind
  <2>4. QED BY <1>6, <2>2, <2>3
<1>18. QED BY <1>8, <1>9, <1>10, <1>12, <1>13, <1>14, <1>15, <1>16, <1>17

LEMMA AdvanceAccess ==
    ASSUME OpTyped, Access, NEW s \in Services, Advance(s)
    PROVE Access'
<1>1. op \in [Services -> Operations] /\ s \in Services \cup {None} /\ op[s] \in Operations
  BY DEF OpTyped
<1>2. UNCHANGED <<reg, pending, hand, sock>> BY DEF Advance, links
<1>3. StopWork(s, s) => Access' BY <1>2, StopWorkAccess
<1>4. Fail(s) => Access' BY <1>1, <1>2, AccessForms
<1>5. \A phase \in Retired : Retire(s, phase) => Access' BY <1>1, <1>2, AccessForms
<1>6. ASSUME job' = [NoJob EXCEPT !.pc = "unlink", !.s = s, !.r = s, !.next = "find"], op' = op
      PROVE Access'
  <2>1. job'.pc = "unlink" BY <1>6 DEF NoJob
  <2>2. QED BY <1>1, <1>2, <1>6, <2>1, AccessForms
<1>7. ASSUME op[s].step = "register" => Active(op[s].m) = {op[s].key},
             ~op[s].dead, op[s].phase \notin Retired, Due(s), op' = op,
             job' = [NoJob EXCEPT !.pc = op[s].step, !.s = s, !.m = op[s].m, !.seen = vm[op[s].m],
                                  !.c = IF Active(op[s].m) = {} THEN None ELSE op[s].key]
      PROVE Access'
  <2>1. op[s].phase = "opening" BY <1>7 DEF Due
  <2>2. job'.pc = op[s].step /\ job'.s = s BY <1>7 DEF NoJob
  <2>3. op[s].step # "sync" BY <1>1 DEF Operations
  <2>4. op[s].step = "register" => op[s].key \in Creds BY <1>7 DEF Active
  <2>5. QED BY <1>2, <1>7, <2>1, <2>2, <2>3, <2>4, AccessKept DEF Cleared
<1>8. Retired = {"failed", "expired", "stopped"} BY DEF Retired
<1>9. QED BY <1>3, <1>4, <1>5, <1>6, <1>7, <1>8 DEF Advance

\* An origin is retired with what goes on over it.
LEMMA UnlinkedAccess ==
    ASSUME LinkTyped, OpTyped, Access, NEW s, Unlinked(s), op' = op,
           \/ job' = job
           \/ job'.pc = "sync" /\ job'.r = s
    PROVE Access'
<1>1. ASSUME NEW t \in Services, t # s
      PROVE reg'[t] = reg[t] /\ pending'[t] = pending[t] /\ hand'[t] = hand[t] /\ sock'[t] = sock[t]
  BY <1>1 DEF Unlinked, LinkTyped
<1>2. ASSUME s \in Services
      PROVE /\ reg'[s] = None /\ hand'[s] = Aged(hand[s])
            /\ sock'[s] = IF sock[s] = {} THEN {} ELSE {"old"}
            /\ pending'[s] <=> pending[s] \/ reg[s] # None
  <2>1. reg'[s] = None BY <1>2 DEF Unlinked, LinkTyped
  <2>2. hand'[s] = Aged(hand[s]) BY <1>2 DEF Unlinked, LinkTyped
  <2>3. sock'[s] = IF sock[s] = {} THEN {} ELSE {"old"} BY <1>2 DEF Unlinked, LinkTyped
  <2>4. pending'[s] <=> pending[s] \/ reg[s] # None BY <1>2 DEF Unlinked, LinkTyped
  <2>5. QED BY <2>1, <2>2, <2>3, <2>4
<1>3. ASSUME s \in Services
      PROVE /\ hand[s] \in {"none", "dial", "join", "dialOld", "joinOld"}
            /\ sock[s] \subseteq {"current", "old"}
            /\ hand[s] \in {"dial", "join"} \/ "current" \in sock[s] => reg[s] # None
            /\ hand[s] \in {"dialOld", "joinOld"} \/ "old" \in sock[s] => pending[s]
  BY <1>3 DEF LinkTyped, Access, Linked
<1>4. ASSUME s \in Services, hand'[s] \in {"dialOld", "joinOld"} \/ "old" \in sock'[s]
      PROVE pending'[s]
  <2>1. hand[s] # "none" \/ sock[s] # {} BY <1>2, <1>3, <1>4 DEF Aged
  <2>2. reg[s] # None \/ pending[s] BY <1>3, <1>4, <2>1
  <2>3. QED BY <1>2, <1>4, <2>2
<1>5. ASSUME s \in Services PROVE hand'[s] \notin {"dial", "join"} /\ "current" \notin sock'[s]
  BY <1>2, <1>3, <1>5 DEF Aged
<1>6. Linked'
  <2>1. ASSUME NEW t \in Services
        PROVE /\ hand'[t] \in {"dial", "join"} \/ "current" \in sock'[t] => reg'[t] # None
              /\ hand'[t] \in {"dialOld", "joinOld"} \/ "old" \in sock'[t] => pending'[t]
    <3>1. CASE t = s BY <1>4, <1>5, <3>1
    <3>2. CASE t # s BY <1>1, <3>2 DEF Access, Linked
    <3>3. QED BY <3>1, <3>2
  <2>2. ASSUME job'.pc = "sync", job'.r \in Services PROVE reg'[job'.r] = None
    <3>1. CASE job'.r = s BY <1>2, <2>2, <3>1
    <3>2. CASE job'.r # s BY <1>1, <2>2, <3>2 DEF Access, Linked
    <3>3. QED BY <3>1, <3>2
  <2>3. job'.pc = "register" => job' = job OBVIOUS
  <2>4. QED BY <2>1, <2>2, <2>3 DEF Access, Linked
<1>7. AccessRevoked'
  <2>1. ASSUME NEW t \in Services, op[t].phase \in Retired, op[t].invalidated
        PROVE reg'[t] = None /\ sock'[t] = {} /\ hand'[t] = "none"
    <3>1. reg[t] = None /\ sock[t] = {} /\ hand[t] = "none" BY <2>1 DEF Access, AccessRevoked
    <3>2. CASE t = s BY <1>2, <3>1, <3>2 DEF Aged
    <3>3. CASE t # s BY <1>1, <3>1, <3>3
    <3>4. QED BY <3>2, <3>3
  <2>2. QED BY <2>1 DEF AccessRevoked
<1>8. QED BY <1>6, <1>7 DEF Access

\* The manager leaves nothing over a retired origin.
LEMMA FlushedLinks ==
    ASSUME LinkTyped, Access, NEW s, Flushed(s), reg' = reg, hand' = hand
    PROVE /\ \A t \in Services :
                /\ hand'[t] \in {"dial", "join"} \/ "current" \in sock'[t] => reg'[t] # None
                /\ hand'[t] \in {"dialOld", "joinOld"} \/ "old" \in sock'[t] => pending'[t]
                /\ sock'[t] \subseteq sock[t]
          /\ s \in Services => hand'[s] \notin {"dialOld", "joinOld"} /\ "old" \notin sock'[s]
<1>1. ASSUME NEW t \in Services, t # s PROVE pending'[t] = pending[t] /\ sock'[t] = sock[t]
  BY <1>1 DEF Flushed, Synced, LinkTyped
<1>2. ASSUME s \in Services
      PROVE /\ sock'[s] = IF pending[s] THEN sock[s] \ {"old"} ELSE sock[s]
            /\ pending[s] => hand[s] \notin {"dialOld", "joinOld"}
  BY <1>2 DEF Flushed, Synced, LinkTyped
<1>3. \A t \in Services :
        /\ hand[t] \in {"dial", "join"} \/ "current" \in sock[t] => reg[t] # None
        /\ hand[t] \in {"dialOld", "joinOld"} \/ "old" \in sock[t] => pending[t]
  BY DEF Access, Linked
<1>4. s \in Services => hand'[s] \notin {"dialOld", "joinOld"} /\ "old" \notin sock'[s]
  BY <1>2, <1>3
<1>5. ASSUME NEW t \in Services
      PROVE /\ hand'[t] \in {"dial", "join"} \/ "current" \in sock'[t] => reg'[t] # None
            /\ hand'[t] \in {"dialOld", "joinOld"} \/ "old" \in sock'[t] => pending'[t]
            /\ sock'[t] \subseteq sock[t]
  <2>1. CASE t = s BY <1>2, <1>3, <1>4, <2>1
  <2>2. CASE t # s BY <1>1, <1>3, <2>2
  <2>3. QED BY <2>1, <2>2
<1>6. QED BY <1>4, <1>5

LEMMA SyncAccess ==
    ASSUME LinkTyped, OpTyped, Access, Sync
    PROVE Access'
<1>1. op \in [Services -> Operations] /\ job \in Jobs BY DEF OpTyped
<1>2. Flushed(job.r) /\ reg' = reg /\ hand' = hand /\ job.pc = "sync" BY DEF Sync
<1>3. job'.pc \notin {"sync", "register"}
  <2>1. job' = After(job.todo) BY DEF Sync
  <2>2. QED BY <2>1, AfterGoes
<1>4. Linked' BY <1>2, <1>3, FlushedLinks DEF Linked
<1>5. op' = op \/ op' = [op EXCEPT ![job.r].invalidated = TRUE] BY DEF Sync
<1>6. ASSUME NEW s \in Services, Cleared(s)'
      PROVE reg'[s] = None /\ sock'[s] = {} /\ hand'[s] = "none"
  <2>1. CASE s = job.r
    <3>1. reg[s] = None BY <1>2, <2>1 DEF Access, Linked
    <3>2. hand'[s] \notin {"dial", "join"} /\ "current" \notin sock'[s]
      BY <1>2, <3>1, FlushedLinks
    <3>3. hand'[s] \notin {"dialOld", "joinOld"} /\ "old" \notin sock'[s]
      BY <1>2, <2>1, FlushedLinks
    <3>4. hand'[s] \in {"none", "dial", "join", "dialOld", "joinOld"} BY <1>2 DEF LinkTyped
    <3>5. sock'[s] \subseteq {"current", "old"} BY <1>2, FlushedLinks DEF LinkTyped
    <3>6. QED BY <1>2, <3>1, <3>2, <3>3, <3>4, <3>5
  <2>2. CASE s # job.r
    <3>1. op'[s] = op[s] BY <1>1, <1>5, <2>2
    <3>2. reg[s] = None /\ sock[s] = {} /\ hand[s] = "none"
      BY <1>6, <3>1 DEF Cleared, Access, AccessRevoked
    <3>3. QED BY <1>2, <3>2, FlushedLinks
  <2>3. QED BY <2>1, <2>2
<1>7. AccessRevoked' BY <1>6 DEF AccessRevoked, Cleared
<1>8. QED BY <1>4, <1>7 DEF Access

\* A flush that calls nothing invalidated: publication, and the hourly cleanup.
LEMMA FlushedAccess ==
    ASSUME LinkTyped, Access, NEW s, Flushed(s), reg' = reg, hand' = hand,
           \A t \in Services : Cleared(t)' => Cleared(t),
           job'.pc = "sync" => job'.pc = job.pc /\ job'.r = job.r,
           job'.pc = "register" => job' = job /\ op' = op
    PROVE Access'
<1>1. Linked' BY FlushedLinks DEF Access, Linked
<1>2. ASSUME NEW t \in Services, Cleared(t)'
      PROVE reg'[t] = None /\ sock'[t] = {} /\ hand'[t] = "none"
  <2>1. reg[t] = None /\ sock[t] = {} /\ hand[t] = "none"
    BY <1>2 DEF Cleared, Access, AccessRevoked
  <2>2. QED BY <2>1, FlushedLinks
<1>3. AccessRevoked' BY <1>2 DEF AccessRevoked, Cleared
<1>4. QED BY <1>1, <1>3 DEF Access

LEMMA RegisterAccess ==
    ASSUME LinkTyped, OpTyped, Access, Register \/ Publish
    PROVE Access'
<1>1. op \in [Services -> Operations] /\ job \in Jobs /\ job.s \in Services \cup {None}
  BY JobRefers DEF OpTyped
<1>2. PICK o : o = Settled(op[job.s], "ready") OBVIOUS
<1>3. job.s \in Services => o.phase = "ready"
  <2>1. job.s \in Services => op[job.s] \in Operations BY <1>1
  <2>2. QED BY <1>2, <2>1 DEF Settled, Operations
<1>4. job.s \in Services => (o.phase \in Retired /\ o.invalidated => Cleared(job.s))
  BY <1>3 DEF Retired
<1>5. Ready(job.s) => Save(job.s, o) BY <1>2 DEF Ready
<1>6. ASSUME UNCHANGED <<reg, pending, hand, sock>>, Fail(job.s) \/ Ready(job.s) PROVE Access'
  BY <1>1, <1>4, <1>5, <1>6, AccessForms
<1>7. CASE Register
  <2>1. CASE UNCHANGED links
    <3>1. UNCHANGED <<reg, pending, hand, sock>> BY <2>1 DEF links
    <3>2. job.pc = "register" /\ (Fail(job.s) \/ Ready(job.s) \/ (reg' # reg))
      <4>1. job.s \in Services /\ op[job.s].key \in Creds BY <1>7 DEF Register, Access, Linked
      <4>2. reg' = [reg EXCEPT ![job.s] = op[job.s].key] /\ reg[job.s] # op[job.s].key => reg' # reg
        BY <4>1 DEF LinkTyped
      <4>3. QED BY <1>7, <4>2 DEF Register
    <3>3. QED BY <1>6, <3>1, <3>2
  <2>2. CASE /\ reg' = [reg EXCEPT ![job.s] = op[job.s].key]
             /\ job' = [job EXCEPT !.pc = "publish"] /\ UNCHANGED <<op, pending, hand, sock>>
    <3>1. job.s \in Services /\ op[job.s].phase = "opening" /\ op[job.s].key \in Creds
      BY <1>7 DEF Register, Access, Linked
    <3>2. op[job.s].key # None BY <3>1, CredentialsAssumption
    <3>3. \A t \in Services : reg[t] # None => reg'[t] # None BY <2>2, <3>1, <3>2 DEF LinkTyped
    <3>4. job'.pc = "publish" BY <1>1, <2>2 DEF Jobs
    <3>5. Linked' BY <2>2, <3>3, <3>4 DEF Access, Linked
    <3>6. ASSUME NEW t \in Services, op[t].phase \in Retired, op[t].invalidated
          PROVE reg'[t] = None /\ sock[t] = {} /\ hand[t] = "none"
      <4>1. t # job.s BY <3>1, <3>6 DEF Retired
      <4>2. reg'[t] = reg[t] BY <2>2, <4>1 DEF LinkTyped
      <4>3. QED BY <3>6, <4>2 DEF Access, AccessRevoked
    <3>7. AccessRevoked' BY <2>2, <3>6 DEF AccessRevoked
    <3>8. QED BY <3>5, <3>7 DEF Access
  <2>3. QED BY <1>7, <2>1, <2>2 DEF Register
<1>8. CASE Publish
  <2>1. CASE Fail(job.s) /\ UNCHANGED <<sock, pending>>
    BY <1>6, <1>8, <2>1 DEF Publish
  <2>2. CASE Flushed(job.s) /\ Ready(job.s)
    <3>1. Save(job.s, o) BY <1>5, <2>2
    <3>2. ASSUME NEW t \in Services, Cleared(t)' PROVE Cleared(t)
      <4>1. CASE t = job.s
        <5>1. op'[t] = o BY <1>1, <3>1, <3>2, <4>1 DEF Save
        <5>2. QED BY <1>4, <3>2, <4>1, <5>1 DEF Cleared
      <4>2. CASE t # job.s
        <5>1. op'[t] = op[t] BY <1>1, <3>1, <4>2 DEF Save
        <5>2. QED BY <3>2, <5>1 DEF Cleared
      <4>3. QED BY <4>1, <4>2
    <3>3. job'.pc = "idle" BY <3>1 DEF Save, NoJob
    <3>4. reg' = reg /\ hand' = hand BY <1>8 DEF Publish
    <3>5. QED BY <2>2, <3>2, <3>3, <3>4, FlushedAccess
  <2>3. QED BY <1>8, <2>1, <2>2 DEF Publish
<1>9. QED BY <1>7, <1>8

LEMMA LinkStepAccess ==
    ASSUME LinkTyped, OpTyped, Access, NEW s \in Services, LinkStep(s)
    PROVE Access'
<1>1. op \in [Services -> Operations] /\ job \in Jobs /\ op[s] \in Operations BY DEF OpTyped
<1>2. CASE SetupEnds(s) \/ LinkEnds(s)
  <2>1. job' = job /\ UNCHANGED <<reg, pending, hand, sock>>
    BY <1>2 DEF SetupEnds, LinkEnds, links
  <2>2. op' = [op EXCEPT ![s].late = TRUE] \/ op' = [op EXCEPT ![s].dead = TRUE]
    BY <1>2 DEF SetupEnds, LinkEnds
  <2>3. \A t \in Services : /\ op'[t].phase = op[t].phase /\ op'[t].key = op[t].key
                            /\ op'[t].invalidated = op[t].invalidated
    BY <1>1, <2>2 DEF Operations
  <2>4. \A t \in Services : Cleared(t)' => Cleared(t) BY <2>3 DEF Cleared
  <2>5. job'.pc = "register" => job'.s \in Services /\ op'[job'.s].phase = "opening"
                                                    /\ op'[job'.s].key \in Creds
    BY <2>1, <2>3 DEF Access, Linked
  <2>6. QED BY <2>1, <2>4, <2>5, AccessKept
<1>3. ASSUME op' = op, job' = job, reg' = reg, pending' = pending,
             hand' = [hand EXCEPT ![s] = hand'[s]], sock' = [sock EXCEPT ![s] = sock'[s]],
             hand'[s] \in {"dial", "join"} \/ "current" \in sock'[s] => reg[s] # None,
             hand'[s] \in {"dialOld", "joinOld"} \/ "old" \in sock'[s] => pending[s],
             Cleared(s) => hand'[s] = "none" /\ sock'[s] = {}
      PROVE Access'
  <2>1. \A t \in Services : t # s => hand'[t] = hand[t] /\ sock'[t] = sock[t]
    BY <1>3 DEF LinkTyped
  <2>2. Linked' BY <1>3, <2>1 DEF Access, Linked
  <2>3. AccessRevoked' BY <1>3, <2>1 DEF Access, AccessRevoked, Cleared
  <2>4. QED BY <2>2, <2>3 DEF Access
<1>4. /\ hand[s] \in {"dial", "join"} \/ "current" \in sock[s] => reg[s] # None
      /\ hand[s] \in {"dialOld", "joinOld"} \/ "old" \in sock[s] => pending[s]
      /\ Cleared(s) => reg[s] = None /\ hand[s] = "none" /\ sock[s] = {}
  BY DEF Access, Linked, AccessRevoked, Cleared
<1>5. CASE Dial(s)
  <2>1. hand' = [hand EXCEPT ![s] = "dial"] /\ sock' = sock /\ reg[s] # None
    BY <1>5 DEF Dial, Live
  <2>2. hand'[s] = "dial" BY <2>1 DEF LinkTyped
  <2>3. sock' = [sock EXCEPT ![s] = sock'[s]] BY <2>1 DEF LinkTyped
  <2>4. op' = op /\ job' = job /\ reg' = reg /\ pending' = pending BY <1>5 DEF Dial, stored
  <2>5. QED BY <1>3, <1>4, <2>1, <2>2, <2>3, <2>4
<1>6. CASE Recheck(s)
  <2>1. PICK h \in {"join", "none"} : hand' = [hand EXCEPT ![s] = h] /\ (h = "join" => reg[s] # None)
    BY <1>6 DEF Recheck, Live, LinkTyped
  <2>2. hand'[s] = h /\ sock' = sock /\ hand[s] # "none" BY <1>6, <2>1 DEF Recheck, LinkTyped
  <2>3. sock' = [sock EXCEPT ![s] = sock'[s]] BY <2>2 DEF LinkTyped
  <2>4. op' = op /\ job' = job /\ reg' = reg /\ pending' = pending BY <1>6 DEF Recheck, stored
  <2>5. QED BY <1>3, <1>4, <2>1, <2>2, <2>3, <2>4
<1>7. CASE Join(s)
  <2>1. hand' = [hand EXCEPT ![s] = "none"] BY <1>7 DEF Join
  <2>2. hand[s] \in {"join", "joinOld"} BY <1>7 DEF Join
  <2>3. PICK x : x = IF hand[s] = "join" THEN "current" ELSE "old" OBVIOUS
  <2>4. sock' = [sock EXCEPT ![s] = sock[s] \cup {x}] BY <1>7, <2>3 DEF Join, LinkTyped
  <2>5. hand'[s] = "none" /\ sock'[s] = sock[s] \cup {x} BY <2>1, <2>4 DEF LinkTyped
  <2>6. x = "current" => reg[s] # None BY <1>4, <2>2, <2>3
  <2>7. x = "old" => pending[s] BY <1>4, <2>2, <2>3
  <2>8. op' = op /\ job' = job /\ reg' = reg /\ pending' = pending BY <1>7 DEF Join, stored
  <2>9. QED BY <1>3, <1>4, <2>1, <2>2, <2>3, <2>4, <2>5, <2>6, <2>7, <2>8
<1>8. CASE SweepSockets(s)
  <2>1. PICK S \in SUBSET sock[s] : sock' = [sock EXCEPT ![s] = S]
    BY <1>8 DEF SweepSockets, LinkTyped
  <2>2. sock'[s] = S /\ hand' = hand BY <1>8, <2>1 DEF SweepSockets, LinkTyped
  <2>3. hand' = [hand EXCEPT ![s] = hand'[s]] BY <2>2 DEF LinkTyped
  <2>4. op' = op /\ job' = job /\ reg' = reg /\ pending' = pending BY <1>8 DEF SweepSockets, stored
  <2>5. QED BY <1>3, <1>4, <2>1, <2>2, <2>3, <2>4
<1>9. CASE CronUnlink(s)
  <2>1. op' = op /\ job' = job BY <1>9 DEF CronUnlink, stored
  <2>2. QED BY <1>9, <2>1, UnlinkedAccess DEF CronUnlink
<1>10. CASE CronSync(s)
  <2>1. op' = op /\ job' = job BY <1>10 DEF CronSync, stored
  <2>2. \A t \in Services : Cleared(t)' => Cleared(t) BY <2>1 DEF Cleared
  <2>3. QED BY <1>10, <2>1, <2>2, FlushedAccess DEF CronSync
<1>11. QED BY <1>2, <1>5, <1>6, <1>7, <1>8, <1>9, <1>10 DEF LinkStep

LEMMA AccessNext ==
    ASSUME Typed, Access, Next
    PROVE Access'
<1>1. OpTyped /\ LinkTyped BY TypesAre DEF Typed
<1>2. ASSUME UNCHANGED browserVars PROVE Access'
  BY <1>2 DEF browserVars, stored, links, Access, Linked, AccessRevoked
<1>3. ASSUME Unlink PROVE Access'
  <2>1. job \in Jobs BY <1>1 DEF OpTyped
  <2>2. job'.pc = "sync" /\ job'.r = job.r BY <1>3, <2>1 DEF Unlink, Jobs
  <2>3. op' = op /\ Unlinked(job.r) BY <1>3 DEF Unlink, stored
  <2>4. QED BY <1>1, <2>2, <2>3, UnlinkedAccess
<1>4. QED
  BY <1>1, <1>2, <1>3, Steps, AccessStays, AdvanceAccess, SyncAccess, RegisterAccess, LinkStepAccess

-----------------------------------------------------------------------------
(* Credentials. *)

Issuing == {"secret", "mount", "activate"}

\* Rows may be revoked behind any job that does not go on to issue.
LEMMA TrackedKept ==
    ASSUME CredTyped, OpTyped, Attached, Tracked, UNCHANGED <<secret, mount>>,
           row' \in [Creds -> Rows],
           \A c \in Creds : /\ row'[c].m = row[c].m /\ row'[c].known = row[c].known
                            /\ row'[c].age = row[c].age
                            /\ \/ row'[c].state = row[c].state
                               \/ row[c].state \in {"pending", "active"} /\ row'[c].state = "revoked",
           job' = job \/ job'.pc \notin Issuing
    PROVE Tracked'
<1>1. SecretsTracked'
  <2>1. \A c \in Creds : secret[c] \in {"late", "held"} => row[c].state \notin {"none", "deleted"}
    BY DEF Tracked, SecretsTracked
  <2>2. \A c \in Creds : row'[c].state \in {"none", "deleted"} => row[c].state \in {"none", "deleted"}
    OBVIOUS
  <2>3. QED BY <2>1, <2>2 DEF SecretsTracked
<1>2. \A c \in Creds : row'[c].state = "active" => row[c].state = "active" OBVIOUS
<1>3. Authority' BY <1>2 DEF Tracked, Authority
<1>5. Making'
  <2>1. CASE job'.pc \notin Issuing BY <2>1 DEF Making, Issuing
  <2>2. CASE job' = job /\ job.pc \in Issuing
    <3>1. job.c \in Creds BY <2>2 DEF Attached, Issuing
    <3>2. Making /\ job.pc \in {"secret", "mount", "activate"} BY <2>2 DEF Tracked, Issuing
    <3>3. /\ row[job.c].m = job.m /\ Active(job.m) = {}
          /\ row[job.c].state \in {"pending", "revoked", "deleted"}
          /\ job.pc = "secret" =>
                /\ row[job.c].state # "deleted" /\ ~row[job.c].known /\ row[job.c].age # "old"
                /\ secret[job.c] \notin {"late", "held"}
          /\ job.pc \in {"mount", "activate"} /\ row[job.c].state = "pending" =>
                secret[job.c] = "held"
          /\ job.pc = "activate" => mount[job.m] = job.c
      BY <3>2 DEF Making
    <3>4. /\ row'[job.c].m = row[job.c].m /\ row'[job.c].known = row[job.c].known
          /\ row'[job.c].age = row[job.c].age
          /\ \/ row'[job.c].state = row[job.c].state
             \/ row[job.c].state \in {"pending", "active"} /\ row'[job.c].state = "revoked"
      BY <3>1
    <3>5. Active(job.m)' = {} BY <1>2, <2>2, <3>3 DEF Active
    <3>6. row'[job'.c].m = job'.m /\ row'[job'.c].state \in {"pending", "revoked", "deleted"}
      BY <2>2, <3>3, <3>4
    <3>7. job'.pc = "secret" =>
                /\ row'[job'.c].state # "deleted" /\ ~row'[job'.c].known /\ row'[job'.c].age # "old"
                /\ secret'[job'.c] \notin {"late", "held"}
      BY <2>2, <3>3, <3>4
    <3>8. job'.pc \in {"mount", "activate"} /\ row'[job'.c].state = "pending" =>
                secret'[job'.c] = "held"
      BY <2>2, <3>3, <3>4
    <3>9. job'.pc = "activate" => mount'[job'.m] = job'.c BY <2>2, <3>3
    <3>10. QED BY <3>5, <3>6, <3>7, <3>8, <3>9 DEF Making
  <2>3. QED BY <2>1, <2>2 DEF Issuing
<1>6. QED BY <1>1, <1>3, <1>5 DEF Tracked

LEMMA TrackedSame ==
    ASSUME CredTyped, OpTyped, Attached, Tracked, UNCHANGED <<row, secret, mount>>,
           job' = job \/ job'.pc \notin Issuing
    PROVE Tracked'
<1>1. row' \in [Creds -> Rows] BY DEF CredTyped
<1>2. QED BY <1>1, TrackedKept

LEMMA TrackedRevoked ==
    ASSUME CredTyped, OpTyped, Attached, Tracked, NEW m, row' = Revoked(row, m),
           UNCHANGED <<secret, mount>>, job' = job \/ job'.pc \notin Issuing
    PROVE Tracked'
<1>1. row' \in [Creds -> Rows] BY RevokedTyped
<1>2. \A c \in Creds : /\ row'[c].m = row[c].m /\ row'[c].known = row[c].known
                       /\ row'[c].age = row[c].age
                       /\ \/ row'[c].state = row[c].state
                          \/ row[c].state \in {"pending", "active"} /\ row'[c].state = "revoked"
  BY DEF Revoked, CredTyped, Rows
<1>3. QED BY <1>1, <1>2, TrackedKept

\* The provider, the requests, the reaper and the route.
LEMMA ActorsTracked ==
    ASSUME CredTyped, OpTyped, Attached, Tracked, UNCHANGED browserVars,
           \/ \E m \in Machines : Settle(m) \/ AutoStop(m) \/ Break(m) \/ Vanish(m)
           \/ Api \/ \E d \in Deleters : Delete(d)
    PROVE Tracked'
<1>1. job' = job BY DEF browserVars
<1>2. CASE \E m \in Machines : Settle(m) \/ AutoStop(m) \/ Break(m) \/ Vanish(m)
  <2>1. UNCHANGED <<row, secret, mount>> BY <1>2 DEF Settle, AutoStop, Break, Vanish, authority
  <2>2. QED BY <1>1, <2>1, TrackedSame
<1>3. CASE Api
  <2>1. UNCHANGED <<row, secret, mount>>
    BY <1>3 DEF Api, ApiFind, ApiCreate, ApiStart, ApiWrite, authority, provider
  <2>2. QED BY <1>1, <2>1, TrackedSame
<1>4. ASSUME NEW d \in Deleters, Delete(d) PROVE Tracked'
  <2>1. CASE DeleteRevoke(d)
    <3>1. row' = Revoked(row, del[d].m) /\ UNCHANGED <<secret, mount>>
      BY <2>1 DEF DeleteRevoke, Revokes, provider
    <3>2. QED BY <1>1, <3>1, TrackedRevoked
  <2>2. CASE DeleteBegin(d) \/ DeleteCall(d) \/ DeleteClear(d)
    <3>1. UNCHANGED <<row, secret, mount>>
      BY <2>2 DEF DeleteBegin, DeleteCall, DeleteClear, authority, provider
    <3>2. QED BY <1>1, <3>1, TrackedSame
  <2>3. QED BY <1>4, <2>1, <2>2 DEF Delete
<1>5. QED BY <1>2, <1>3, <1>4

\* The cleanup, the secrets that appear, the time that passes.
LEMMA CleanTracked ==
    ASSUME CredTyped, OpTyped, Attached, Tracked, UNCHANGED browserVars, NEW c \in Creds,
           Land(c) \/ Clean(c) \/ CleanFails(c) \/ Age(c)
    PROVE Tracked'
<1>1. job' = job BY DEF browserVars
<1>2. /\ row \in [Creds -> Rows] /\ secret \in [Creds -> {"none", "late", "held", "gone"}]
      /\ row[c] \in Rows
  BY DEF CredTyped
<1>3. /\ secret[c] \in {"late", "held"} => row[c].state \notin {"none", "deleted"}
      /\ row[c].known \/ row[c].age = "old" => secret[c] # "late"
      /\ row[c].state = "active" => secret[c] = "held"
  BY DEF Tracked, SecretsTracked, Authority
<1>4. ASSUME job.pc \in Issuing
      PROVE /\ job.c \in Creds /\ row[job.c].m = job.m /\ Active(job.m) = {}
            /\ row[job.c].state \in {"pending", "revoked", "deleted"}
            /\ job.pc = "secret" =>
                  /\ row[job.c].state # "deleted" /\ ~row[job.c].known /\ row[job.c].age # "old"
                  /\ secret[job.c] \notin {"late", "held"}
            /\ job.pc \in {"mount", "activate"} /\ row[job.c].state = "pending" =>
                  secret[job.c] = "held"
            /\ job.pc = "activate" => mount[job.m] = job.c
  BY <1>4 DEF Tracked, Making, Attached, Issuing
<1>5. ASSUME Land(c) PROVE Tracked'
  <2>1. secret[c] = "late" /\ secret' = [secret EXCEPT ![c] = "held"] /\ row' = row /\ mount' = mount
    BY <1>5 DEF Land, authority
  <2>2. secret'[c] = "held" /\ \A a \in Creds : a # c => secret'[a] = secret[a] BY <1>2, <2>1
  <2>3. SecretsTracked' BY <1>3, <2>1, <2>2 DEF Tracked, SecretsTracked
  <2>4. Authority' BY <1>3, <2>1, <2>2 DEF Tracked, Authority
  <2>5. ASSUME job.pc \in Issuing PROVE Making'
    <3>1. job.pc = "secret" => job.c # c BY <1>4, <2>1, <2>5
    <3>2. job.pc = "secret" => secret'[job.c] \notin {"late", "held"} BY <1>4, <2>2, <2>5, <3>1
    <3>3. job.pc \in {"mount", "activate"} /\ row[job.c].state = "pending" => secret'[job.c] = "held"
      BY <1>4, <2>2, <2>5
    <3>4. Active(job.m)' = {} BY <1>1, <1>4, <2>1, <2>5 DEF Active
    <3>5. QED BY <1>1, <1>4, <2>1, <2>5, <3>2, <3>3, <3>4 DEF Making
  <2>6. QED BY <1>1, <2>3, <2>4, <2>5 DEF Tracked, Making, Issuing
<1>6. ASSUME CleanStale(c) PROVE Tracked'
  <2>1. row' = [row EXCEPT ![c].state = "revoked"] /\ row[c].state = "pending"
        /\ UNCHANGED <<secret, mount>>
    BY <1>6 DEF CleanStale, provider
  <2>2. row' \in [Creds -> Rows] BY <1>2, <2>1 DEF Rows
  <2>3. \A a \in Creds : /\ row'[a].m = row[a].m /\ row'[a].known = row[a].known
                         /\ row'[a].age = row[a].age
                         /\ \/ row'[a].state = row[a].state
                            \/ row[a].state \in {"pending", "active"} /\ row'[a].state = "revoked"
    BY <1>2, <2>1 DEF Rows
  <2>4. QED BY <1>1, <2>1, <2>2, <2>3, TrackedKept
<1>7. ASSUME CleanCheck(c) PROVE Tracked'
  BY <1>1, <1>7, TrackedSame DEF CleanCheck, provider, authority
<1>8. ASSUME CleanRevoke(c) PROVE Tracked'
  BY <1>1, <1>8, TrackedRevoked DEF CleanRevoke, provider
<1>9. ASSUME CleanErase(c) PROVE Tracked'
  <2>1. /\ row[c].state = "revoked" /\ row' = [row EXCEPT ![c].state = "deleted"] /\ mount' = mount
        /\ secret' = IF secret[c] = "held" THEN [secret EXCEPT ![c] = "gone"] ELSE secret
    BY <1>9 DEF CleanErase
  <2>2. row[c].known \/ secret[c] = "held" \/ row[c].age = "old" BY <1>9 DEF CleanErase, Erasable
  <2>3. \A a \in Creds : a # c => row'[a] = row[a] /\ secret'[a] = secret[a] BY <1>2, <2>1
  <2>4. /\ row'[c].state = "deleted" /\ row'[c].m = row[c].m /\ row'[c].known = row[c].known
        /\ row'[c].age = row[c].age
    BY <1>2, <2>1 DEF Rows
  <2>5. secret'[c] \notin {"late", "held"} BY <1>2, <1>3, <2>1, <2>2
  <2>6. SecretsTracked' BY <2>3, <2>5 DEF Tracked, SecretsTracked
  <2>7. Authority' BY <1>3, <2>1, <2>3, <2>4, <2>5 DEF Tracked, Authority
  <2>8. ASSUME job.pc \in Issuing PROVE Making'
    <3>1. job.pc = "secret" => job.c # c BY <1>4, <2>2, <2>8
    <3>2. Active(job.m)' = {} BY <1>1, <1>4, <2>3, <2>4, <2>8 DEF Active
    <3>3. /\ row'[job.c].m = job.m
          /\ row'[job.c].state \in {"pending", "revoked", "deleted"}
          /\ row'[job.c].state = "pending" => row[job.c].state = "pending" /\ job.c # c
      BY <1>4, <2>3, <2>4, <2>8
    <3>4. job.pc = "secret" =>
             /\ row'[job.c].state # "deleted" /\ ~row'[job.c].known /\ row'[job.c].age # "old"
             /\ secret'[job.c] \notin {"late", "held"}
      BY <1>4, <2>3, <2>8, <3>1
    <3>5. job.pc \in {"mount", "activate"} /\ row'[job.c].state = "pending" =>
             secret'[job.c] = "held"
      BY <1>4, <2>3, <2>8, <3>3
    <3>6. QED BY <1>1, <1>4, <2>1, <2>8, <3>2, <3>3, <3>4, <3>5 DEF Making
  <2>9. QED BY <1>1, <2>6, <2>7, <2>8 DEF Tracked, Making, Issuing
<1>10. ASSUME CleanFails(c) PROVE Tracked'
  <2>1. CASE UNCHANGED secret
    BY <1>1, <1>10, <2>1, TrackedSame DEF CleanFails, authority
  <2>2. CASE row[c].state = "revoked" /\ secret[c] = "held" /\ secret' = [secret EXCEPT ![c] = "gone"]
    <3>1. row' = row /\ mount' = mount BY <1>10 DEF CleanFails, authority
    <3>2. secret'[c] = "gone" /\ \A a \in Creds : a # c => secret'[a] = secret[a] BY <1>2, <2>2
    <3>3. SecretsTracked' BY <3>1, <3>2 DEF Tracked, SecretsTracked
    <3>4. Authority' BY <2>2, <3>1, <3>2 DEF Tracked, Authority
    <3>5. ASSUME job.pc \in Issuing PROVE Making'
      <4>1. job.pc = "secret" \/ row[job.c].state = "pending" => job.c # c BY <1>4, <2>2, <3>5
      <4>2. Active(job.m)' = {} BY <1>1, <1>4, <3>1, <3>5 DEF Active
      <4>3. job.pc = "secret" => secret'[job.c] \notin {"late", "held"} BY <1>4, <3>2, <3>5, <4>1
      <4>4. job.pc \in {"mount", "activate"} /\ row[job.c].state = "pending" =>
               secret'[job.c] = "held"
        BY <1>4, <3>2, <3>5, <4>1
      <4>5. QED BY <1>1, <1>4, <3>1, <3>5, <4>2, <4>3, <4>4 DEF Making
    <3>6. QED BY <1>1, <3>3, <3>4, <3>5 DEF Tracked, Making, Issuing
  <2>3. QED BY <1>10, <2>1, <2>2 DEF CleanFails
<1>11. ASSUME Age(c) PROVE Tracked'
  <2>1. job.c # c /\ UNCHANGED <<secret, mount>> BY <1>11 DEF Age, Ages, provider
  <2>2. PICK age \in {"stale", "old"} : /\ row' = [row EXCEPT ![c].age = age]
                                        /\ age = "old" => secret[c] # "late"
    BY <1>11 DEF Age, Ages
  <2>3. \A a \in Creds : a # c => row'[a] = row[a] BY <1>2, <2>2
  <2>4. /\ row'[c].state = row[c].state /\ row'[c].m = row[c].m /\ row'[c].known = row[c].known
        /\ row'[c].age = age
    BY <1>2, <2>2 DEF Rows
  <2>5. SecretsTracked' BY <2>1, <2>3, <2>4 DEF Tracked, SecretsTracked
  <2>6. Authority' BY <1>3, <2>1, <2>2, <2>3, <2>4 DEF Tracked, Authority
  <2>7. ASSUME job.pc \in Issuing PROVE Making'
    <3>1. Active(job.m)' = {} BY <1>1, <1>4, <2>3, <2>4, <2>7 DEF Active
    <3>2. row'[job.c] = row[job.c] BY <1>4, <2>1, <2>3, <2>7
    <3>3. QED BY <1>1, <1>4, <2>1, <2>7, <3>1, <3>2 DEF Making
  <2>8. QED BY <1>1, <2>5, <2>6, <2>7 DEF Tracked, Making, Issuing
<1>12. QED BY <1>5, <1>6, <1>7, <1>8, <1>9, <1>10, <1>11 DEF Clean

\* Every step but those that issue a credential leaves issuing to its job.
LEMMA JobsTracked ==
    ASSUME CredTyped, OpTyped, Attached, Tracked,
           \/ Asks \/ Retires \/ StopNew \/ Wake \/ StartCall \/ Install \/ Find \/ Create \/ Bind
           \/ Unlink \/ Sync \/ Register \/ Publish
           \/ \E s \in Services : Advance(s) \/ LinkStep(s)
    PROVE Tracked'
<1>1. job \in Jobs /\ op \in [Services -> Operations] BY DEF OpTyped
<1>2. NoJob.pc = "idle" BY DEF NoJob
<1>3. ASSUME job' = NoJob \/ \E s, phase : Retire(s, phase) PROVE job'.pc \notin Issuing
  BY <1>2, <1>3 DEF Retire, NoJob, Issuing
<1>4. /\ End \/ Fail(job.s) => job'.pc \notin Issuing
      /\ \A s, o : Save(s, o) => job'.pc \notin Issuing
  BY <1>3 DEF End, Fail, Save
<1>5. ASSUME UNCHANGED <<row, secret, mount>>, job' = job \/ job'.pc \notin Issuing PROVE Tracked'
  BY <1>5, TrackedSame
<1>6. ASSUME NEW pc \in {"create", "bind", "start", "retire", "publish", "sync"},
             \/ job' = [job EXCEPT !.pc = pc]
             \/ \E m : job' = [job EXCEPT !.pc = pc, !.m = m]
             \/ \E m, todo : job' = [job EXCEPT !.pc = pc, !.next = "bind", !.m = m, !.todo = todo]
      PROVE job'.pc \notin Issuing
  BY <1>1, <1>6 DEF Jobs, Issuing
<1>7. ASSUME NEW todo, job' = After(todo) PROVE job'.pc \notin Issuing
  <2>1. OpTyped OBVIOUS
  <2>2. job'.pc \in {"idle", "retire", "find", "bind", "start", "clean"} BY <1>7, <2>1, AfterGoes
  <2>3. QED BY <2>2 DEF Issuing
<1>8. ASSUME NEW s, NEW by, StopWork(s, by) PROVE job'.pc \notin Issuing
  <2>1. job'.pc \in {"clean", "unlink"} BY <1>8 DEF StopWork, NoJob
  <2>2. QED BY <2>1 DEF Issuing
<1>9. CASE Asks
  <2>1. ASSUME NEW s \in Services, Start(s) PROVE Tracked'
    BY <1>5, <2>1 DEF Start, provider, authority
  <2>2. ASSUME NEW s \in Services, Stop(s) PROVE Tracked'
    BY <1>5, <1>8, <2>2 DEF Stop, provider, authority
  <2>3. ASSUME AccessRevoke PROVE Tracked'
    <3>1. job'.pc \notin Issuing BY <2>3 DEF AccessRevoke, NoJob, Issuing
    <3>2. QED BY <2>3, <3>1, TrackedRevoked DEF AccessRevoke, provider
  <2>4. ASSUME RotateFails PROVE Tracked'
    BY <2>4, TrackedRevoked DEF RotateFails, provider
  <2>5. ASSUME WakeExisting PROVE Tracked'
    <3>1. job'.pc \notin Issuing BY <2>5 DEF WakeExisting, NoJob, Issuing
    <3>2. QED BY <1>5, <2>5, <3>1 DEF WakeExisting, provider, authority
  <2>6. QED BY <1>9, <2>1, <2>2, <2>3, <2>4, <2>5 DEF Asks
<1>10. CASE Retires
  <2>1. UNCHANGED <<row, secret, mount>>
    BY <1>10 DEF Retires, RetireNext, RevokeFails, StopClean, StopCleanLater, Evict,
                 credVars, provider, authority
  <2>2. CASE RetireNext
    <3>1. ASSUME NEW s, RetireSibling(s) PROVE job'.pc \notin Issuing
      BY <1>1, <3>1 DEF RetireSibling, Jobs, Issuing
    <3>2. QED BY <1>5, <1>7, <2>1, <2>2, <3>1 DEF RetireNext
  <2>3. CASE RevokeFails BY <1>3, <1>4, <1>5, <1>7, <2>1, <2>3 DEF RevokeFails
  <2>4. CASE StopClean BY <1>4, <1>5, <2>1, <2>4 DEF StopClean
  <2>5. CASE StopCleanLater \/ Evict BY <1>3, <1>5, <2>1, <2>5 DEF StopCleanLater, Evict
  <2>6. QED BY <1>10, <2>2, <2>3, <2>4, <2>5 DEF Retires
<1>11. CASE StopNew
  <2>1. UNCHANGED <<row, secret, mount>> BY <1>11 DEF StopNew, authority
  <2>2. QED BY <1>4, <1>5, <1>11, <2>1 DEF StopNew
<1>12. CASE Wake \/ StartCall \/ Install
  <2>1. UNCHANGED <<row, secret, mount>>
    BY <1>12 DEF Wake, StartCall, Install, credVars, provider, authority
  <2>2. job'.pc \notin Issuing
    BY <1>4, <1>6, <1>12 DEF Wake, StartCall, Install
  <2>3. QED BY <1>5, <2>1, <2>2
<1>13. CASE Find
  <2>1. UNCHANGED <<row, secret, mount>> BY <1>13 DEF Find, credVars, provider, authority
  <2>2. job'.pc \notin Issuing BY <1>4, <1>6, <1>13 DEF Find
  <2>3. QED BY <1>5, <2>1, <2>2
<1>14. CASE Create \/ Bind
  <2>1. UNCHANGED <<row, secret, mount>> BY <1>14 DEF Create, Bind, authority, provider
  <2>2. job'.pc \notin Issuing BY <1>4, <1>6, <1>14 DEF Create, Bind
  <2>3. QED BY <1>5, <2>1, <2>2
<1>15. CASE Unlink \/ Sync \/ Register \/ Publish
  <2>1. UNCHANGED <<row, secret, mount>>
    BY <1>15 DEF Unlink, Sync, Register, Publish, credVars, provider, authority
  <2>2. Unlink => job'.pc \notin Issuing BY <1>6 DEF Unlink
  <2>3. Sync => job'.pc \notin Issuing BY <1>7 DEF Sync
  <2>4. Register => job'.pc \notin Issuing BY <1>4, <1>6 DEF Register, Ready
  <2>5. Publish => job'.pc \notin Issuing BY <1>4 DEF Publish, Ready
  <2>6. QED BY <1>5, <1>15, <2>1, <2>2, <2>3, <2>4, <2>5
<1>16. ASSUME NEW s \in Services, Advance(s) PROVE Tracked'
  <2>1. UNCHANGED <<row, secret, mount>> BY <1>16 DEF Advance, credVars, provider, authority
  <2>2. op[s].step \notin Issuing BY <1>1 DEF Operations, Issuing
  <2>3. StopWork(s, s) => job'.pc \notin Issuing BY <1>8
  <2>4. Retire(s, "expired") \/ Retire(s, op[s].phase) \/ Fail(s) => job'.pc \notin Issuing
    BY <1>3 DEF Fail
  <2>5. ASSUME job' = [NoJob EXCEPT !.pc = "unlink", !.s = s, !.r = s, !.next = "find"]
               \/ job' = [NoJob EXCEPT !.pc = op[s].step, !.s = s, !.m = op[s].m,
                             !.seen = vm[op[s].m],
                             !.c = IF Active(op[s].m) = {} THEN None ELSE op[s].key]
        PROVE job'.pc \notin Issuing
    <3>1. job'.pc = "unlink" \/ job'.pc = op[s].step BY <2>5 DEF NoJob
    <3>2. QED BY <2>2, <3>1 DEF Issuing
  <2>6. job'.pc \notin Issuing BY <1>16, <2>3, <2>4, <2>5 DEF Advance
  <2>7. QED BY <1>5, <2>1, <2>6
<1>17. ASSUME NEW s \in Services, LinkStep(s) PROVE Tracked'
  <2>1. UNCHANGED <<row, secret, mount, job>>
    BY <1>17 DEF LinkStep, SetupEnds, LinkEnds, Dial, Recheck, Join, SweepSockets, CronUnlink,
                 CronSync, credVars, provider, authority
  <2>2. QED BY <1>5, <2>1
<1>18. QED BY <1>9, <1>10, <1>11, <1>12, <1>13, <1>14, <1>15, <1>16, <1>17

\* What issuing has done so far is what its next step relies on.
LEMMA IssueTracked ==
    ASSUME CredTyped, OpTyped, Attached, Tracked, Ensure \/ Secret \/ Mount \/ Activate
    PROVE Tracked'
<1>1. /\ job \in Jobs /\ job.s \in Services \cup {None}
      /\ row \in [Creds -> Rows] /\ secret \in [Creds -> {"none", "late", "held", "gone"}]
      /\ mount \in [Machines -> Creds \cup {None}]
  BY JobRefers DEF OpTyped, CredTyped
<1>2. ASSUME job.pc \in Issuing
      PROVE /\ job.c \in Creds /\ job.m \in Machines /\ row[job.c].m = job.m /\ Active(job.m) = {}
            /\ row[job.c].state \in {"pending", "revoked", "deleted"}
            /\ job.pc = "secret" =>
                  /\ row[job.c].state # "deleted" /\ ~row[job.c].known /\ row[job.c].age # "old"
                  /\ secret[job.c] \notin {"late", "held"}
            /\ job.pc \in {"mount", "activate"} /\ row[job.c].state = "pending" =>
                  secret[job.c] = "held"
            /\ job.pc = "activate" => mount[job.m] = job.c
  BY <1>2 DEF Tracked, Making, Attached, Issuing
<1>3. \A a \in Creds : /\ secret[a] \in {"late", "held"} => row[a].state \notin {"none", "deleted"}
                       /\ row[a].known \/ row[a].age = "old" => secret[a] # "late"
                       /\ row[a].state = "active" =>
                             row[a].m \in Machines /\ mount[row[a].m] = a /\ secret[a] = "held"
  BY DEF Tracked, SecretsTracked, Authority
<1>4. End \/ Fail(job.s) \/ (\E o : Save(job.s, o)) => job'.pc \notin Issuing
  <2>1. job' = NoJob => job'.pc \notin Issuing BY DEF NoJob, Issuing
  <2>2. Fail(job.s) => job'.pc \notin Issuing BY DEF Fail, Retire, NoJob, Issuing
  <2>3. QED BY <2>1, <2>2 DEF End, Save
<1>5. job'.pc \notin Issuing => Making' BY DEF Making, Issuing
<1>6. ASSUME Ensure PROVE Tracked'
  <2>1. UNCHANGED <<secret, mount>> /\ job.pc = "credentials" BY <1>6 DEF Ensure, provider
  <2>2. CASE row' = row /\ job'.pc \notin Issuing BY <2>1, <2>2, TrackedSame
  <2>3. ASSUME NEW c \in Unused, Insert(c, job.m), job' = [job EXCEPT !.pc = "secret", !.c = c],
               Active(job.m) = {}
        PROVE Tracked'
    <3>1. c \in Creds /\ row[c].state = "none" BY FreshIn
    <3>2. row'[c] = [state |-> "pending", m |-> job.m, known |-> FALSE, age |-> "fresh"]
      BY <2>3, <3>1 DEF Insert
    <3>3. row'[c].state = "pending" /\ row'[c].m = job.m /\ ~row'[c].known /\ row'[c].age = "fresh"
      BY <3>2
    <3>4. ASSUME NEW a \in Creds, a # c
          PROVE /\ row'[a].m = row[a].m /\ row'[a].known = row[a].known /\ row'[a].age = row[a].age
                /\ \/ row'[a].state = row[a].state
                   \/ row[a].state = "pending" /\ row'[a].state = "revoked"
      <4>1. row'[a] = IF row[a].m = job.m /\ row[a].state = "pending"
                      THEN [row[a] EXCEPT !.state = "revoked"] ELSE row[a]
        BY <2>3, <3>4 DEF Insert
      <4>2. QED BY <1>1, <4>1 DEF Rows
    <3>5. secret[c] \notin {"late", "held"} BY <1>3, <3>1
    <3>6. job'.pc = "secret" /\ job'.c = c /\ job'.m = job.m BY <1>1, <2>3 DEF Jobs
    <3>7. SecretsTracked' BY <1>3, <2>1, <3>3, <3>4 DEF SecretsTracked
    <3>8. Authority' BY <1>3, <2>1, <3>3, <3>4, <3>5 DEF Authority
    <3>9. Active(job.m)' = {} BY <2>3, <3>3, <3>4, <3>6 DEF Active
    <3>10. Making' BY <2>1, <3>3, <3>5, <3>6, <3>9 DEF Making
    <3>11. QED BY <3>7, <3>8, <3>10 DEF Tracked
  <2>4. Active(job.m) # {} \/ Active(job.m) = {} OBVIOUS
  <2>5. QED BY <1>4, <1>6, <2>2, <2>3 DEF Ensure
<1>7. ASSUME GiveUp, job.pc \in Issuing
      PROVE /\ job'.pc \notin Issuing /\ \A a \in Creds : a # job.c => row'[a] = row[a]
            /\ row'[job.c].m = row[job.c].m /\ row'[job.c].known = row[job.c].known
            /\ row'[job.c].age = row[job.c].age
            /\ row'[job.c].state = IF row[job.c].state = "deleted" THEN "deleted" ELSE "revoked"
  <2>1. job.c \in Creds BY <1>2, <1>7
  <2>2. row' = [row EXCEPT ![job.c].state = IF row[job.c].state = "deleted"
                                            THEN row[job.c].state ELSE "revoked"]
    BY <1>1, <1>7, <2>1 DEF GiveUp, RevokeOne
  <2>3. QED BY <1>1, <1>4, <1>7, <2>1, <2>2 DEF GiveUp, Rows
<1>8. ASSUME Secret PROVE Tracked'
  <2>1. job.pc = "secret" /\ mount' = mount BY <1>8 DEF Secret
  <2>2. /\ job.c \in Creds /\ row[job.c].state \in {"pending", "revoked"} /\ row[job.c].m = job.m
        /\ ~row[job.c].known /\ row[job.c].age # "old" /\ Active(job.m) = {}
    BY <1>2, <2>1 DEF Issuing
  <2>3. \A a \in Creds : a # job.c => secret'[a] = secret[a] BY <1>1, <1>8 DEF Secret
  <2>4. ASSUME \A a \in Creds : a # job.c => row'[a] = row[a],
               row'[job.c].state \in {"pending", "revoked"}, row'[job.c].age = row[job.c].age,
               row'[job.c].known => secret'[job.c] = "held"
        PROVE SecretsTracked' /\ Authority'
    <3>1. SecretsTracked' BY <1>3, <2>2, <2>3, <2>4 DEF SecretsTracked
    <3>2. Authority' BY <1>3, <2>1, <2>2, <2>3, <2>4 DEF Authority
    <3>3. QED BY <3>1, <3>2
  <2>5. CASE GiveUp
    <3>1. row'[job.c].state = "revoked" /\ ~row'[job.c].known BY <1>7, <2>1, <2>2, <2>5 DEF Issuing
    <3>2. QED BY <1>5, <1>7, <2>1, <2>4, <2>5, <3>1 DEF Tracked, Issuing
  <2>6. CASE End /\ row' = row
    <3>1. job'.pc \notin Issuing BY <1>4, <2>6
    <3>2. QED BY <1>5, <2>2, <2>4, <2>6, <3>1 DEF Tracked
  <2>7. CASE /\ secret' = [secret EXCEPT ![job.c] = "held"]
             /\ row' = IF row[job.c].state = "pending" THEN [row EXCEPT ![job.c].known = TRUE] ELSE row
             /\ job' = [job EXCEPT !.pc = "mount"]
    <3>1. secret'[job.c] = "held" BY <1>1, <2>2, <2>7
    <3>2. \A a \in Creds : /\ row'[a].state = row[a].state /\ row'[a].m = row[a].m
                           /\ row'[a].age = row[a].age /\ (a # job.c => row'[a] = row[a])
      BY <1>1, <2>7 DEF Rows
    <3>3. SecretsTracked' /\ Authority' BY <2>2, <2>4, <3>1, <3>2
    <3>4. job'.pc = "mount" /\ job'.c = job.c /\ job'.m = job.m BY <1>1, <2>7 DEF Jobs
    <3>5. Active(job.m)' = {} BY <2>2, <3>2, <3>4 DEF Active
    <3>6. Making' BY <2>2, <3>1, <3>2, <3>4, <3>5 DEF Making
    <3>7. QED BY <3>3, <3>6 DEF Tracked
  <2>8. QED BY <1>8, <2>5, <2>6, <2>7 DEF Secret
<1>9. ASSUME Mount PROVE Tracked'
  <2>1. job.pc = "mount" /\ secret' = secret BY <1>9 DEF Mount
  <2>2. /\ job.c \in Creds /\ job.m \in Machines /\ row[job.c].m = job.m /\ Active(job.m) = {}
        /\ row[job.c].state \in {"pending", "revoked", "deleted"}
        /\ row[job.c].state = "pending" => secret[job.c] = "held"
    BY <1>2, <2>1 DEF Issuing
  <2>3. \A k \in Machines : k # job.m => mount'[k] = mount[k] BY <1>1, <1>9 DEF Mount
  <2>4. \A a \in Creds : row[a].state = "active" => row[a].m # job.m BY <2>2 DEF Active
  <2>5. ASSUME \A a \in Creds : a # job.c => row'[a] = row[a],
               row'[job.c].known = row[job.c].known, row'[job.c].age = row[job.c].age,
               row'[job.c].state \in {"pending", "revoked", "deleted"},
               row'[job.c].state = "deleted" => row[job.c].state = "deleted"
        PROVE SecretsTracked' /\ Authority'
    <3>1. SecretsTracked' BY <1>3, <2>1, <2>2, <2>5 DEF SecretsTracked
    <3>2. Authority' BY <1>3, <2>1, <2>2, <2>3, <2>4, <2>5 DEF Authority
    <3>3. QED BY <3>1, <3>2
  <2>6. CASE GiveUp
    <3>1. row'[job.c].state \in {"revoked", "deleted"}
          /\ (row'[job.c].state = "deleted" => row[job.c].state = "deleted")
      BY <1>7, <2>1, <2>6 DEF Issuing
    <3>2. QED BY <1>5, <1>7, <2>1, <2>5, <2>6, <3>1 DEF Tracked, Issuing
  <2>7. CASE End /\ row' = row
    <3>1. job'.pc \notin Issuing BY <1>4, <2>7
    <3>2. QED BY <1>5, <2>2, <2>5, <2>7, <3>1 DEF Tracked
  <2>8. CASE /\ mount' = [mount EXCEPT ![job.m] = job.c] /\ job' = [job EXCEPT !.pc = "activate"]
             /\ row' = row
    <3>1. mount'[job.m] = job.c BY <1>1, <2>2, <2>8
    <3>2. SecretsTracked' /\ Authority' BY <2>2, <2>5, <2>8
    <3>3. job'.pc = "activate" /\ job'.c = job.c /\ job'.m = job.m BY <1>1, <2>8 DEF Jobs
    <3>4. Active(job.m)' = {} BY <2>2, <2>8, <3>3 DEF Active
    <3>5. Making' BY <2>1, <2>2, <2>8, <3>1, <3>3, <3>4 DEF Making
    <3>6. QED BY <3>2, <3>5 DEF Tracked
  <2>9. QED BY <1>9, <2>6, <2>7, <2>8 DEF Mount
<1>10. ASSUME Activate PROVE Tracked'
  <2>1. job.pc = "activate" /\ UNCHANGED <<secret, mount>> BY <1>10 DEF Activate, provider
  <2>2. /\ job.c \in Creds /\ job.m \in Machines /\ row[job.c].m = job.m
        /\ row[job.c].state \in {"pending", "revoked", "deleted"}
        /\ row[job.c].state = "pending" => secret[job.c] = "held"
        /\ mount[job.m] = job.c
    BY <1>2, <2>1 DEF Issuing
  <2>3. ASSUME \A a \in Creds : a # job.c => row'[a] = row[a],
               row'[job.c].known = row[job.c].known, row'[job.c].age = row[job.c].age,
               row'[job.c].m = row[job.c].m,
               row'[job.c].state \in {"active", "revoked", "deleted"},
               row'[job.c].state = "deleted" => row[job.c].state = "deleted",
               row'[job.c].state = "active" => row[job.c].state = "pending"
        PROVE SecretsTracked' /\ Authority'
    <3>1. SecretsTracked' BY <1>3, <2>1, <2>2, <2>3 DEF SecretsTracked
    <3>2. Authority' BY <1>3, <2>1, <2>2, <2>3 DEF Authority
    <3>3. QED BY <3>1, <3>2
  <2>4. CASE GiveUp
    <3>1. row'[job.c].state \in {"revoked", "deleted"}
          /\ (row'[job.c].state = "deleted" => row[job.c].state = "deleted")
      BY <1>7, <2>1, <2>4 DEF Issuing
    <3>2. QED BY <1>5, <1>7, <2>1, <2>3, <2>4, <3>1 DEF Tracked, Issuing
  <2>5. CASE /\ MayActivate(job.c) /\ row' = [row EXCEPT ![job.c].state = "active"]
             /\ \E o : Save(job.s, o)
    <3>1. row[job.c].state = "pending" BY <2>5 DEF MayActivate
    <3>2. /\ row'[job.c].state = "active" /\ row'[job.c].known = row[job.c].known
          /\ row'[job.c].m = row[job.c].m /\ row'[job.c].age = row[job.c].age
          /\ \A a \in Creds : a # job.c => row'[a] = row[a]
      BY <1>1, <2>2, <2>5 DEF Rows
    <3>3. job'.pc \notin Issuing BY <1>4, <2>5
    <3>4. QED BY <1>5, <2>3, <3>1, <3>2, <3>3 DEF Tracked
  <2>6. QED BY <1>10, <2>4, <2>5 DEF Activate
<1>11. QED BY <1>6, <1>8, <1>9, <1>10

LEMMA TrackedNext ==
    ASSUME Typed, Tracked, Next
    PROVE Tracked'
<1>1. CredTyped /\ OpTyped /\ Attached BY TypesAre DEF Typed
<1>2. ASSUME World, UNCHANGED browserVars PROVE Tracked'
  BY <1>1, <1>2, ActorsTracked, CleanTracked DEF World
<1>3. ASSUME NEW c \in Creds, Age(c), UNCHANGED browserVars PROVE Tracked'
  BY <1>1, <1>3, CleanTracked
<1>4. Issues => Tracked' BY <1>1, JobsTracked, IssueTracked DEF Issues
<1>5. QED BY <1>1, <1>2, <1>3, <1>4, JobsTracked, Steps

-----------------------------------------------------------------------------
(* The theorems. *)

LEMMA InitIInv == Init => IInv
<1>1. SUFFICES ASSUME Init PROVE IInv OBVIOUS
<1>2. MaxFaults \in Nat /\ MaxRequests \in Nat BY CredentialsAssumption
<1>3. CredTyped
  <2>1. vm \in [Machines -> MachineStates] BY <1>1 DEF Init, CredInit, MachineStates
  <2>2. /\ mount \in [Machines -> Creds \cup {None}]
        /\ secret \in [Creds -> {"none", "late", "held", "gone"}]
        /\ cached \in Machines \cup {None} /\ cron \in Creds \cup {None}
    BY <1>1 DEF Init, CredInit
  <2>3. row \in [Creds -> Rows] BY <1>1 DEF Init, CredInit, NoRow, Rows
  <2>4. /\ api \in [pc : {"idle", "create", "start", "write"}, m : Machines \cup {None}]
        /\ del \in [Deleters -> Deletions]
    BY <1>1 DEF Init, CredInit, Idle, Deletions
  <2>5. faults \in 0..MaxFaults /\ requests \in 0..MaxRequests
    BY <1>1, <1>2 DEF Init, CredInit
  <2>6. QED BY <2>1, <2>2, <2>3, <2>4, <2>5 DEF CredTyped
<1>4. op = [s \in Services |-> NoOp] /\ job = NoJob BY <1>1 DEF Init
<1>5. OpTyped
  <2>1. NoOp \in Operations BY DEF NoOp, Operations, Retired
  <2>2. NoJob \in Jobs BY DEF NoJob, Jobs, MachineStates
  <2>3. QED BY <1>4, <2>1, <2>2 DEF OpTyped
<1>6. LinkTyped BY <1>1 DEF Init, LinkTyped
<1>7. CountTyped BY <1>1 DEF Init, CountTyped
<1>8. job.pc = "idle" /\ job.next = "end" BY <1>4 DEF NoJob
<1>9. \A s \in Services : op[s].step = "discover" /\ op[s].phase = "none" /\ ~op[s].invalidated
  BY <1>4 DEF NoOp
<1>10. Attached BY <1>8, <1>9 DEF Attached
<1>11. Typed BY <1>3, <1>5, <1>6, <1>7, <1>10, TypesAre DEF Typed
<1>12. \A c \in Creds : row[c].state = "none" /\ secret[c] = "none"
  BY <1>1 DEF Init, CredInit, NoRow
<1>13. Tracked BY <1>8, <1>12 DEF Tracked, SecretsTracked, Authority, Making
<1>14. Access
  <2>1. Linked BY <1>1, <1>8 DEF Init, Linked
  <2>2. AccessRevoked BY <1>9 DEF AccessRevoked, Retired
  <2>3. QED BY <2>1, <2>2 DEF Access
<1>15. Creating
  <2>1. creates = 0 BY <1>1 DEF Init
  <2>2. QED BY <2>1 DEF Creating, InDoubt, CreatedOnce
<1>16. QED BY <1>11, <1>13, <1>14, <1>15 DEF IInv

LEMMA StutterIInv ==
    ASSUME IInv, UNCHANGED vars
    PROVE IInv'
<1>1. UNCHANGED browserVars /\ UNCHANGED credVars BY DEF vars
<1>2. Typed /\ Tracked /\ Access /\ Creating BY DEF IInv
<1>3. /\ CredTyped /\ OpTyped /\ Attached /\ LinkTyped /\ CountTyped BY <1>2, TypesAre DEF Typed
<1>4. op' = op /\ job' = job /\ UNCHANGED <<links, uncertain, creates>>
  BY <1>1 DEF browserVars, stored
<1>5. CredTyped' BY <1>1, <1>3, FaultTyped
      DEF credVars, CredTyped, provider, authority, actors, counts
<1>6. OpTyped' /\ Attached' BY <1>3, <1>4 DEF OpTyped, Attached
<1>7. LinkTyped' /\ CountTyped' BY <1>3, <1>4, LinksKept, CountKept
<1>8. Typed' BY <1>5, <1>6, <1>7, TypesAre, PTL DEF Typed
<1>9. UNCHANGED <<row, secret, mount>> BY <1>1 DEF credVars, provider, authority
<1>10. Tracked' BY <1>2, <1>3, <1>4, <1>9, TrackedSame
<1>11. Access' BY <1>2, <1>4 DEF links, Access, Linked, AccessRevoked
<1>12. Creating' BY <1>2, <1>4 DEF Creating, InDoubt, CreatedOnce
<1>13. QED BY <1>8, <1>10, <1>11, <1>12 DEF IInv

\* The invariant of the controller, its credentials and its links holds in every
\* behaviour: every job, eviction, lost call, alarm, cleanup and stray machine.
THEOREM SandboxInvariantHolds == Spec => []IInv
<1>1. Init => IInv BY InitIInv
<1>2. IInv /\ [Next]_vars => IInv'
  <2>1. SUFFICES ASSUME IInv, [Next]_vars PROVE IInv' OBVIOUS
  <2>2. CASE Next
    <3>1. Typed /\ Tracked /\ Access /\ Creating BY <2>1 DEF IInv
    <3>2. Typed' BY <2>2, <3>1, TypedNext
    <3>3. Tracked' BY <2>2, <3>1, TrackedNext
    <3>4. Access' BY <2>2, <3>1, AccessNext
    <3>5. Creating' BY <2>2, <3>1, CreatingNext
    <3>6. QED BY <3>2, <3>3, <3>4, <3>5 DEF IInv
  <2>3. CASE UNCHANGED vars BY <2>1, <2>3, StutterIInv
  <2>4. QED BY <2>1, <2>2, <2>3
<1>3. QED BY <1>1, <1>2, PTL DEF Spec

\* Every variable keeps its type; in particular a job that goes on knows the
\* service, the machine and the credential its next step writes to.
THEOREM SandboxTypeCorrect == Spec => []TypeOK
<1>1. IInv => TypeOK BY DEF IInv, Typed
<1>2. QED BY <1>1, SandboxInvariantHolds, PTL

\* No secret is without a row that will delete it (createSecret after the INSERT,
\* cleanupSandboxCredentials keeping rows whose secret may yet appear).
THEOREM SecretsAreTracked == Spec => []SecretsTracked
<1>1. IInv => SecretsTracked BY DEF IInv, Tracked
<1>2. QED BY <1>1, SandboxInvariantHolds, PTL

\* A credential that authorizes on a machine that exists is mounted there
\* (activation is conditional on the row still pending, after the mount).
THEOREM ActiveCredentialsAreMounted == Spec => []ActiveIsMounted
<1>1. IInv => ActiveIsMounted BY DEF IInv, Tracked, Authority, ActiveIsMounted
<1>2. QED BY <1>1, SandboxInvariantHolds, PTL

\* No create is begun while the outcome of another is in doubt (the owner's
\* creationUncertain, stored before the call).
THEOREM CreatesHappenOnce == Spec => []CreatedOnce
<1>1. IInv => CreatedOnce BY DEF IInv, Creating
<1>2. QED BY <1>1, SandboxInvariantHolds, PTL

\* Access an operation calls revoked is closed: no link, no socket, no handshake
\* that can still open one (revokeUserPreview and the connection managers).
THEOREM RevokedAccessIsClosed == Spec => []AccessRevoked
<1>1. IInv => AccessRevoked BY DEF IInv, Access
<1>2. QED BY <1>1, SandboxInvariantHolds, PTL
=============================================================================
