---------------------------- MODULE InboxEvents ----------------------------
(* The API's event stream over the feed: it takes a lease, then checks the    *)
(* subscriber's access and reads a page in turn, sends only while its last    *)
(* checks are fresh, and ends with a reason the subscriber acts on.  The      *)
(* subscriber saves the cursor of what it processed and connects again.       *)
EXTENDS InboxFeed

CONSTANTS None,
          Fresh,        \* FRESH_MS
          MaxEvents,    \* MAX_EVENTS of a connection
          Sandboxed,    \* the subscriber's credential is a sandbox's
          MaxFaults     \* bound on lost connections, slow calls and the like

ASSUME StreamAssumption ==
    /\ {Fresh, MaxEvents} \subseteq Nat \ {0} /\ MaxFaults \in Nat
    /\ PageSize <= MaxEvents
    /\ Sandboxed \in BOOLEAN
    /\ None \notin Streams

VARIABLES
    access,     \* the subscriber's credential, account and machine are good
    lapsed,     \* history: time since its access or the inbox ended
    st,         \* the streams: openInboxStream's locals
    client,     \* the subscriber
    faults

vars == <<feed, lease, access, lapsed, st, client, faults>>

Off == [pc |-> "off", cursor |-> Start, page |-> Refusal("none"),
        events |-> 0, ready |-> FALSE, age |-> 0, ver |-> 0]
Opening == {"resolve", "lease"}
Open == {"auth", "read", "answer", "send", "pause"}
StepTo(s, pc) == st' = [st EXCEPT ![s].pc = pc]

\* The messages a subscriber from Start must see; from Now, the set is fixed
\* when the feed resolves its position.
Owes(p) == IF p = Now THEN {} ELSE Messages

Init ==
    /\ FeedInit
    /\ access = TRUE
    /\ lapsed = 0
    /\ st = [s \in Streams |-> Off]
    /\ \E p \in {Start, Now} :
        client = [at |-> None, cursor |-> p, owed |-> Owes(p), got |-> {},
                  waits |-> FALSE, stopped |-> FALSE, misread |-> FALSE]
    /\ faults = 0

Fault == faults < MaxFaults /\ faults' = faults + 1
NoFault == UNCHANGED faults
Same == UNCHANGED <<feed, access, lapsed>>

-----------------------------------------------------------------------------
(* What the subscriber does with an answer.  It waits before it connects      *)
(* again, and stops when told that its access or the inbox is gone.           *)
Final == {"auth_revoked", "not_found"}
Left(c) == [c EXCEPT !.at = None, !.waits = TRUE]
Told(c, reason) ==
    IF reason \in Final THEN [Left(c) EXCEPT !.stopped = TRUE]
    ELSE IF reason = "expired" THEN [Left(c) EXCEPT !.cursor = Start, !.owed = Messages]
    ELSE Left(c)
\* The terminal frame carries the stream's cursor, except to one that starts.
Ended(c, reason, cursor) ==
    Told(IF cursor \in {Start, Now} THEN c ELSE [c EXCEPT !.cursor = cursor], reason)

\* finish, which also releases the lease; an abrupt end says nothing.
Closing(s) == st' = [st EXCEPT ![s] = [Off EXCEPT !.pc = "release"]]
Finish(s, reason, cursor) ==
    /\ Closing(s)
    /\ client' = Ended(client, reason, cursor)

\* A sandbox's credential is good only if the provider says that its machine is
\* there.  No answer, an error or an unreadable one makes it null, as if it had
\* been revoked: the subscriber gets a 401, or its stream ends auth_revoked.
\* misread is history: no answer to the subscriber tells the two apart.
Misread(c) == [c EXCEPT !.misread = TRUE]

\* Streams are alike: a connection takes one that has no part in another.
Free == {s \in Streams : st[s].pc = "off" /\ lease[s] = 0}
Connect ==
    /\ client.at = None /\ ~client.waits /\ ~client.stopped
    /\ Free # {}
    /\ \/ /\ access
          /\ LET s == CHOOSE f \in Free : TRUE IN
             /\ client' = [client EXCEPT !.at = s]
             /\ st' = [st EXCEPT ![s] = [Off EXCEPT !.pc = "resolve", !.cursor = client.cursor]]
          /\ NoFault
       \/ /\ ~access
          /\ client' = Told(client, "auth_revoked")
          /\ UNCHANGED st /\ NoFault
       \/ /\ access /\ Sandboxed
          /\ client' = Told(Misread(client), "auth_revoked")
          /\ UNCHANGED st /\ Fault
       \/ /\ client' = Told(client, "unavailable")
          /\ UNCHANGED st /\ Fault
    /\ Same /\ UNCHANGED lease

\* An answer without a stream.
Refused(s, reason) ==
    /\ st' = [st EXCEPT ![s] = Off]
    /\ client' = Told(client, reason)

\* acquireEventStream's first read, which resolves now to a position.
MutantResolved(p) == p
Resolved(p) == IF p = Now THEN Cursor(head) ELSE p
Resolve(s) ==
    /\ st[s].pc = "resolve"
    /\ \E a \in Answers(st[s].cursor, TRUE) :
        IF a.error # "none" THEN Refused(s, a.error)
        ELSE /\ st' = [st EXCEPT ![s].pc = "lease", ![s].cursor = Resolved(@)]
             /\ client' = IF st[s].cursor = Now
                          THEN [client EXCEPT !.owed = {m \in Messages : state[m] = "none"}]
                          ELSE client
    /\ Same /\ NoFault /\ UNCHANGED lease

Lease(s) ==
    /\ st[s].pc = "lease"
    /\ \/ /\ Acquirable
          /\ TakeLease(s)
          /\ st' = [st EXCEPT ![s].pc = "auth"]
          /\ UNCHANGED client
       \/ /\ ~Acquirable
          /\ Refused(s, IF alive THEN "busy" ELSE "not_found")
          /\ UNCHANGED lease
    /\ Same /\ NoFault

\* The acquisition fails or exceeds its bound, whether it took a lease or not.
GiveUp(s) ==
    /\ st[s].pc \in Opening
    /\ Refused(s, "unavailable")
    /\ \/ Acquirable /\ TakeLease(s)
       \/ UNCHANGED lease
    /\ Fault /\ Same

-----------------------------------------------------------------------------
(* run. *)
Authorize(s) ==
    /\ st[s].pc = "auth"
    /\ \/ access /\ StepTo(s, "read") /\ UNCHANGED client /\ NoFault
       \/ ~access /\ Finish(s, "auth_revoked", st[s].cursor) /\ NoFault
       \/ /\ access /\ Sandboxed
          /\ Closing(s)
          /\ client' = Ended(Misread(client), "auth_revoked", st[s].cursor)
          /\ Fault
    /\ Same /\ UNCHANGED lease

Read(s) ==
    /\ st[s].pc = "read"
    /\ \E a \in Answers(st[s].cursor, lease[s] > 0) :
        st' = [st EXCEPT ![s].pc = "answer", ![s].page = a]
    /\ Same /\ NoFault /\ UNCHANGED <<lease, client>>

\* verifiedAt, when the answer to checks begun this long ago is taken.
MutantVerifiedAge(age) == 0
VerifiedAge(age) == age
\* Rows that expired since the read are left out.
Kept(rows) == {kept \in SUBSET rows : \A m \in rows \ kept : state[m] = "gone"}
MutantPageReason(s) ==
    IF ~alive THEN "not_found"
    ELSE IF st[s].page.error # "none" THEN st[s].page.error
    ELSE IF lease[s] = 0 THEN "lifetime"
    ELSE IF st[s].age >= Fresh THEN "unavailable"
    ELSE "none"
PageReason(s) ==
    IF lease[s] = 0 THEN "lifetime"
    ELSE IF ~alive THEN "not_found"
    ELSE IF st[s].page.error # "none" THEN st[s].page.error
    ELSE IF st[s].age >= Fresh THEN "unavailable"
    ELSE "none"
\* The inbox checks itself once more, then the API takes the page.
Answer(s) ==
    /\ st[s].pc = "answer"
    /\ \/ /\ PageReason(s) # "none"
          /\ Finish(s, PageReason(s), st[s].cursor)
       \/ /\ PageReason(s) = "none"
          /\ \E kept \in Kept(st[s].page.rows) :
              \/ /\ st[s].events + Cardinality(kept) > MaxEvents
                 /\ Finish(s, "replay_limit", st[s].cursor)
              \/ /\ st[s].events + Cardinality(kept) <= MaxEvents
                 /\ st' = [st EXCEPT ![s].pc = "send", ![s].page.rows = kept,
                                     ![s].ver = VerifiedAge(st[s].age)]
                 /\ UNCHANGED client
    /\ Same /\ NoFault /\ UNCHANGED lease

\* The frames of a page: its events, then ready, or else a checkpoint, each with
\* the cursor the subscriber saves.  A keepalive carries none.
Newest(rows) == {m \in rows : \A k \in rows : seq[k] <= seq[m]}
Framed(p, s) ==
    IF ~p.more /\ ~st[s].ready THEN {p.to}
    ELSE IF p.rows # {} THEN {Cursor(seq[m]) : m \in Newest(p.rows)}
    ELSE {IF p.to # st[s].cursor THEN p.to ELSE client.cursor}
Received(c, p, saved) == [c EXCEPT !.got = @ \cup p.rows, !.cursor = saved]
Send(s) ==
    LET page == st[s].page
        events == st[s].events + Cardinality(page.rows)
        full == events >= MaxEvents
        next == IF page.more THEN "auth" ELSE "pause"
    IN
    /\ st[s].pc = "send" /\ st[s].ver < Fresh
    /\ \E saved \in Framed(page, s) :
        LET heard == Received(client, page, saved) IN
        client' = IF full THEN Ended(heard, "replay_limit", page.to) ELSE heard
    /\ IF full THEN Closing(s)
       ELSE st' = [st EXCEPT ![s] = [st[s] EXCEPT !.pc = next, !.cursor = page.to,
                       !.page = Refusal("none"), !.events = events,
                       !.ready = IF page.more THEN st[s].ready ELSE TRUE, !.age = 0]]
    /\ Same /\ NoFault /\ UNCHANGED lease

Poll(s) ==
    /\ st[s].pc = "pause" /\ st[s].age > 0
    /\ st' = [st EXCEPT ![s].pc = "auth", ![s].age = 0]
    /\ Same /\ NoFault /\ UNCHANGED <<lease, client>>

\* The watchdog, and the last check before a send.
Watchdog(s) ==
    /\ st[s].pc \in Open
    /\ \/ lease[s] = 0 /\ Finish(s, "lifetime", st[s].cursor)
       \/ st[s].ver >= Fresh /\ Finish(s, "unavailable", st[s].cursor)
    /\ Same /\ NoFault /\ UNCHANGED lease

Release(s) ==
    /\ st[s].pc = "release"
    /\ DropLease(s)
    /\ st' = [st EXCEPT ![s] = Off]
    /\ Same /\ NoFault /\ UNCHANGED client

-----------------------------------------------------------------------------
(* What goes wrong. *)
\* A call of the loop throws.
Fails(s) ==
    /\ st[s].pc \in {"auth", "read"}
    /\ Finish(s, "unavailable", st[s].cursor)
    /\ Fault /\ Same /\ UNCHANGED lease
\* No demand for a frame in time.
SlowReader(s) ==
    /\ st[s].pc = "send"
    /\ Closing(s)
    /\ client' = Left(client)
    /\ Fault /\ Same /\ UNCHANGED lease
\* The subscriber loses the connection.  Whatever the API still does for it, it
\* comes to nothing but a lease held until that is noticed.
Lose(s) ==
    /\ client.at = s
    /\ \/ st[s].pc \in Open /\ UNCHANGED lease
       \/ st[s].pc \in Opening /\ Acquirable /\ TakeLease(s)
    /\ st' = [st EXCEPT ![s] = [Off EXCEPT !.pc = "lost"]]
    /\ client' = Left(client)
    /\ Fault /\ Same
\* By the abort, the missing demand, the deadline or a failing check.
Noticed(s) ==
    /\ st[s].pc = "lost"
    /\ Closing(s)
    /\ Same /\ NoFault /\ UNCHANGED <<lease, client>>
\* The release is refused, or the isolate goes: the lease runs out by itself.
Abandon(s) ==
    /\ st[s].pc \in Open \cup {"lost", "release"}
    /\ st' = [st EXCEPT ![s] = Off]
    /\ client' = IF client.at = s THEN Left(client) ELSE client
    /\ Fault /\ Same /\ UNCHANGED lease

RevokeAccess ==
    /\ access
    /\ access' = FALSE
    /\ NoFault /\ UNCHANGED <<feed, lease, lapsed, st, client>>

FeedChanges ==
    /\ \/ \E m \in Messages : Arrive(m) \/ Remove(m)
       \/ EndInbox
    /\ NoFault /\ UNCHANGED <<access, lapsed, st, client>>
\* With the worker stopped, so that no stream is open.
RebuildFeed ==
    /\ \A s \in Streams : st[s].pc = "off"
    /\ Rebuild
    /\ Fault /\ UNCHANGED <<access, lapsed, st, client>>

Aged(n) == IF n < Fresh THEN n + 1 ELSE n
\* Time passes for free over pauses, and at a cost over a call or a send.
Tick ==
    /\ LeasesAge
    /\ st' = [s \in Streams |-> IF st[s].pc \notin Open THEN st[s]
                                ELSE [st[s] EXCEPT !.age = Aged(@), !.ver = Aged(@)]]
    /\ lapsed' = IF access /\ alive THEN 0 ELSE Aged(lapsed)
    /\ client' = [client EXCEPT !.waits = FALSE]
    /\ IF \A s \in Streams : \/ st[s].pc = "off"
                             \/ st[s].pc = "pause" /\ st[s].age = 0
                             \/ st[s].pc = "lost" /\ lease[s] > 0
       THEN NoFault ELSE Fault
    /\ UNCHANGED <<feed, access>>

-----------------------------------------------------------------------------
Step(s) == Resolve(s) \/ Lease(s) \/ Authorize(s) \/ Read(s) \/ Answer(s)
           \/ Send(s) \/ Poll(s) \/ Watchdog(s) \/ Release(s)
Late(s) == lease[s] = 0 /\ Noticed(s)
Trouble(s) == GiveUp(s) \/ Fails(s) \/ SlowReader(s) \/ Lose(s) \/ Abandon(s)

Next ==
    \/ Connect
    \/ \E s \in Streams : Step(s) \/ Noticed(s) \/ Trouble(s)
    \/ RevokeAccess \/ FeedChanges \/ RebuildFeed \/ Tick

Spec == Init /\ [][Next]_vars

\* The isolate runs what is due, the subscriber comes back, and time passes.
FairSpec ==
    /\ Spec
    /\ \A s \in Streams : WF_vars(Step(s)) /\ WF_vars(Late(s))
    /\ WF_vars(Connect)
    /\ WF_vars(Tick)

-----------------------------------------------------------------------------
Cursors == [epoch : 0..epoch, seq : -1..MaxMessages]
Pages == [error : {"none", "not_found", "expired"}, to : Cursors,
          rows : SUBSET Messages, more : BOOLEAN]
\* The program's state: a stream holds positions of the current database or
\* older ones, and the inbox never grants a lease past its cap.
TypeOK ==
    /\ state \in [Messages -> {"none", "stored", "gone"}]
    /\ seq \in [Messages -> 0..head]
    /\ head \in 0..MaxMessages /\ epoch \in 1..MaxEpoch
    /\ alive \in BOOLEAN /\ access \in BOOLEAN /\ lapsed \in 0..Fresh
    /\ lease \in [Streams -> 0..Lifetime] /\ Cardinality(Leased) <= MaxLeases
    /\ st \in [Streams ->
            [pc : Open \cup Opening \cup {"off", "lost", "release"},
             cursor : Cursors, page : Pages, events : 0..MaxEvents,
             ready : BOOLEAN, age : 0..Fresh, ver : 0..Fresh]]
    /\ client \in [at : Streams \cup {None}, cursor : Cursors, owed : SUBSET Messages,
                   got : SUBSET Messages, waits : BOOLEAN, stopped : BOOLEAN,
                   misread : BOOLEAN]
    /\ faults \in 0..MaxFaults

\* A message the subscriber is owed lies behind the cursor it saved only when it
\* was given to it (or is gone): no commit between two reads, during the
\* handshake, behind a full page or in another database is passed over.
NoGap ==
    \A m \in client.owed :
        /\ m \in Stored
        /\ client.cursor.epoch = epoch /\ seq[m] <= client.cursor.seq
        => m \in client.got

\* Events reach a subscriber only while its access and the inbox ended, if they
\* did, less than FRESH_MS ago, however slow the checks, the read and the send.
CutOff == [][client'.got # client.got => lapsed < Fresh]_vars

\* A subscriber is told to stop only when its access or the inbox has ended, or
\* when it holds a sandbox's credential and the provider did not say that the
\* machine is there.  No other failure reads as an end: not a lease that ran
\* out, a full inbox, a slow or failed check or read, or an older database.
StopIsFinal ==
    client.stopped => ~access \/ ~alive \/ (Sandboxed /\ client.misread)

\* What inbox/DESIGN.md:172-176 says: auth_revoked and not_found mean stop, an
\* outage means back off and resume.  The code does not keep it (api/src/
\* sandboxCredentials.ts:58-65), so no run checks it.
OutageIsNoEnd == client.stopped => ~access \/ ~alive

\* A message the subscriber is owed reaches it while both go on, over lost
\* connections, leaked leases and a new database: unless a sandbox's credential
\* was misread, for the subscriber then stops and nothing brings it back.
Delivered ==
    \A m \in Messages :
        m \in Stored \cap client.owed ~>
            \/ m \in client.got
            \/ m \notin Stored \/ m \notin client.owed
            \/ ~access \/ ~alive
            \/ client.misread
=============================================================================
