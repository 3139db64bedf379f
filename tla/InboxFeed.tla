----------------------------- MODULE InboxFeed -----------------------------
(* The arrival events of one inbox, as its database keeps them: a message     *)
(* takes the next sequence number when it is stored, a cursor is a position   *)
(* in one database, a page is read in one snapshot, and a stream reads under  *)
(* a lease of fixed length.  One unit of time is the pause between two polls. *)
EXTENDS Integers, FiniteSets

CONSTANTS MaxMessages,  \* bound on messages
          Streams,      \* event streams, each with at most one lease at a time
          PageSize,     \* EVENT_PAGE
          MaxLeases,    \* leases of an inbox
          Lifetime,     \* of a lease
          MaxEpoch      \* bound on databases

ASSUME FeedAssumption ==
    /\ {PageSize, MaxLeases, Lifetime, MaxEpoch} \subseteq Nat \ {0}
    /\ MaxMessages \in Nat
    /\ IsFiniteSet(Streams)

VARIABLES
    state,      \* a message is "none" yet, "stored" or "gone"
    seq,        \* events.seq of a message that was stored
    head,       \* inboxes.event_seq
    epoch,      \* event_feed.epoch, counted
    alive,      \* LIVE: neither destroyed nor past its lifetime
    lease       \* what is left of each stream's event_streams row

feed == <<state, seq, head, epoch, alive>>

\* Messages are named in the order they were first stored.
Messages == 1..MaxMessages
Stored == {m \in Messages : state[m] = "stored"}
Greater(a, b) == IF a < b THEN b ELSE a

-----------------------------------------------------------------------------
(* Cursors.  No after is Start; after=now is Now, which names no position.   *)
Start == [epoch |-> 0, seq |-> 0]
Now == [epoch |-> 0, seq |-> -1]
Cursor(n) == [epoch |-> epoch, seq |-> n]

(* readEvents. *)
Foreign(p) == p.epoch # 0 /\ (p.epoch # epoch \/ p.seq > head)
Later(p) == IF p = Now THEN {} ELSE {m \in Stored : seq[m] > p.seq}
Upto(p, n) == {m \in Later(p) : seq[m] <= n}
\* A page from p takes the rows up to n, and n is the position it reaches: its
\* last row's when there is more, the head's otherwise.
Reaches(p, n) ==
    \/ /\ Cardinality(Later(p)) <= PageSize
       /\ n = Greater(p.seq, head)
    \/ /\ Cardinality(Later(p)) > PageSize
       /\ \E m \in Later(p) : n = seq[m]
       /\ Cardinality(Upto(p, n)) = PageSize
Page(p, n) == [error |-> "none", to |-> Cursor(n), rows |-> Upto(p, n),
               more |-> Later(p) # Upto(p, n)]
Refusal(e) == [error |-> e, to |-> Start, rows |-> {}, more |-> FALSE]
\* The answers to a read at p by the holder of a lease or, in listEvents, not.
Answers(p, held) ==
    IF ~alive \/ ~held THEN {Refusal("not_found")}
    ELSE IF Foreign(p) THEN {Refusal("expired")}
    ELSE {Page(p, n) : n \in {k \in 0..head : Reaches(p, k)}}

Leased == {s \in Streams : lease[s] > 0}

-----------------------------------------------------------------------------
FeedInit ==
    /\ state = [m \in Messages |-> "none"]
    /\ seq = [m \in Messages |-> 0]
    /\ head = 0
    /\ epoch = 1
    /\ alive = TRUE
    /\ lease = [s \in Streams |-> 0]

\* commit: the stored mark, the next number and the event in one batch.
Arrive(m) ==
    /\ alive
    /\ state[m] = "none" /\ \A k \in 1..(m - 1) : state[k] # "none"
    /\ state' = [state EXCEPT ![m] = "stored"]
    /\ head' = head + 1
    /\ seq' = [seq EXCEPT ![m] = head + 1]
    /\ UNCHANGED <<epoch, alive, lease>>

\* The owner deletes the message, or it expires; its event goes with it.
Remove(m) ==
    /\ state[m] = "stored"
    /\ state' = [state EXCEPT ![m] = "gone"]
    /\ UNCHANGED <<seq, head, epoch, alive, lease>>

EndInbox ==
    /\ alive
    /\ alive' = FALSE
    /\ UNCHANGED <<state, seq, head, epoch, lease>>

\* The migration on another database: a new epoch, and the stored messages
\* numbered again, in the order of their receipt, which need not be their
\* order before.
Rebuild ==
    LET last == Cardinality(Stored) IN
    /\ epoch < MaxEpoch
    /\ \E number \in [Stored -> 1..last] :
        /\ \A m, k \in Stored : number[m] = number[k] => m = k
        /\ seq' = [m \in Messages |-> IF m \in Stored THEN number[m] ELSE 0]
        /\ head' = last
        /\ epoch' = epoch + 1
        /\ lease' = [s \in Streams |-> 0]
        /\ UNCHANGED <<state, alive>>

\* acquireEventStream's second batch: the count and the row in one statement.
MutantAcquirable == alive
Acquirable == alive /\ Cardinality(Leased) < MaxLeases
TakeLease(s) == lease' = [lease EXCEPT ![s] = Lifetime]
DropLease(s) == lease' = [lease EXCEPT ![s] = 0]
MutantLeasesAge == UNCHANGED lease
LeasesAge == lease' = [s \in Streams |-> Greater(lease[s] - 1, 0)]
=============================================================================
