------------------------- MODULE InboxEventsProofs -------------------------
(* For every number of messages, streams, leases and failures, a subscriber   *)
(* of InboxEvents skips nothing it is owed, is cut off in time, and is told   *)
(* to stop only for an end or for a sandbox's credential misread.             *)
EXTENDS InboxEvents, FiniteSetTheorems, TLAPS

-----------------------------------------------------------------------------
(* The inductive invariant. *)
Following(x) == x.pc \in Open \cup Opening
Follows(s) == Following(st[s])
Attached == \A s \in Streams : Follows(s) <=> client.at = s

\* Numbers grow with arrivals: a message still to come is named past the head.
Numbered ==
    /\ \A m \in Messages : state[m] = "none" =>
          head < m /\ \A k \in Messages : m < k => state[k] = "none"
    /\ \A m \in Stored : seq[m] > 0

\* Between two databases no position counts, and in one none is past the head.
InRange(c) == /\ c.epoch = 0 => c \in {Start, Now}
              /\ c.epoch = epoch => c.seq <= head
Positioned ==
    /\ InRange(client.cursor)
    /\ \A s \in Streams :
        /\ Follows(s) => InRange(st[s].cursor)
        /\ st[s].pc \in Open \cup {"lease"} =>
              st[s].cursor = Start \/ st[s].cursor.epoch = epoch

\* What is owed and lies at c or before was given.
Covered(c) ==
    \A m \in client.owed \cap Stored :
        c.epoch = epoch /\ seq[m] <= c.seq => m \in client.got

\* A page holds all that is stored between the stream's position and its own.
Whole(s) ==
    LET p == st[s].page IN
    /\ p.to.epoch = epoch /\ p.to.seq <= head
    /\ \A m \in p.rows : seq[m] <= p.to.seq /\ state[m] # "none"
    /\ \A m \in Stored :
        st[s].cursor.seq < seq[m] /\ seq[m] <= p.to.seq => m \in p.rows
Held ==
    \A s \in Streams :
        /\ Follows(s) => Covered(st[s].cursor)
        /\ st[s].pc = "send" => st[s].page.error = "none"
        /\ st[s].pc \in {"answer", "send"} /\ st[s].page.error = "none" => Whole(s)

\* The checks a page stands for began no later than the access and the inbox
\* ended, if they did; a page refused as not found was refused for that.
Checked ==
    /\ access /\ alive => lapsed = 0
    /\ \A s \in Streams :
        /\ st[s].pc = "read" /\ alive => lapsed <= st[s].age
        /\ st[s].pc = "answer" /\ st[s].page.error = "none" => lapsed <= st[s].age
        /\ st[s].pc = "send" => lapsed <= st[s].ver
        /\ st[s].pc = "answer" /\ st[s].page.error = "not_found" =>
              ~alive \/ lease[s] = 0

IInv == /\ TypeOK /\ Attached /\ Numbered /\ Positioned /\ NoGap /\ Held
        /\ Checked /\ StopIsFinal

\* What a subscriber that stopped must have met.
Excused(c) == ~access \/ ~alive \/ (Sandboxed /\ c.misread)

Bounds == FeedAssumption /\ StreamAssumption
LEMMA BoundsHold == Bounds BY FeedAssumption, StreamAssumption DEF Bounds

-----------------------------------------------------------------------------
(* Leases. *)
LeaseOK == lease \in [Streams -> 0..Lifetime] /\ Cardinality(Leased) <= MaxLeases

LEMMA FewerLeases ==
    ASSUME LeaseOK, lease' \in [Streams -> 0..Lifetime],
           \A t \in Streams : lease[t] = 0 => lease'[t] = 0
    PROVE LeaseOK'
<1>1. IsFiniteSet(Leased) /\ Leased' \subseteq Leased
  <2>1. Leased' \subseteq Leased BY DEF Leased, LeaseOK
  <2>2. IsFiniteSet(Streams) /\ Leased \subseteq Streams BY FeedAssumption DEF Leased
  <2>3. QED BY <2>1, <2>2, FS_Subset
<1>2. /\ Cardinality(Leased') \in Nat /\ Cardinality(Leased) \in Nat
      /\ Cardinality(Leased') <= Cardinality(Leased)
  BY <1>1, FS_Subset, FS_CardinalityType
<1>3. QED BY <1>2, FeedAssumption DEF LeaseOK

LEMMA OneMoreLease ==
    ASSUME LeaseOK, NEW s \in Streams, Acquirable, TakeLease(s)
    PROVE LeaseOK'
<1>1. lease' \in [Streams -> 0..Lifetime]
  BY FeedAssumption DEF LeaseOK, TakeLease
<1>2. IsFiniteSet(Leased)
  <2>1. IsFiniteSet(Streams) /\ Leased \subseteq Streams BY FeedAssumption DEF Leased
  <2>2. QED BY <2>1, FS_Subset
<1>3. Leased' = Leased \cup {s}
  BY FeedAssumption DEF LeaseOK, TakeLease, Leased
<1>4. /\ Cardinality(Leased) \in Nat
      /\ Cardinality(Leased') = IF s \in Leased THEN Cardinality(Leased)
                                ELSE Cardinality(Leased) + 1
  <2>1. Cardinality(Leased) \in Nat BY <1>2, FS_CardinalityType
  <2>2. Cardinality(Leased \cup {s}) = IF s \in Leased THEN Cardinality(Leased)
                                       ELSE Cardinality(Leased) + 1
    BY <1>2, FS_AddElement
  <2>3. QED BY <2>1, <2>2, <1>3
<1>5. QED BY <1>1, <1>4, FeedAssumption DEF LeaseOK, Acquirable

LEMMA DropKeeps == ASSUME LeaseOK, NEW s \in Streams, DropLease(s) PROVE LeaseOK'
<1>1. lease' \in [Streams -> 0..Lifetime] /\ \A t \in Streams : lease[t] = 0 => lease'[t] = 0
  BY FeedAssumption DEF LeaseOK, DropLease
<1>2. QED BY <1>1, FewerLeases

LEMMA AgeKeeps ==
    ASSUME LeaseOK, LeasesAge
    PROVE LeaseOK' /\ \A t \in Streams : lease[t] = 0 => lease'[t] = 0
<1>1. lease' \in [Streams -> 0..Lifetime] /\ \A t \in Streams : lease[t] = 0 => lease'[t] = 0
  BY FeedAssumption DEF LeaseOK, LeasesAge, Greater
<1>2. QED BY <1>1, FewerLeases

LEMMA AllDropped == ASSUME LeaseOK, lease' = [s \in Streams |-> 0] PROVE LeaseOK'
<1>1. lease' \in [Streams -> 0..Lifetime] /\ \A t \in Streams : lease[t] = 0 => lease'[t] = 0
  BY FeedAssumption DEF LeaseOK
<1>2. QED BY <1>1, FewerLeases

-----------------------------------------------------------------------------
(* What readEvents answers. *)
LEMMA AnswerIs ==
    ASSUME TypeOK, NEW p \in Cursors, NEW held \in BOOLEAN, NEW a \in Answers(p, held)
    PROVE /\ a \in Pages
          /\ a.error = "not_found" => ~alive \/ ~held
          /\ a.error = "none" =>
                /\ alive /\ ~Foreign(p)
                /\ a.to.epoch = epoch /\ a.to.seq \in 0..head
                /\ \A m \in a.rows : seq[m] <= a.to.seq /\ state[m] # "none"
                /\ p # Now => \A m \in Stored :
                      p.seq < seq[m] /\ seq[m] <= a.to.seq => m \in a.rows
<1>1. CASE a = Refusal("not_found") /\ (~alive \/ ~held)
  BY <1>1, FeedAssumption DEF Refusal, Pages, Cursors, Start, TypeOK
<1>2. CASE a = Refusal("expired")
  BY <1>2, FeedAssumption DEF Refusal, Pages, Cursors, Start, TypeOK
<1>3. CASE alive /\ ~Foreign(p) /\ \E n \in 0..head : a = Page(p, n)
  <2>1. PICK n \in 0..head : a = Page(p, n) BY <1>3
  <2>2. n \in -1..MaxMessages /\ epoch \in 0..epoch
    BY FeedAssumption DEF TypeOK
  <2>3. a.to = [epoch |-> epoch, seq |-> n] /\ a.rows = Upto(p, n) /\ a.error = "none"
        /\ a.more \in BOOLEAN /\ a = [error |-> a.error, to |-> a.to, rows |-> a.rows, more |-> a.more]
    BY <2>1 DEF Page, Cursor
  <2>4. Upto(p, n) \subseteq Messages /\ \A m \in Upto(p, n) : seq[m] <= n /\ state[m] # "none"
    BY DEF Upto, Later, Stored
  <2>5. p # Now => \A m \in Stored : p.seq < seq[m] /\ seq[m] <= n => m \in Upto(p, n)
    BY DEF Upto, Later, Stored, TypeOK, Cursors
  <2>6. a \in Pages BY <2>2, <2>3, <2>4 DEF Pages, Cursors
  <2>7. QED BY <1>3, <2>3, <2>4, <2>5, <2>6
<1>4. QED BY <1>1, <1>2, <1>3 DEF Answers

-----------------------------------------------------------------------------
(* The types of what a step assigns. *)
StreamRow == [pc : Open \cup Opening \cup {"off", "lost", "release"},
              cursor : Cursors, page : Pages, events : 0..MaxEvents,
              ready : BOOLEAN, age : 0..Fresh, ver : 0..Fresh]
Subscriber == [at : Streams \cup {None}, cursor : Cursors, owed : SUBSET Messages,
               got : SUBSET Messages, waits : BOOLEAN, stopped : BOOLEAN,
               misread : BOOLEAN]

LEMMA Constants ==
    ASSUME TypeOK
    PROVE /\ Start \in Cursors /\ Now \in Cursors /\ Refusal("none") \in Pages
          /\ Start # Now
          /\ Off \in StreamRow /\ ~Following(Off)
          /\ \A e \in {"release", "lost"} :
                [Off EXCEPT !.pc = e] \in StreamRow /\ ~Following([Off EXCEPT !.pc = e])
          /\ st \in [Streams -> StreamRow] /\ client \in Subscriber
<1>1. Start \in Cursors /\ Now \in Cursors /\ Start # Now
  BY FeedAssumption DEF TypeOK, Start, Now, Cursors
<1>2. Refusal("none") \in Pages
  BY <1>1 DEF Refusal, Pages
<1>3. Off \in StreamRow /\ ~Following(Off)
  BY <1>1, <1>2, StreamAssumption DEF Off, StreamRow, Following, Open, Opening
<1>4. \A e \in {"release", "lost"} :
        [Off EXCEPT !.pc = e] \in StreamRow /\ ~Following([Off EXCEPT !.pc = e])
  BY <1>3 DEF StreamRow, Following, Open, Opening
<1>5. QED BY <1>1, <1>2, <1>3, <1>4 DEF TypeOK, StreamRow, Subscriber

LEMMA MisreadIs ==
    ASSUME NEW c \in Subscriber
    PROVE LET d == Misread(c) IN
          /\ d \in Subscriber /\ d.misread = TRUE /\ d.cursor = c.cursor /\ d.owed = c.owed
          /\ d.got = c.got
BY DEF Misread, Subscriber

\* What an answer or an end makes of the subscriber.
LEMMA ToldIs ==
    ASSUME NEW c \in Subscriber, NEW reason, Start \in Cursors
    PROVE LET d == Told(c, reason) IN
          /\ d \in Subscriber /\ d.at = None
          /\ (d.cursor = c.cursor /\ d.owed = c.owed) \/ d.cursor = Start
          /\ d.got = c.got
          /\ d.stopped => c.stopped \/ reason \in Final
          /\ d.misread = c.misread
BY DEF Told, Left, Subscriber, Final

LEMMA EndedIs ==
    ASSUME NEW c \in Subscriber, NEW reason, NEW p \in Cursors, Start \in Cursors
    PROVE LET d == Ended(c, reason, p) IN
          /\ d \in Subscriber /\ d.at = None
          /\ \/ d.cursor \in {c.cursor, p} /\ d.owed = c.owed
             \/ d.cursor = Start
          /\ d.got = c.got
          /\ d.stopped => c.stopped \/ reason \in Final
          /\ d.misread = c.misread
<1>1. CASE p \in {Start, Now} BY <1>1, ToldIs DEF Ended
<1>2. CASE p \notin {Start, Now}
  <2> DEFINE e == [c EXCEPT !.cursor = p]
  <2>1. e \in Subscriber /\ e.cursor = p /\ e.owed = c.owed /\ e.got = c.got
        /\ e.stopped = c.stopped /\ e.misread = c.misread
    BY DEF Subscriber
  <2>2. Ended(c, reason, p) = Told(e, reason) BY <1>2 DEF Ended
  <2> HIDE DEF e
  <2>3. QED BY <2>1, <2>2, ToldIs
<1>3. QED BY <1>1, <1>2

LEMMA LeftIs ==
    ASSUME NEW c \in Subscriber
    PROVE LET d == Left(c) IN
          /\ d \in Subscriber /\ d.at = None /\ d.cursor = c.cursor /\ d.owed = c.owed
          /\ d.got = c.got /\ d.stopped = c.stopped /\ d.misread = c.misread
BY DEF Left, Subscriber

-----------------------------------------------------------------------------
(* Steps after which no stream follows. *)
\* The streams that end are not followed, and the subscriber goes with a position
\* that is its own, the stream's, or none.
LEMMA Leaving ==
    ASSUME IInv, LeaseOK', faults' \in 0..MaxFaults, Same,
           st' \in [Streams -> StreamRow], \A s \in Streams : ~Follows(s)',
           client' \in Subscriber, client'.at = None, client'.got = client.got,
           \/ client'.cursor = Start
           \/ /\ client'.owed = client.owed
              /\ \/ client'.cursor = client.cursor
                 \/ \E s \in Streams : Follows(s) /\ client'.cursor = st[s].cursor,
           client'.stopped => Excused(client')
    PROVE IInv'
<1>1. UNCHANGED <<state, seq, head, epoch, alive, access, lapsed>>
  BY DEF Same, feed
<1>2. TypeOK'
  BY <1>1 DEF IInv, TypeOK, LeaseOK, Leased, StreamRow, Subscriber, Cursors, Pages
<1>3. Attached' BY StreamAssumption DEF Attached
<1>4. Numbered' BY <1>1 DEF IInv, Numbered, Stored
<1>5. InRange(client.cursor)' /\ NoGap'
  <2>0. epoch # 0 /\ TypeOK BY FeedAssumption DEF IInv, TypeOK
  <2>1. CASE client'.cursor = Start
    BY <1>1, <2>0, <2>1 DEF InRange, NoGap, Start
  <2>2. CASE client'.owed = client.owed /\ client'.cursor = client.cursor
    BY <1>1, <2>2 DEF IInv, Positioned, InRange, NoGap, Stored
  <2>3. ASSUME NEW s \in Streams, Follows(s), client'.cursor = st[s].cursor,
               client'.owed = client.owed
        PROVE InRange(client.cursor)' /\ NoGap'
    <3>1. InRange(st[s].cursor) /\ Covered(st[s].cursor)
      BY <2>3 DEF IInv, Positioned, Held
    <3>2. QED BY <1>1, <2>3, <3>1 DEF InRange, Covered, NoGap, Stored
  <2>4. QED BY <2>1, <2>2, <2>3
<1>6. Positioned' BY <1>5 DEF Positioned, Follows, Following, Open, Opening
<1>7. Held' BY DEF Held, Follows, Following, Open, Opening
<1>8. Checked' BY <1>1 DEF IInv, Checked, Follows, Following, Open, Opening
<1>9. StopIsFinal' BY <1>1 DEF StopIsFinal, Excused
<1>10. QED BY <1>2, <1>3, <1>4, <1>5, <1>6, <1>7, <1>8, <1>9 DEF IInv

LEMMA Closes ==
    ASSUME IInv, NEW s \in Streams, NEW x \in StreamRow, ~Following(x),
           st' = [st EXCEPT ![s] = x], Follows(s) \/ client.at = None
    PROVE st' \in [Streams -> StreamRow] /\ \A t \in Streams : ~Follows(t)'
<1>1. TypeOK /\ Attached BY DEF IInv
<1>2. st' \in [Streams -> StreamRow] /\ st'[s] = x BY <1>1, Constants
<1>3. \A t \in Streams : t # s => st'[t] = st[t] /\ client.at # t
  BY <1>1, Constants, StreamAssumption DEF Attached
<1>4. \A t \in Streams : t # s => ~Follows(t)'
  BY <1>1, <1>3 DEF Attached, Follows
<1>5. QED BY <1>2, <1>4 DEF Follows, Following, Open, Opening

LEMMA Sequences ==
    ASSUME TypeOK
    PROVE /\ \A m \in Messages : seq[m] \in Int
          /\ \A c \in Cursors : c.epoch \in Int /\ c.seq \in Int
          /\ Stored \subseteq Messages
BY FeedAssumption DEF TypeOK, Cursors, Stored

LEMMA Steady ==
    ASSUME IInv
    PROVE /\ TypeOK /\ LeaseOK /\ client \in Subscriber /\ Start \in Cursors
          /\ \A s \in Streams : st[s].cursor \in Cursors
          /\ Fault \/ NoFault => faults' \in 0..MaxFaults
          /\ UNCHANGED lease => LeaseOK'
          /\ client.stopped => Excused(client)
<1>1. TypeOK /\ StopIsFinal BY DEF IInv
<1>2. Fault \/ NoFault => faults' \in 0..MaxFaults
  BY <1>1, StreamAssumption DEF TypeOK, Fault, NoFault
<1>3. QED BY <1>1, <1>2, Constants DEF TypeOK, LeaseOK, Leased, StopIsFinal, Excused

\* finish with a reason that holds.
LEMMA FinishKeeps ==
    ASSUME IInv, NEW s \in Streams, NEW reason, Follows(s),
           Finish(s, reason, st[s].cursor), reason \in Final => ~access \/ ~alive,
           Same, Fault \/ NoFault, UNCHANGED lease
    PROVE IInv'
<1>1. st' \in [Streams -> StreamRow] /\ \A t \in Streams : ~Follows(t)'
  BY Closes, Constants, Steady DEF Finish, Closing
<1>2. client' = Ended(client, reason, st[s].cursor) BY DEF Finish
<1>3. QED BY <1>1, <1>2, Steady, EndedIs, Leaving DEF Excused

LEMMA RefusedKeeps ==
    ASSUME IInv, NEW s \in Streams, NEW reason, Follows(s), Refused(s, reason),
           reason \in Final => ~access \/ ~alive, Same, Fault \/ NoFault, LeaseOK'
    PROVE IInv'
<1>1. st' \in [Streams -> StreamRow] /\ \A t \in Streams : ~Follows(t)'
  BY Closes, Constants, Steady DEF Refused
<1>2. client' = Told(client, reason) BY DEF Refused
<1>3. QED BY <1>1, <1>2, Steady, ToldIs, Leaving DEF Excused

LEMMA LeftKeeps ==
    ASSUME IInv, NEW s \in Streams, NEW x \in StreamRow, ~Following(x),
           st' = [st EXCEPT ![s] = x], Follows(s),
           client' = Left(client), Same, Fault \/ NoFault, LeaseOK'
    PROVE IInv'
<1>1. st' \in [Streams -> StreamRow] /\ \A t \in Streams : ~Follows(t)'
  BY Closes
<1>2. QED BY <1>1, Steady, LeftIs, Leaving DEF Excused

\* A stream that nobody follows changes alone.
LEMMA AloneKeeps ==
    ASSUME IInv, NEW s \in Streams, NEW x \in StreamRow, ~Following(x),
           st' = [st EXCEPT ![s] = x], ~Follows(s),
           UNCHANGED client, Same, Fault \/ NoFault, LeaseOK',
           \A t \in Streams : t # s => lease'[t] = lease[t]
    PROVE IInv'
<1>1. UNCHANGED <<state, seq, head, epoch, alive, access, lapsed, client>>
  BY DEF Same, feed
<1>2. st' \in [Streams -> StreamRow] /\ st'[s] = x
      /\ \A t \in Streams : t # s => st'[t] = st[t]
  BY Steady, Constants
<1>3. TypeOK'
  BY <1>1, <1>2, Steady DEF TypeOK, LeaseOK, Leased, StreamRow, Cursors, Pages
<1>4. ~Follows(s)' /\ \A t \in Streams : t # s => (Follows(t)' <=> Follows(t))
  BY <1>2 DEF Follows, Following, Open, Opening
<1>5. Attached' BY <1>1, <1>4 DEF IInv, Attached
<1>6. Numbered' /\ NoGap' /\ StopIsFinal'
  BY <1>1 DEF IInv, Numbered, NoGap, StopIsFinal, Stored
<1>7. Positioned'
  BY <1>1, <1>2, <1>4 DEF IInv, Positioned, InRange, Follows, Following, Open, Opening
<1>8. Held'
  BY <1>1, <1>2, <1>4 DEF IInv, Held, Covered, Whole, Stored, Follows, Following, Open, Opening
<1>9. Checked' BY <1>1, <1>2 DEF IInv, Checked, Following, Open, Opening
<1>10. QED BY <1>3, <1>5, <1>6, <1>7, <1>8, <1>9 DEF IInv

-----------------------------------------------------------------------------
(* Steps of the stream that the subscriber follows, or that it begins. *)

\* What a step of the only stream that follows has to show.
LEMMA Following1 ==
    ASSUME IInv, NEW s \in Streams, NEW x \in StreamRow, Same, Fault \/ NoFault, LeaseOK',
           Following(x), st' = [st EXCEPT ![s] = x], client' \in Subscriber,
           client'.at = s, client.at \in {s, None},
           client'.stopped => Excused(client'),
           InRange(client'.cursor), NoGap', InRange(x.cursor),
           x.pc \in Open \cup {"lease"} => x.cursor = Start \/ x.cursor.epoch = epoch,
           Held', Checked'
    PROVE IInv'
<1>1. UNCHANGED <<state, seq, head, epoch, alive, access, lapsed>>
  BY DEF Same, feed
<1>2. /\ st' \in [Streams -> StreamRow] /\ st'[s] = x
      /\ \A t \in Streams : t # s => st'[t] = st[t] /\ ~Follows(t)
  BY Steady, Constants, StreamAssumption DEF IInv, Attached
<1>3. TypeOK'
  BY <1>1, <1>2, Steady DEF TypeOK, LeaseOK, Leased, StreamRow, Subscriber, Cursors, Pages
<1>4. Attached' BY <1>2 DEF Attached, Follows
<1>5. Numbered' /\ StopIsFinal' BY <1>1 DEF IInv, Numbered, StopIsFinal, Stored, Excused
<1>6. Positioned'
  BY <1>1, <1>2 DEF IInv, Positioned, InRange, Follows, Following, Open, Opening
<1>7. QED BY <1>3, <1>4, <1>5, <1>6 DEF IInv

\* Nothing of the feed or of the subscriber changes.
LEMMA Quiet ==
    ASSUME IInv, NEW s \in Streams, NEW x \in StreamRow, NoFault, LeaseOK', Same,
           Follows(s), Following(x), st' = [st EXCEPT ![s] = x], UNCHANGED client,
           x.cursor = st[s].cursor,
           x.pc \in Open \cup {"lease"} => x.cursor = Start \/ x.cursor.epoch = epoch,
           Held', Checked'
    PROVE IInv'
<1>1. client.at = s /\ InRange(client.cursor) /\ InRange(st[s].cursor)
  BY DEF IInv, Attached, Positioned
<1>2. NoGap' BY DEF IInv, NoGap, Same, feed, Stored
<1>3. client' \in Subscriber /\ (client'.stopped => Excused(client')) BY Steady DEF Excused
<1>4. QED BY <1>1, <1>2, <1>3, Following1

\* Held and Checked only look at the stream that follows.
LEMMA HeldOf ==
    ASSUME IInv, NEW s \in Streams, NEW x \in StreamRow, Same,
           client.at \in {s, None}, st' = [st EXCEPT ![s] = x],
           Covered(x.cursor)', x.pc = "send" => x.page.error = "none",
           x.pc \in {"answer", "send"} /\ x.page.error = "none" => Whole(s)'
    PROVE Held'
<1>1. /\ st'[s] = x
      /\ \A t \in Streams : t # s => st'[t] = st[t] /\ ~Follows(t)
  BY Steady, Constants, StreamAssumption DEF IInv, Attached
<1>2. QED BY <1>1 DEF Held, Follows, Following, Open, Opening

LEMMA CheckedOf ==
    ASSUME IInv, NEW s \in Streams, NEW x \in StreamRow, Same,
           client.at \in {s, None}, st' = [st EXCEPT ![s] = x],
           x.pc = "read" /\ alive => lapsed <= x.age,
           x.pc = "answer" /\ x.page.error = "none" => lapsed <= x.age,
           x.pc = "send" => lapsed <= x.ver,
           x.pc = "answer" /\ x.page.error = "not_found" => ~alive \/ lease'[s] = 0
    PROVE Checked'
<1>1. /\ st'[s] = x
      /\ \A t \in Streams : t # s => st'[t] = st[t] /\ ~Follows(t)
  BY Steady, Constants, StreamAssumption DEF IInv, Attached
<1>2. UNCHANGED <<access, alive, lapsed>> BY DEF Same, feed
<1>3. QED BY <1>1, <1>2 DEF IInv, Checked, Follows, Following, Open, Opening

LEMMA PollKeeps == ASSUME IInv, NEW s \in Streams, Poll(s) PROVE IInv'
<1>1. PICK x \in StreamRow :
        /\ st' = [st EXCEPT ![s] = x] /\ x.pc = "auth"
        /\ x.cursor = st[s].cursor /\ st[s].pc = "pause"
  <2> DEFINE y == [st[s] EXCEPT !.pc = "auth", !.age = 0]
  <2>1. y \in StreamRow /\ st' = [st EXCEPT ![s] = y] /\ y.pc = "auth"
        /\ y.cursor = st[s].cursor /\ st[s].pc = "pause"
    BY Steady, Constants, StreamAssumption DEF Poll, StreamRow, Open
  <2>2. QED BY <2>1
<1>2. Follows(s) /\ Following(x) BY <1>1 DEF Follows, Following, Open
<1>3. client.at = s /\ Same /\ NoFault /\ UNCHANGED <<client, lease>>
  BY <1>2 DEF IInv, Attached, Poll
<1>4. x.cursor = Start \/ x.cursor.epoch = epoch
  BY <1>1 DEF IInv, Positioned, Open
<1>5. Covered(x.cursor)'
  BY <1>1, <1>2, <1>3 DEF IInv, Held, Covered, Same, feed, Stored
<1>6. Held' BY <1>1, <1>3, <1>5, HeldOf
<1>7. Checked' BY <1>1, <1>3, CheckedOf
<1>8. QED BY <1>1, <1>2, <1>3, <1>4, <1>6, <1>7, Quiet, Steady

LEMMA AuthorizeKeeps == ASSUME IInv, NEW s \in Streams, Authorize(s) PROVE IInv'
<1>0. st[s].pc = "auth" /\ Follows(s) BY DEF Authorize, Follows, Following, Open
<1>1. CASE ~access /\ Finish(s, "auth_revoked", st[s].cursor) /\ NoFault
  BY <1>0, <1>1, FinishKeeps DEF Authorize
<1>4. CASE /\ access /\ Sandboxed /\ Closing(s) /\ Fault
           /\ client' = Ended(Misread(client), "auth_revoked", st[s].cursor)
  <2>1. st' \in [Streams -> StreamRow] /\ \A t \in Streams : ~Follows(t)'
    BY <1>0, <1>4, Closes, Constants, Steady DEF Closing
  <2>2. Same /\ UNCHANGED lease BY DEF Authorize
  <2>3. client' \in Subscriber /\ client'.misread = TRUE /\ client'.at = None
        /\ client'.got = client.got
        /\ \/ client'.cursor \in {client.cursor, st[s].cursor} /\ client'.owed = client.owed
           \/ client'.cursor = Start
    <3> DEFINE c == Misread(client)
    <3>1. /\ c \in Subscriber /\ c.misread = TRUE /\ c.cursor = client.cursor
          /\ c.owed = client.owed /\ c.got = client.got
      BY Steady, MisreadIs
    <3>2. client' = Ended(c, "auth_revoked", st[s].cursor) BY <1>4
    <3> HIDE DEF c
    <3>3. QED BY <3>1, <3>2, Steady, EndedIs
  <2>4. QED BY <1>0, <1>4, <2>1, <2>2, <2>3, Steady, Leaving DEF Excused
<1>2. CASE access /\ StepTo(s, "read") /\ UNCHANGED client /\ NoFault
  <2>1. PICK x \in StreamRow :
          /\ st' = [st EXCEPT ![s] = x] /\ x.pc = "read"
          /\ x.cursor = st[s].cursor /\ x.age = st[s].age /\ x.age \in Nat
    <3> DEFINE y == [st[s] EXCEPT !.pc = "read"]
    <3>1. y \in StreamRow /\ st' = [st EXCEPT ![s] = y] /\ y.pc = "read"
          /\ y.cursor = st[s].cursor /\ y.age = st[s].age /\ y.age \in Nat
      BY <1>2, Steady, Constants, StreamAssumption DEF StepTo, StreamRow, Open
    <3>2. QED BY <3>1
  <2>2. Following(x) BY <2>1 DEF Following, Open
  <2>3. client.at = s /\ Same /\ NoFault /\ UNCHANGED <<client, lease>>
    BY <1>0, <1>2 DEF IInv, Attached, Authorize
  <2>4. x.cursor = Start \/ x.cursor.epoch = epoch
    BY <1>0, <2>1 DEF IInv, Positioned, Open
  <2>5. Covered(x.cursor)'
    BY <1>0, <2>1, <2>3 DEF IInv, Held, Covered, Same, feed, Stored
  <2>6. Held' BY <2>1, <2>3, <2>5, HeldOf
  <2>7. alive => lapsed <= x.age BY <1>2, <2>1 DEF IInv, Checked
  <2>8. Checked' BY <2>1, <2>3, <2>7, CheckedOf
  <2>9. QED BY <1>0, <2>1, <2>2, <2>3, <2>4, <2>6, <2>8, Quiet, Steady
<1>3. QED BY <1>1, <1>2, <1>4 DEF Authorize

LEMMA ConnectKeeps == ASSUME IInv, Connect PROVE IInv'
<1>0. /\ client.at = None /\ Same /\ (Fault \/ NoFault) /\ UNCHANGED lease
      /\ \A t \in Streams : ~Follows(t)
  BY StreamAssumption DEF IInv, Connect, Attached
<1>1. ASSUME NEW c \in Subscriber, NEW reason, client' = Told(c, reason), UNCHANGED st,
             c.cursor = client.cursor, c.owed = client.owed, c.got = client.got,
             client'.stopped => Excused(client')
      PROVE IInv'
  <2>1. st' \in [Streams -> StreamRow] /\ \A t \in Streams : ~Follows(t)'
    BY <1>0, <1>1, Steady, Constants DEF Follows
  <2>2. /\ client' \in Subscriber /\ client'.at = None /\ client'.got = client.got
        /\ \/ client'.cursor = client.cursor /\ client'.owed = client.owed
           \/ client'.cursor = Start
    BY <1>1, Steady, ToldIs
  <2>3. LeaseOK' /\ faults' \in 0..MaxFaults BY <1>0, Steady
  <2>4. QED BY <1>0, <1>1, <2>1, <2>2, <2>3, Leaving
<1>5. CASE ~access /\ client' = Told(client, "auth_revoked") /\ UNCHANGED st /\ NoFault
  BY <1>1, <1>5, Steady DEF Excused
<1>6. CASE /\ access /\ Sandboxed /\ client' = Told(Misread(client), "auth_revoked")
           /\ UNCHANGED st /\ Fault
  <2> DEFINE c == Misread(client)
  <2>1. /\ c \in Subscriber /\ c.misread = TRUE /\ c.cursor = client.cursor
        /\ c.owed = client.owed /\ c.got = client.got
    BY Steady, MisreadIs
  <2>2. client' = Told(c, "auth_revoked") /\ UNCHANGED st BY <1>6
  <2> HIDE DEF c
  <2>3. client'.misread = TRUE BY <2>1, <2>2, Steady, ToldIs
  <2>4. client'.stopped => Excused(client') BY <1>6, <2>3 DEF Excused
  <2>5. QED BY <1>1, <2>1, <2>2, <2>4
<1>7. CASE client' = Told(client, "unavailable") /\ UNCHANGED st /\ Fault
  <2>1. client'.misread = client.misread /\ (client'.stopped => client.stopped)
    BY <1>7, Steady, ToldIs DEF Final
  <2>2. client'.stopped => Excused(client') BY <2>1, Steady DEF Excused
  <2>3. QED BY <1>1, <1>7, <2>2, Steady
<1>2. ASSUME NEW s \in Streams, access, client' = [client EXCEPT !.at = s],
             st' = [st EXCEPT ![s] = [Off EXCEPT !.pc = "resolve", !.cursor = client.cursor]]
      PROVE IInv'
  <2>1. PICK x \in StreamRow :
          st' = [st EXCEPT ![s] = x] /\ x.pc = "resolve" /\ x.cursor = client.cursor
    <3> DEFINE y == [Off EXCEPT !.pc = "resolve", !.cursor = client.cursor]
    <3>1. y \in StreamRow /\ y.pc = "resolve" /\ y.cursor = client.cursor
      BY Steady, Constants DEF StreamRow, Opening, Subscriber
    <3>2. QED BY <1>2, <3>1
  <2>2. /\ client' \in Subscriber /\ client'.at = s /\ client'.cursor = client.cursor
        /\ client'.owed = client.owed /\ client'.got = client.got
        /\ client'.stopped = client.stopped /\ client'.misread = client.misread
    BY <1>2, Steady DEF Subscriber
  <2>3. NoGap' /\ InRange(client'.cursor) /\ Covered(x.cursor)'
    BY <1>0, <2>1, <2>2 DEF IInv, NoGap, Covered, Positioned, InRange, Same, feed, Stored
  <2>4. Held' BY <1>0, <2>1, <2>3, HeldOf
  <2>5. Checked' BY <1>0, <2>1, CheckedOf
  <2>6. Following(x) /\ x.pc \notin Open \cup {"lease"} BY <2>1 DEF Following, Open, Opening
  <2>7. client'.stopped => Excused(client') BY <2>2, Steady DEF Excused
  <2>8. QED BY <1>0, <2>1, <2>2, <2>3, <2>4, <2>5, <2>6, <2>7, Steady, Following1
<1>3. CASE access /\ LET f == CHOOSE f \in Free : TRUE IN
               /\ client' = [client EXCEPT !.at = f]
               /\ st' = [st EXCEPT ![f] = [Off EXCEPT !.pc = "resolve", !.cursor = client.cursor]]
           /\ NoFault
  <2>1. (CHOOSE f \in Free : TRUE) \in Streams
    <3>1. Free # {} BY DEF Connect
    <3>2. (CHOOSE f \in Free : TRUE) \in Free BY <3>1
    <3>3. QED BY <3>2 DEF Free
  <2>2. QED BY <1>2, <1>3, <2>1
<1>4. QED BY <1>3, <1>5, <1>6, <1>7 DEF Connect

LEMMA ResolveKeeps == ASSUME IInv, NEW s \in Streams, Resolve(s) PROVE IInv'
<1>0. /\ st[s].pc = "resolve" /\ Follows(s) /\ client.at = s
      /\ Same /\ NoFault /\ UNCHANGED lease
  BY DEF IInv, Attached, Resolve, Follows, Following, Opening
<1>1. PICK a \in Answers(st[s].cursor, TRUE) :
        IF a.error # "none" THEN Refused(s, a.error)
        ELSE /\ st' = [st EXCEPT ![s].pc = "lease", ![s].cursor = Resolved(@)]
             /\ client' = IF st[s].cursor = Now
                          THEN [client EXCEPT !.owed = {m \in Messages : state[m] = "none"}]
                          ELSE client
  BY DEF Resolve
<1>2. /\ a.error \in {"none", "not_found", "expired"}
      /\ a.error = "not_found" => ~alive
      /\ a.error = "none" => ~Foreign(st[s].cursor)
  BY Steady, AnswerIs DEF Pages
<1>3. CASE a.error # "none"
  <2>1. a.error \in Final => ~access \/ ~alive BY <1>2 DEF Final
  <2>2. QED BY <1>0, <1>1, <1>3, <2>1, Steady, RefusedKeeps
<1>4. CASE a.error = "none"
  <2>0. epoch \in Nat /\ epoch # 0 /\ head \in 0..MaxMessages /\ epoch \in 0..epoch
        /\ head \in -1..MaxMessages
    BY Steady, FeedAssumption DEF TypeOK
  <2>1. PICK c \in Cursors : c = Resolved(st[s].cursor)
    BY <2>0, Steady DEF Resolved, Cursor, Cursors
  <2>2. PICK x \in StreamRow :
          st' = [st EXCEPT ![s] = x] /\ x.pc = "lease" /\ x.cursor = c
    <3> DEFINE y == [st[s] EXCEPT !.pc = "lease", !.cursor = c]
    <3>1. y \in StreamRow /\ y.pc = "lease" /\ y.cursor = c
      BY Steady, Constants DEF StreamRow, Opening
    <3>2. st' = [st EXCEPT ![s] = y] BY <1>1, <1>4, <2>1, Constants, Steady
    <3>3. QED BY <3>1, <3>2
  <2>3. /\ InRange(c) /\ (c = Start \/ c.epoch = epoch)
    <3>1. CASE st[s].cursor = Now
      BY <2>0, <2>1, <3>1 DEF Resolved, Cursor, InRange
    <3>2. CASE st[s].cursor # Now
      <4>1. c = st[s].cursor /\ ~Foreign(c) BY <1>2, <1>4, <2>1, <3>2 DEF Resolved
      <4>2. c = st[s].cursor /\ InRange(c) BY <1>0, <4>1 DEF IInv, Positioned
      <4>3. QED BY <3>2, <4>1, <4>2 DEF Foreign, InRange
    <3>3. QED BY <3>1, <3>2
  <2>4. /\ client' \in Subscriber /\ client'.at = s /\ client'.cursor = client.cursor
        /\ client'.got = client.got /\ client'.stopped = client.stopped
        /\ client'.misread = client.misread
        /\ IF st[s].cursor = Now THEN client'.owed \cap Stored = {} ELSE client' = client
    BY <1>0, <1>1, <1>4, Steady DEF Subscriber, Stored
  <2>5. NoGap' /\ InRange(client'.cursor)
    BY <1>0, <2>4 DEF IInv, NoGap, Positioned, InRange, Same, feed, Stored
  <2>6. Covered(x.cursor)'
    <3>1. CASE st[s].cursor = Now
      BY <1>0, <2>4, <3>1 DEF Covered, Same, feed, Stored
    <3>2. CASE st[s].cursor # Now
      <4>1. x.cursor = st[s].cursor BY <2>1, <2>2, <3>2 DEF Resolved
      <4>2. QED BY <1>0, <2>4, <3>2, <4>1 DEF IInv, Held, Covered, Same, feed, Stored
    <3>3. QED BY <3>1, <3>2
  <2>7. Held' BY <1>0, <2>2, <2>6, HeldOf
  <2>8. Checked' BY <1>0, <2>2, CheckedOf
  <2>9. Following(x) BY <2>2 DEF Following, Opening
  <2>10. client'.stopped => Excused(client') BY <2>4, Steady DEF Excused
  <2>11. QED BY <1>0, <2>2, <2>3, <2>4, <2>5, <2>7, <2>8, <2>9, <2>10, Steady, Following1
<1>5. QED BY <1>3, <1>4

LEMMA LeaseKeeps == ASSUME IInv, NEW s \in Streams, Lease(s) PROVE IInv'
<1>0. st[s].pc = "lease" /\ Follows(s) /\ client.at = s /\ Same /\ NoFault
  BY DEF IInv, Attached, Lease, Follows, Following, Opening
<1>1. CASE /\ ~Acquirable /\ Refused(s, IF alive THEN "busy" ELSE "not_found")
           /\ UNCHANGED lease
  <2>1. (IF alive THEN "busy" ELSE "not_found") \in Final => ~access \/ ~alive BY DEF Final
  <2>2. QED BY <1>0, <1>1, <2>1, Steady, RefusedKeeps
<1>2. CASE /\ Acquirable /\ TakeLease(s) /\ st' = [st EXCEPT ![s].pc = "auth"]
           /\ UNCHANGED client
  <2>1. PICK x \in StreamRow :
          st' = [st EXCEPT ![s] = x] /\ x.pc = "auth" /\ x.cursor = st[s].cursor
    <3> DEFINE y == [st[s] EXCEPT !.pc = "auth"]
    <3>1. y \in StreamRow /\ y.pc = "auth" /\ y.cursor = st[s].cursor
      BY Steady, Constants DEF StreamRow, Open
    <3>2. QED BY <1>2, <3>1
  <2>2. LeaseOK' BY <1>2, Steady, OneMoreLease
  <2>3. Following(x) BY <2>1 DEF Following, Open
  <2>4. x.cursor = Start \/ x.cursor.epoch = epoch
    BY <1>0, <2>1 DEF IInv, Positioned, Open
  <2>5. Covered(x.cursor)'
    BY <1>0, <1>2, <2>1 DEF IInv, Held, Covered, Same, feed, Stored
  <2>6. Held' BY <1>0, <2>1, <2>5, HeldOf
  <2>7. Checked' BY <1>0, <2>1, CheckedOf
  <2>8. QED BY <1>0, <1>2, <2>1, <2>2, <2>3, <2>4, <2>6, <2>7, Quiet
<1>3. QED BY <1>1, <1>2 DEF Lease

LEMMA GiveUpKeeps == ASSUME IInv, NEW s \in Streams, GiveUp(s) PROVE IInv'
<1>1. Follows(s) /\ Refused(s, "unavailable") /\ Same /\ Fault
  BY DEF GiveUp, Follows, Following
<1>2. LeaseOK' BY Steady, OneMoreLease DEF GiveUp
<1>3. QED BY <1>1, <1>2, RefusedKeeps DEF Final

LEMMA ReadKeeps == ASSUME IInv, NEW s \in Streams, Read(s) PROVE IInv'
<1>0. /\ st[s].pc = "read" /\ Follows(s) /\ client.at = s
      /\ Same /\ NoFault /\ UNCHANGED <<lease, client>>
  BY DEF IInv, Attached, Read, Follows, Following, Open
<1>1. PICK a \in Answers(st[s].cursor, lease[s] > 0) :
        st' = [st EXCEPT ![s].pc = "answer", ![s].page = a]
  BY DEF Read
<1>2. /\ a \in Pages
      /\ a.error = "not_found" => ~alive \/ lease[s] = 0
      /\ a.error = "none" =>
            /\ alive /\ a.to.epoch = epoch /\ a.to.seq <= head
            /\ \A m \in a.rows : seq[m] <= a.to.seq /\ state[m] # "none"
            /\ st[s].cursor # Now => \A m \in Stored :
                  st[s].cursor.seq < seq[m] /\ seq[m] <= a.to.seq => m \in a.rows
  <2>1. lease[s] \in Nat BY Steady, FeedAssumption DEF LeaseOK
  <2>2. PICK held \in BOOLEAN : held <=> lease[s] > 0 OBVIOUS
  <2>3. a \in Answers(st[s].cursor, held) BY <2>2 DEF Answers
  <2>4. QED BY <2>1, <2>2, <2>3, Steady, AnswerIs
<1>3. /\ st[s].cursor = Start \/ st[s].cursor.epoch = epoch
      /\ st[s].cursor # Now
  <2>1. st[s].cursor = Start \/ st[s].cursor.epoch = epoch
    BY <1>0 DEF IInv, Positioned, Open
  <2>2. Now.epoch # epoch BY Steady, FeedAssumption DEF TypeOK, Now
  <2>3. QED BY <2>1, <2>2, Steady, Constants
<1>4. PICK x \in StreamRow :
        /\ st' = [st EXCEPT ![s] = x] /\ x.pc = "answer" /\ x.page = a
        /\ x.cursor = st[s].cursor /\ x.age = st[s].age
  <2> DEFINE y == [st[s] EXCEPT !.pc = "answer", !.page = a]
  <2>1. /\ y \in StreamRow /\ y.pc = "answer" /\ y.page = a
        /\ y.cursor = st[s].cursor /\ y.age = st[s].age
    BY <1>2, Steady, Constants DEF StreamRow, Open
  <2>2. st' = [st EXCEPT ![s] = y] BY <1>1
  <2>3. QED BY <2>1, <2>2
<1>5. Following(x) /\ st'[s] = x BY <1>4, Steady, Constants DEF Following, Open
<1>6. Covered(x.cursor)'
  BY <1>0, <1>4 DEF IInv, Held, Covered, Same, feed, Stored
<1>7. a.error = "none" => Whole(s)'
  BY <1>0, <1>2, <1>3, <1>4, <1>5 DEF Whole, Same, feed, Stored
<1>8. Held' BY <1>0, <1>4, <1>6, <1>7, HeldOf
<1>9. alive => lapsed <= x.age BY <1>0, <1>4 DEF IInv, Checked
<1>10. Checked' BY <1>0, <1>2, <1>4, <1>9, CheckedOf
<1>11. QED BY <1>0, <1>3, <1>4, <1>5, <1>8, <1>10, Quiet, Steady

LEMMA AnswerKeeps == ASSUME IInv, NEW s \in Streams, Answer(s) PROVE IInv'
<1>0. /\ st[s].pc = "answer" /\ Follows(s) /\ client.at = s
      /\ Same /\ NoFault /\ UNCHANGED lease
  BY DEF IInv, Attached, Answer, Follows, Following, Open
<1>1. ASSUME NEW reason, Finish(s, reason, st[s].cursor),
             reason \in Final => reason = PageReason(s) PROVE IInv'
  <2>1. reason \in Final => ~access \/ ~alive
    <3>1. st[s].page.error \in {"none", "not_found", "expired"}
      BY Steady, Constants DEF StreamRow, Pages
    <3>2. st[s].page.error = "not_found" => ~alive \/ lease[s] = 0
      BY <1>0 DEF IInv, Checked
    <3>3. QED BY <1>1, <3>1, <3>2 DEF PageReason, Final
  <2>2. QED BY <1>0, <1>1, <2>1, FinishKeeps
<1>2. ASSUME PageReason(s) = "none", NEW kept \in Kept(st[s].page.rows),
             st[s].events + Cardinality(kept) <= MaxEvents,
             st' = [st EXCEPT ![s].pc = "send", ![s].page.rows = kept,
                              ![s].ver = VerifiedAge(st[s].age)],
             UNCHANGED client
      PROVE IInv'
  <2>1. /\ st[s].page.error = "none" /\ st[s].page \in Pages
        /\ kept \subseteq st[s].page.rows /\ kept \subseteq Messages
        /\ \A m \in st[s].page.rows \ kept : state[m] = "gone"
    BY <1>2, Steady, Constants DEF PageReason, Kept, StreamRow, Pages
  <2>2. PICK x \in StreamRow :
          /\ st' = [st EXCEPT ![s] = x] /\ x.pc = "send" /\ x.cursor = st[s].cursor
          /\ x.ver = st[s].age /\ x.page.rows = kept
          /\ x.page.to = st[s].page.to /\ x.page.error = "none"
    <3> DEFINE p == [st[s].page EXCEPT !.rows = kept]
               y == [st[s] EXCEPT !.pc = "send", !.page = p, !.ver = st[s].age]
    <3>1. /\ p \in Pages /\ p.rows = kept /\ p.to = st[s].page.to /\ p.error = "none"
      BY <2>1 DEF Pages
    <3>2. st' = [st EXCEPT ![s] = y] BY <1>2 DEF VerifiedAge
    <3> HIDE DEF p
    <3>3. /\ y \in StreamRow /\ y.pc = "send" /\ y.cursor = st[s].cursor
          /\ y.ver = st[s].age /\ y.page = p
      BY <3>1, Steady, Constants DEF StreamRow, Open
    <3>4. QED BY <3>1, <3>2, <3>3
  <2>3. Following(x) /\ st'[s] = x BY <2>2, Steady, Constants DEF Following, Open
  <2>4. x.cursor = Start \/ x.cursor.epoch = epoch
    BY <1>0, <2>2 DEF IInv, Positioned, Open
  <2>5. Covered(x.cursor)'
    BY <1>0, <1>2, <2>2 DEF IInv, Held, Covered, Same, feed, Stored
  <2>6. Whole(s)'
    <3>1. Whole(s) BY <1>0, <2>1 DEF IInv, Held
    <3>2. QED BY <1>0, <2>1, <2>2, <2>3, <3>1 DEF Whole, Same, feed, Stored
  <2>7. Held' BY <1>0, <2>2, <2>5, <2>6, HeldOf
  <2>8. lapsed <= x.ver BY <1>0, <2>1, <2>2 DEF IInv, Checked
  <2>9. Checked' BY <1>0, <2>2, <2>8, CheckedOf
  <2>10. QED BY <1>0, <1>2, <2>2, <2>3, <2>4, <2>7, <2>9, Quiet, Steady
<1>3. "replay_limit" \notin Final BY DEF Final
<1>4. QED BY <1>1, <1>2, <1>3 DEF Answer

\* After a page is sent, all up to its position was given; whatever cursor its
\* frames carry is not past that position.
LEMMA SentIsCovered ==
    ASSUME IInv, NEW s \in Streams, st[s].pc = "send"
    PROVE /\ \A m \in client.owed \cap Stored :
                seq[m] <= st[s].page.to.seq => m \in client.got \cup st[s].page.rows
          /\ \A c \in Framed(st[s].page, s) :
                /\ c \in Cursors /\ InRange(c)
                /\ c = client.cursor \/ (c.epoch = epoch /\ c.seq <= st[s].page.to.seq)
<1> DEFINE p == st[s].page
<1>0. Follows(s) BY DEF Follows, Following, Open
<1>1. /\ Whole(s) /\ Covered(st[s].cursor)
      /\ st[s].cursor = Start \/ st[s].cursor.epoch = epoch
  BY <1>0 DEF IInv, Held, Positioned, Open
<1>2. /\ p \in Pages /\ p.to \in Cursors /\ p.rows \subseteq Messages
      /\ st[s].cursor \in Cursors /\ epoch \in Nat \ {0} /\ epoch \in 0..epoch
      /\ \A m \in Messages : seq[m] \in 0..head /\ seq[m] \in -1..MaxMessages
      /\ \A m \in Stored : seq[m] > 0
  BY Steady, Constants, FeedAssumption DEF StreamRow, Pages, TypeOK, IInv, Numbered
<1>3. ASSUME NEW m \in client.owed \cap Stored, seq[m] <= p.to.seq, m \notin p.rows
      PROVE m \in client.got
  <2>1. seq[m] <= st[s].cursor.seq
    BY <1>1, <1>2, <1>3 DEF Whole, Stored, Cursors
  <2>2. st[s].cursor # Start BY <1>2, <2>1 DEF Start, Stored
  <2>3. QED BY <1>1, <1>3, <2>1, <2>2 DEF Covered
<1>4. ASSUME NEW c \in Framed(p, s)
      PROVE /\ c \in Cursors /\ InRange(c)
            /\ c = client.cursor \/ (c.epoch = epoch /\ c.seq <= p.to.seq)
  <2>4. CASE c = client.cursor BY <2>4, Steady DEF IInv, Positioned, Subscriber
  <2>1. CASE c = p.to BY <1>1, <1>2, <2>1 DEF Whole, InRange, Cursors
  <2>2. CASE \E m \in p.rows : c = Cursor(seq[m])
    BY <1>1, <1>2, <2>2 DEF Whole, InRange, Cursors, Cursor
  <2>3. QED BY <1>4, <2>1, <2>2, <2>4 DEF Framed, Newest
<1>5. QED BY <1>3, <1>4

LEMMA SendKeeps == ASSUME IInv, NEW s \in Streams, Send(s) PROVE IInv'
<1> DEFINE p == st[s].page
           events == st[s].events + Cardinality(p.rows)
           full == events >= MaxEvents
<1>0. /\ st[s].pc = "send" /\ Follows(s) /\ client.at = s
      /\ Same /\ NoFault /\ UNCHANGED lease
  BY DEF IInv, Attached, Send, Follows, Following, Open
<1>1. PICK saved \in Framed(p, s) :
        client' = IF full THEN Ended(Received(client, p, saved), "replay_limit", p.to)
                  ELSE Received(client, p, saved)
  BY DEF Send
<1>2. /\ p \in Pages /\ p.to \in Cursors /\ p.rows \subseteq Messages
      /\ p.to.epoch = epoch /\ p.to.seq <= head /\ InRange(p.to)
      /\ saved \in Cursors /\ InRange(saved)
      /\ saved = client.cursor \/ (saved.epoch = epoch /\ saved.seq <= p.to.seq)
      /\ epoch # 0
  <2>1. Whole(s) BY <1>0 DEF IInv, Held
  <2>2. p \in Pages /\ p.to \in Cursors /\ p.rows \subseteq Messages
    BY Steady, Constants DEF StreamRow, Pages
  <2>3. epoch # 0 BY Steady, FeedAssumption DEF TypeOK
  <2>4. QED BY <1>0, <1>1, <2>1, <2>2, <2>3, SentIsCovered DEF Whole, InRange
<1>3. PICK heard \in Subscriber :
        /\ heard = Received(client, p, saved)
        /\ heard.at = s /\ heard.cursor = saved /\ heard.owed = client.owed
        /\ heard.got = client.got \cup p.rows /\ heard.stopped = client.stopped
        /\ heard.misread = client.misread
  <2> DEFINE h == Received(client, p, saved)
  <2>1. /\ h \in Subscriber
        /\ h.at = s /\ h.cursor = saved /\ h.owed = client.owed
        /\ h.got = client.got \cup p.rows /\ h.stopped = client.stopped
        /\ h.misread = client.misread
    BY <1>0, <1>2, Steady DEF Received, Subscriber
  <2>2. QED BY <2>1
<1>4. \A m \in client.owed \cap Stored : seq[m] <= p.to.seq => m \in heard.got
  BY <1>0, <1>3, SentIsCovered
<1>5. UNCHANGED <<state, seq, head, epoch, alive, access, lapsed>> /\ Stored' = Stored
  BY <1>0 DEF Same, feed, Stored
<1>9. \A m \in client.owed \cap Stored : \A c \in {saved, p.to} :
        c.epoch = epoch /\ seq[m] <= c.seq => m \in heard.got
  <2>1. \A m \in client.owed \cap Stored :
          client.cursor.epoch = epoch /\ seq[m] <= client.cursor.seq => m \in heard.got
    BY <1>3 DEF IInv, NoGap
  <2>2. QED BY <1>2, <1>4, <2>1, Sequences, Steady
<1>6. CASE full
  <2>1. /\ client' \in Subscriber /\ client'.at = None
        /\ \/ client'.cursor \in {saved, p.to} /\ client'.owed = client.owed
           \/ client'.cursor = Start
        /\ client'.got = heard.got
        /\ client'.stopped => client.stopped
        /\ client'.misread = client.misread
    <3>1. client' = Ended(heard, "replay_limit", p.to) BY <1>1, <1>3, <1>6
    <3>2. QED BY <1>2, <1>3, <3>1, Steady, EndedIs DEF Final
  <2>2. st' \in [Streams -> StreamRow] /\ \A t \in Streams : ~Follows(t)'
    BY <1>0, <1>6, Closes, Constants, Steady DEF Send, Closing
  <2>3. TypeOK'
    BY <1>0, <1>5, <2>1, <2>2, Steady
    DEF TypeOK, LeaseOK, Leased, StreamRow, Subscriber, Cursors, Pages
  <2>4. Attached' BY <2>1, <2>2, StreamAssumption DEF Attached
  <2>5. Numbered' /\ StopIsFinal' BY <1>5, <2>1 DEF IInv, Numbered, StopIsFinal
  <2>6. NoGap' /\ InRange(client.cursor)'
    BY <1>2, <1>5, <1>9, <2>1, Sequences, Steady DEF NoGap, InRange, Start
  <2>7. Positioned' BY <2>2, <2>6 DEF Positioned, Follows, Following, Open, Opening
  <2>8. Held' BY <2>2 DEF Held, Follows, Following, Open, Opening
  <2>9. Checked' BY <1>5, <2>2 DEF IInv, Checked, Follows, Following, Open, Opening
  <2>10. QED BY <2>3, <2>4, <2>5, <2>6, <2>7, <2>8, <2>9 DEF IInv
<1>7. CASE ~full
  <2>1. events \in 0..MaxEvents
    <3>1. IsFiniteSet(p.rows)
      <4>1. IsFiniteSet(Messages) BY FeedAssumption, FS_Interval DEF Messages
      <4>2. QED BY <1>2, <4>1, FS_Subset
    <3>2. Cardinality(p.rows) \in Nat BY <3>1, FS_CardinalityType
    <3>3. st[s].events \in Nat BY Steady, Constants DEF StreamRow
    <3>4. QED BY <1>7, <3>2, <3>3, StreamAssumption
  <2>2. PICK x \in StreamRow :
          st' = [st EXCEPT ![s] = x] /\ x.pc \in {"auth", "pause"} /\ x.cursor = p.to
    <3> DEFINE next == IF p.more THEN "auth" ELSE "pause"
               ready == IF p.more THEN st[s].ready ELSE TRUE
               y == [st[s] EXCEPT !.pc = next, !.cursor = p.to, !.page = Refusal("none"),
                                  !.events = events, !.ready = ready, !.age = 0]
    <3>1. st' = [st EXCEPT ![s] = y] BY <1>7 DEF Send
    <3>a. next \in {"auth", "pause"} /\ ready \in BOOLEAN
      BY Steady, Constants DEF StreamRow
    <3>b. st[s] \in StreamRow /\ p.to \in Cursors /\ Refusal("none") \in Pages
          /\ 0 \in 0..Fresh
      BY <1>2, Steady, Constants, StreamAssumption
    <3> HIDE DEF events, next, ready, p
    <3>2. y \in StreamRow /\ y.pc \in {"auth", "pause"} /\ y.cursor = p.to
      BY <2>1, <3>a, <3>b DEF StreamRow, Open
    <3>3. QED BY <3>1, <3>2
  <2>3. client' = heard BY <1>1, <1>3, <1>7
  <2>4. Following(x) BY <2>2 DEF Following, Open
  <2>5. NoGap' BY <1>2, <1>3, <1>5, <1>9, <2>3, Sequences, Steady DEF NoGap
  <2>6. Covered(x.cursor)' BY <1>3, <1>4, <1>5, <2>2, <2>3 DEF Covered
  <2>7. Held' BY <1>0, <2>2, <2>6, HeldOf
  <2>8. Checked' BY <1>0, <2>2, CheckedOf
  <2>9. client'.stopped => Excused(client') BY <1>3, <2>3, Steady DEF Excused
  <2>10. QED BY <1>0, <1>2, <1>3, <2>2, <2>3, <2>4, <2>5, <2>7, <2>8, <2>9, Steady, Following1
<1>8. QED BY <1>6, <1>7

LEMMA WatchdogKeeps == ASSUME IInv, NEW s \in Streams, Watchdog(s) PROVE IInv'
<1>1. Follows(s) BY DEF Watchdog, Follows, Following
<1>2. PICK reason \in {"lifetime", "unavailable"} : Finish(s, reason, st[s].cursor)
  BY DEF Watchdog
<1>3. reason \notin Final BY DEF Final
<1>4. QED BY <1>1, <1>2, <1>3, FinishKeeps DEF Watchdog

LEMMA FailsKeeps == ASSUME IInv, NEW s \in Streams, Fails(s) PROVE IInv'
<1>1. Follows(s) BY DEF Fails, Follows, Following, Open
<1>2. QED BY <1>1, FinishKeeps DEF Fails, Final

LEMMA SlowReaderKeeps == ASSUME IInv, NEW s \in Streams, SlowReader(s) PROVE IInv'
<1>1. Follows(s) BY DEF SlowReader, Follows, Following, Open
<1>2. QED BY <1>1, Steady, Constants, LeftKeeps DEF SlowReader, Closing

LEMMA LoseKeeps == ASSUME IInv, NEW s \in Streams, Lose(s) PROVE IInv'
<1>1. Follows(s) BY DEF IInv, Attached, Lose
<1>2. LeaseOK' BY Steady, OneMoreLease DEF Lose
<1>3. QED BY <1>1, <1>2, Steady, Constants, LeftKeeps DEF Lose

LEMMA NoticedKeeps == ASSUME IInv, NEW s \in Streams, Noticed(s) PROVE IInv'
<1>1. ~Follows(s) BY DEF Noticed, Follows, Following, Open, Opening
<1>2. QED BY <1>1, Steady, Constants, AloneKeeps DEF Noticed, Closing

LEMMA ReleaseKeeps == ASSUME IInv, NEW s \in Streams, Release(s) PROVE IInv'
<1>1. ~Follows(s) BY DEF Release, Follows, Following, Open, Opening
<1>2. LeaseOK' /\ \A t \in Streams : t # s => lease'[t] = lease[t]
  BY Steady, DropKeeps DEF Release, DropLease, LeaseOK
<1>3. QED BY <1>1, <1>2, Steady, Constants, AloneKeeps DEF Release

LEMMA AbandonKeeps == ASSUME IInv, NEW s \in Streams, Abandon(s) PROVE IInv'
<1>1. CASE Follows(s)
  <2>1. client.at = s BY <1>1 DEF IInv, Attached
  <2>2. QED BY <1>1, <2>1, Steady, Constants, LeftKeeps DEF Abandon
<1>2. CASE ~Follows(s)
  <2>1. client.at # s BY <1>2 DEF IInv, Attached
  <2>2. QED BY <1>2, <2>1, Steady, Constants, AloneKeeps DEF Abandon
<1>3. QED BY <1>1, <1>2

-----------------------------------------------------------------------------
(* Steps of the feed, of the account and of time. *)
LEMMA RevokeAccessKeeps == ASSUME IInv, RevokeAccess PROVE IInv'
<1> USE DEF RevokeAccess, NoFault, feed
<1>1. TypeOK'
  BY Steady DEF TypeOK, Leased, Cursors, Pages
<1>2. Attached' /\ Positioned' /\ Held' /\ Numbered' /\ NoGap'
  BY DEF IInv, Attached, Positioned, InRange, Held, Covered, Whole, Numbered, NoGap,
         Stored, Follows, Following
<1>3. Checked' BY DEF IInv, Checked
<1>4. StopIsFinal' BY DEF IInv, StopIsFinal
<1>5. QED BY <1>1, <1>2, <1>3, <1>4 DEF IInv

LEMMA EndInboxKeeps ==
    ASSUME IInv, EndInbox, NoFault, UNCHANGED <<access, lapsed, st, client>> PROVE IInv'
<1> USE DEF EndInbox, NoFault
<1>1. TypeOK'
  BY Steady DEF TypeOK, Leased, Cursors, Pages
<1>2. Attached' /\ Positioned' /\ Held' /\ Numbered' /\ NoGap'
  BY DEF IInv, Attached, Positioned, InRange, Held, Covered, Whole, Numbered, NoGap,
         Stored, Follows, Following
<1>3. Checked' BY DEF IInv, Checked
<1>4. StopIsFinal' BY DEF IInv, StopIsFinal
<1>5. QED BY <1>1, <1>2, <1>3, <1>4 DEF IInv

LEMMA RemoveKeeps ==
    ASSUME IInv, NEW m \in Messages, Remove(m), NoFault,
           UNCHANGED <<access, lapsed, st, client>>
    PROVE IInv'
<1> USE DEF Remove, NoFault
<1>0. /\ state' \in [Messages -> {"none", "stored", "gone"}] /\ Stored' \subseteq Stored
      /\ \A k \in Messages : state'[k] = "none" <=> state[k] = "none"
  BY Steady DEF TypeOK, Stored
<1>1. TypeOK' BY <1>0, Steady DEF TypeOK, Leased, Cursors, Pages
<1>2. Attached' /\ Positioned'
  BY DEF IInv, Attached, Positioned, InRange, Follows, Following
<1>3. Numbered' BY <1>0 DEF IInv, Numbered
<1>4. NoGap' BY <1>0 DEF IInv, NoGap
<1>5. Held' BY <1>0 DEF IInv, Held, Covered, Whole, Follows, Following
<1>6. Checked' /\ StopIsFinal' BY DEF IInv, Checked, StopIsFinal
<1>7. QED BY <1>1, <1>2, <1>3, <1>4, <1>5, <1>6 DEF IInv

\* The new message lies past every position of this database.
LEMMA ArriveKeeps ==
    ASSUME IInv, NEW m \in Messages, Arrive(m), NoFault,
           UNCHANGED <<access, lapsed, st, client>>
    PROVE IInv'
<1> USE DEF Arrive, NoFault
<1>0. /\ m \in Nat /\ m <= MaxMessages /\ MaxMessages \in Nat /\ head \in 0..MaxMessages
      /\ head < m /\ head' = head + 1 /\ epoch' = epoch
      /\ \A k \in Messages : k \in Nat /\ seq[k] \in 0..head
      /\ \A k \in 1..(m - 1) : state[k] # "none"
  <2>1. m \in Nat /\ m <= MaxMessages /\ MaxMessages \in Nat
        /\ \A k \in Messages : k \in Nat
    BY FeedAssumption DEF Messages
  <2>2. head \in 0..MaxMessages /\ \A k \in Messages : seq[k] \in 0..head
    BY Steady DEF TypeOK
  <2>3. head < m BY DEF IInv, Numbered
  <2>4. QED BY <2>1, <2>2, <2>3
<1>1. /\ state' \in [Messages -> {"none", "stored", "gone"}]
      /\ seq' \in [Messages -> 0..head'] /\ seq'[m] = head + 1
      /\ Stored' = Stored \cup {m} /\ m \notin Stored
      /\ \A k \in Messages \ {m} : state'[k] = state[k] /\ seq'[k] = seq[k]
  <2>1. \A k \in Messages : seq[k] \in 0..head' /\ head + 1 \in 0..head' BY <1>0
  <2>2. QED BY <1>0, <2>1, Steady DEF TypeOK, Stored
<1>2. TypeOK' BY <1>0, <1>1, Steady DEF TypeOK, Leased, Cursors, Pages
<1>3. Attached' BY DEF IInv, Attached, Follows, Following
<1>4. Positioned'
  <2>1. ASSUME NEW c \in Cursors, InRange(c) PROVE c.epoch = epoch => c.seq <= head + 1
    BY <1>0, <2>1 DEF InRange, Cursors
  <2>2. \A c \in Cursors : InRange(c) => InRange(c)' BY <1>0, <2>1 DEF InRange
  <2>3. client.cursor \in Cursors BY Steady DEF Subscriber
  <2>4. InRange(client.cursor)' BY <2>2, <2>3 DEF IInv, Positioned, InRange
  <2>5. ASSUME NEW s \in Streams, Follows(s) PROVE InRange(st[s].cursor)'
    BY <2>2, <2>5, Steady DEF IInv, Positioned, InRange
  <2>6. QED BY <2>4, <2>5 DEF IInv, Positioned, Follows, Following
<1>5. Numbered'
  <2>1. ASSUME NEW k \in Messages, state'[k] = "none"
        PROVE head' < k /\ \A j \in Messages : k < j => state'[j] = "none"
    <3>1. k # m /\ state[k] = "none" BY <1>1, <2>1
    <3>2. m < k
      <4>1. k \notin 1..(m - 1) BY <1>0, <3>1
      <4>2. QED BY <1>0, <3>1, <4>1 DEF Messages
    <3>3. \A j \in Messages : k < j => state[j] = "none" /\ j # m
      BY <1>0, <3>1, <3>2 DEF IInv, Numbered
    <3>4. QED BY <1>0, <1>1, <3>2, <3>3
  <2>2. \A k \in Stored' : seq'[k] > 0
    BY <1>0, <1>1 DEF IInv, Numbered, Stored
  <2>3. QED BY <2>1, <2>2 DEF Numbered
<1>6. \A c \in Cursors : InRange(c) /\ c.epoch = epoch => ~(seq'[m] <= c.seq)
  BY <1>0, <1>1 DEF InRange, Cursors
<1>7. NoGap'
  <2>1. InRange(client.cursor) /\ client.cursor \in Cursors
    BY Steady DEF IInv, Positioned, Subscriber
  <2>2. QED BY <1>0, <1>1, <1>6, <2>1 DEF IInv, NoGap
<1>8. Held'
  <2>1. ASSUME NEW s \in Streams, Follows(s) PROVE Covered(st[s].cursor)'
    <3>1. InRange(st[s].cursor) /\ st[s].cursor \in Cursors /\ Covered(st[s].cursor)
      BY <2>1, Steady DEF IInv, Positioned, Held
    <3>2. QED BY <1>0, <1>1, <1>6, <3>1 DEF Covered, Stored
  <2>2. ASSUME NEW s \in Streams, Whole(s) PROVE Whole(s)'
    <3>1. st[s].page.to \in Cursors /\ st[s].page.rows \subseteq Messages
      BY Steady, Constants DEF StreamRow, Pages
    <3>2. st[s].page.to.seq \in Int /\ st[s].cursor.seq \in Int
      BY <3>1, Steady DEF Cursors
    <3>3. \A k \in st[s].page.rows : seq'[k] <= st[s].page.to.seq /\ state'[k] # "none"
      <4>1. m \notin st[s].page.rows BY <2>2 DEF Whole
      <4>2. QED BY <1>0, <1>1, <2>2, <3>1, <3>2, <4>1 DEF Whole
    <3>4. QED BY <1>0, <1>1, <2>2, <3>1, <3>2, <3>3 DEF Whole, Stored
  <2>3. QED BY <2>1, <2>2 DEF IInv, Held, Follows, Following
<1>9. Checked' /\ StopIsFinal' BY DEF IInv, Checked, StopIsFinal
<1>10. QED BY <1>2, <1>3, <1>4, <1>5, <1>7, <1>8, <1>9 DEF IInv

\* The new numbers are positions of a new database, where no stream is.
LEMMA RebuildKeeps == ASSUME IInv, RebuildFeed PROVE IInv'
<1> DEFINE last == Cardinality(Stored)
<1>0. /\ \A s \in Streams : ~Follows(s) /\ st[s].pc = "off"
      /\ client.at = None
      /\ epoch \in 1..MaxEpoch /\ MaxEpoch \in Nat /\ epoch < MaxEpoch /\ epoch' = epoch + 1
      /\ head' = last /\ lease' = [s \in Streams |-> 0] /\ UNCHANGED <<state, alive>>
      /\ UNCHANGED <<access, lapsed, st, client>> /\ Fault
  BY Steady, FeedAssumption
  DEF IInv, Attached, RebuildFeed, Rebuild, TypeOK, Follows, Following, Open, Opening
<1>1. PICK number \in [Stored -> 1..last] :
        seq' = [m \in Messages |-> IF m \in Stored THEN number[m] ELSE 0]
  BY DEF RebuildFeed, Rebuild
<1>2. \A n \in Nat : Stored \subseteq 1..n => last \in 0..n
  <2>1. ASSUME NEW n \in Nat, Stored \subseteq 1..n PROVE last \in 0..n
    <3>1. IsFiniteSet(1..n) /\ Cardinality(1..n) = n BY FS_Interval
    <3>2. IsFiniteSet(Stored) /\ Cardinality(Stored) <= Cardinality(1..n)
      BY <2>1, <3>1, FS_Subset
    <3>3. QED BY <3>1, <3>2, FS_CardinalityType
  <2>2. QED BY <2>1
<1>3. last \in 0..MaxMessages
  BY <1>2, FeedAssumption DEF Stored, Messages
<1>4. seq' \in [Messages -> 0..last] /\ \A m \in Stored : seq'[m] > 0
  BY <1>1, <1>3 DEF Stored
<1>5. TypeOK'
  <2>1. LeaseOK' BY <1>0, Steady, AllDropped
  <2>2. \A c \in Cursors : c \in Cursors'
    <3>1. 0..epoch \subseteq 0..(epoch + 1) BY <1>0
    <3>2. QED BY <1>0, <3>1 DEF Cursors
  <2>3. \A q \in Pages : q \in Pages' BY <2>2 DEF Pages
  <2>4. st' \in [Streams -> StreamRow'] /\ client' \in Subscriber'
    BY <1>0, <2>2, <2>3, Steady, Constants DEF StreamRow, Subscriber
  <2>5. QED BY <1>0, <1>3, <1>4, <2>1, <2>4, Steady
        DEF TypeOK, LeaseOK, Leased, StreamRow, Subscriber
<1>6. Attached' BY <1>0, StreamAssumption DEF Attached, Follows, Following, Open, Opening
<1>7. Numbered'
  <2>1. ASSUME NEW m \in Messages, state[m] = "none" PROVE last < m
    <3>1. m \in Nat \ {0} BY FeedAssumption DEF Messages
    <3>2. Stored \subseteq 1..(m - 1)
      <4>1. \A k \in Stored : k \in Nat \ {0} /\ k # m /\ ~(m < k)
        BY <2>1, FeedAssumption DEF IInv, Numbered, Stored, Messages
      <4>2. QED BY <3>1, <4>1
    <3>3. m - 1 \in Nat BY <3>1
    <3> HIDE DEF last
    <3>4. last \in 0..(m - 1) BY <1>2, <3>2, <3>3
    <3>5. QED BY <3>1, <3>4
  <2>2. QED BY <1>0, <1>4, <2>1 DEF IInv, Numbered, Stored
<1>8. \A c \in Cursors : c.epoch # epoch'
  BY <1>0 DEF Cursors
<1>9. NoGap' /\ Positioned'
  BY <1>0, <1>8, Steady
  DEF IInv, NoGap, Positioned, InRange, Subscriber, Follows, Following, Open, Opening
<1>10. Held' BY <1>0 DEF Held, Follows, Following, Open, Opening
<1>11. Checked' /\ StopIsFinal' BY <1>0 DEF IInv, Checked, StopIsFinal
<1>12. QED BY <1>5, <1>6, <1>7, <1>9, <1>10, <1>11 DEF IInv

LEMMA Ages ==
    /\ \A n \in 0..Fresh : Aged(n) \in 0..Fresh
    /\ \A i, j \in 0..Fresh : i <= j => Aged(i) <= Aged(j)
BY StreamAssumption DEF Aged

\* What the page's checks cover and the lapse age together.
LEMMA TickKeeps == ASSUME IInv, Tick PROVE IInv'
<1>0. /\ UNCHANGED <<feed, access>>
      /\ Fault \/ NoFault
      /\ lapsed' = IF access /\ alive THEN 0 ELSE Aged(lapsed)
      /\ lapsed \in 0..Fresh /\ 0 \in 0..Fresh
  <2>1. lapsed \in 0..Fresh BY Steady DEF TypeOK
  <2>2. 0 \in 0..Fresh BY StreamAssumption
  <2>3. QED BY <2>1, <2>2, Zenon DEF Tick
<1>1. LeaseOK' /\ \A s \in Streams : lease[s] = 0 => lease'[s] = 0
  BY Steady, AgeKeeps DEF Tick
<1>2. /\ st' \in [Streams -> StreamRow]
      /\ \A s \in Streams :
            /\ st'[s].pc = st[s].pc /\ st'[s].cursor = st[s].cursor
            /\ st'[s].page = st[s].page
            /\ st[s].age \in 0..Fresh /\ st[s].ver \in 0..Fresh
            /\ st[s].pc \in Open => st'[s].age = Aged(st[s].age) /\ st'[s].ver = Aged(st[s].ver)
  <2>1. ASSUME NEW s \in Streams
        PROVE LET x == IF st[s].pc \notin Open THEN st[s]
                       ELSE [st[s] EXCEPT !.age = Aged(@), !.ver = Aged(@)]
              IN  /\ x \in StreamRow
                  /\ x.pc = st[s].pc /\ x.cursor = st[s].cursor /\ x.page = st[s].page
                  /\ st[s].age \in 0..Fresh /\ st[s].ver \in 0..Fresh
                  /\ st[s].pc \in Open => x.age = Aged(st[s].age) /\ x.ver = Aged(st[s].ver)
    BY Steady, Constants, Ages DEF StreamRow
  <2>2. QED BY <2>1 DEF Tick
<1>3. /\ client' \in Subscriber /\ client'.at = client.at /\ client'.cursor = client.cursor
      /\ client'.owed = client.owed /\ client'.got = client.got
      /\ client'.stopped = client.stopped /\ client'.misread = client.misread
  BY Steady DEF Tick, Subscriber
<1>4. UNCHANGED <<state, seq, head, epoch, alive>> /\ Stored' = Stored
  BY <1>0 DEF feed, Stored
<1>5. \A s \in Streams : Follows(s)' <=> Follows(s)
  BY <1>2 DEF Follows, Following
<1>6. TypeOK'
  BY <1>0, <1>1, <1>2, <1>3, <1>4, Ages, Steady
  DEF TypeOK, LeaseOK, Leased, StreamRow, Subscriber, Cursors, Pages
<1>7. Attached' BY <1>3, <1>5 DEF IInv, Attached
<1>8. Numbered' /\ NoGap' /\ StopIsFinal'
  BY <1>0, <1>3, <1>4 DEF IInv, Numbered, NoGap, StopIsFinal
<1>9. Positioned' BY <1>2, <1>3, <1>4, <1>5 DEF IInv, Positioned, InRange
<1>10. Held' BY <1>2, <1>3, <1>4, <1>5 DEF IInv, Held, Covered, Whole
<1>11. Checked'
  <2>1. \A n \in 0..Fresh : lapsed <= n => lapsed' <= Aged(n)
    BY <1>0, Ages
  <2>2. QED BY <1>0, <1>1, <1>2, <1>4, <2>1 DEF IInv, Checked, Open
<1>12. QED BY <1>6, <1>7, <1>8, <1>9, <1>10, <1>11 DEF IInv

-----------------------------------------------------------------------------
LEMMA InitInv == Init => IInv
<1> SUFFICES ASSUME Init PROVE IInv OBVIOUS
<1> USE DEF Init, FeedInit
<1>1. PICK p \in {Start, Now} :
        client = [at |-> None, cursor |-> p, owed |-> Owes(p), got |-> {},
                  waits |-> FALSE, stopped |-> FALSE, misread |-> FALSE]
  OBVIOUS
<1>2. /\ Start \in Cursors /\ Now \in Cursors
  BY FeedAssumption DEF Start, Now, Cursors
<1>3. Off \in StreamRow /\ ~Following(Off) /\ Off.pc = "off"
  <2>1. Refusal("none") \in Pages BY <1>2 DEF Refusal, Pages
  <2>2. 0 \in 0..Fresh /\ 0 \in 0..MaxEvents BY StreamAssumption
  <2>3. QED BY <1>2, <2>1, <2>2 DEF Off, StreamRow, Following, Open, Opening
<1>4. client \in Subscriber BY <1>1, <1>2 DEF Subscriber, Owes
<1>5. LeaseOK
  <2>1. Leased = {} BY DEF Leased
  <2>2. Cardinality(Leased) = 0 BY <2>1, FS_EmptySet
  <2>3. QED BY <2>2, FeedAssumption DEF LeaseOK
<1>6. TypeOK
  <2>1. 0 \in 0..Fresh /\ 0 \in 0..MaxFaults BY StreamAssumption
  <2>2. 0 \in 0..MaxMessages /\ 1 \in 1..MaxEpoch /\ 0 \in 0..0 BY FeedAssumption
  <2>3. st \in [Streams -> StreamRow] BY <1>3
  <2>4. QED BY <1>4, <1>5, <2>1, <2>2, <2>3 DEF TypeOK, LeaseOK, StreamRow, Subscriber
<1>7. Stored = {} BY DEF Stored
<1>8. \A s \in Streams : ~Follows(s) /\ st[s].pc = "off" BY <1>3 DEF Follows
<1>9. Attached BY <1>1, <1>8, StreamAssumption DEF Attached
<1>10. Numbered BY <1>7, FeedAssumption DEF Numbered, Messages
<1>11. Positioned
  <2>1. InRange(client.cursor) BY <1>1 DEF InRange, Start, Now
  <2>2. QED BY <1>8, <2>1 DEF Positioned, Open
<1>12. NoGap /\ StopIsFinal BY <1>1, <1>7 DEF NoGap, StopIsFinal
<1>13. Held /\ Checked BY <1>8 DEF Held, Checked
<1>14. QED BY <1>6, <1>9, <1>10, <1>11, <1>12, <1>13 DEF IInv

LEMMA NextInv == ASSUME IInv, Next PROVE IInv'
<1>1. CASE Connect BY <1>1, ConnectKeeps
<1>2. ASSUME NEW s \in Streams, Step(s) PROVE IInv'
  BY <1>2, ResolveKeeps, LeaseKeeps, AuthorizeKeeps, ReadKeeps, AnswerKeeps, SendKeeps,
     PollKeeps, WatchdogKeeps, ReleaseKeeps DEF Step
<1>3. ASSUME NEW s \in Streams, Noticed(s) \/ Trouble(s) PROVE IInv'
  BY <1>3, NoticedKeeps, GiveUpKeeps, FailsKeeps, SlowReaderKeeps, LoseKeeps, AbandonKeeps
  DEF Trouble
<1>4. CASE RevokeAccess BY <1>4, RevokeAccessKeeps
<1>5. CASE FeedChanges
  BY <1>5, ArriveKeeps, RemoveKeeps, EndInboxKeeps DEF FeedChanges
<1>6. CASE RebuildFeed BY <1>6, RebuildKeeps
<1>7. CASE Tick BY <1>7, TickKeeps
<1>8. QED BY <1>1, <1>2, <1>3, <1>4, <1>5, <1>6, <1>7 DEF Next

LEMMA StutterInv == ASSUME IInv, UNCHANGED vars PROVE IInv'
<1>1. UNCHANGED <<state, seq, head, epoch, alive, lease, access, lapsed, st, client, faults>>
  BY DEF vars, feed
<1>2. QED
  BY <1>1
  DEF IInv, TypeOK, Leased, Cursors, Pages, Attached, Positioned, InRange, Held, Covered,
      Whole, Numbered, NoGap, Stored, Follows, Following, Checked, StopIsFinal

\* What the feed, its streams and the subscriber keep between any two steps.
THEOREM EventsInvariantHolds == Spec => []IInv
<1>1. IInv /\ [Next]_vars => IInv' BY NextInv, StutterInv
<1>2. QED BY InitInv, <1>1, PTL DEF Spec

\* The program's state keeps its type, and the leases their cap, for every number
\* of streams and messages.
THEOREM EventsTypeCorrect == Spec => []TypeOK
<1>1. IInv => TypeOK BY DEF IInv
<1>2. QED BY EventsInvariantHolds, <1>1, PTL

\* A subscriber that saves its cursors skips no message it is owed.
THEOREM SubscribersSkipNothing == Spec => []NoGap
<1>1. IInv => NoGap BY DEF IInv
<1>2. QED BY EventsInvariantHolds, <1>1, PTL

\* A subscriber is told to stop only when its access or the inbox has ended, or
\* when it holds a sandbox's credential and the provider's answer was missing or
\* unreadable, which the API takes for a revocation; with any other credential,
\* only for an end.
THEOREM StoppingIsFinal == Spec => []StopIsFinal
<1>1. IInv => StopIsFinal BY DEF IInv
<1>2. QED BY EventsInvariantHolds, <1>1, PTL

-----------------------------------------------------------------------------
(* Only a send gives, and it waits for no check that is out of date. *)
LEMMA OnlySendGives ==
    ASSUME IInv, Next, client'.got # client.got
    PROVE \E s \in Streams : Send(s)
<1>0. client \in Subscriber /\ Misread(client) \in Subscriber
      /\ Misread(client).got = client.got
  BY Steady, MisreadIs
<1>1. ASSUME NEW reason, NEW c \in {client, Misread(client)}, client' = Told(c, reason)
      PROVE FALSE
  BY <1>0, <1>1, Steady, ToldIs
<1>2. ASSUME NEW reason, NEW c \in {client, Misread(client)}, NEW s \in Streams,
             client' = Ended(c, reason, st[s].cursor)
      PROVE FALSE
  BY <1>0, <1>2, Steady, EndedIs
<1>3. ASSUME client' = Left(client) PROVE FALSE BY <1>3, Steady, LeftIs
<1>4. client' # client OBVIOUS
<1>5. CASE Connect
  <2>1. \A v : [client EXCEPT !.at = v].got = client.got BY Steady DEF Subscriber
  <2>2. \/ \E c \in {client, Misread(client)}, reason \in {"auth_revoked", "unavailable"} :
              client' = Told(c, reason)
        \/ \E v : client' = [client EXCEPT !.at = v]
    BY <1>5, Zenon DEF Connect
  <2>3. QED BY <1>1, <2>1, <2>2
<1>6. ASSUME NEW s \in Streams, Step(s) PROVE Send(s)
  <2>1. CASE Resolve(s)
    <3>1. \A v : [client EXCEPT !.owed = v].got = client.got BY Steady DEF Subscriber
    <3>2. QED BY <1>1, <1>4, <2>1, <3>1 DEF Resolve, Refused
  <2>2. CASE Lease(s) BY <1>1, <1>4, <2>2 DEF Lease, Refused
  <2>3. CASE Authorize(s) BY <1>2, <1>4, <2>3 DEF Authorize, Finish
  <2>4. CASE Read(s) \/ Poll(s) \/ Release(s) BY <1>4, <2>4 DEF Read, Poll, Release
  <2>5. CASE Answer(s) BY <1>2, <1>4, <2>5 DEF Answer, Finish
  <2>6. CASE Watchdog(s) BY <1>2, <2>6 DEF Watchdog, Finish
  <2>7. QED BY <1>6, <2>1, <2>2, <2>3, <2>4, <2>5, <2>6 DEF Step
<1>7. ASSUME NEW s \in Streams, Noticed(s) \/ Trouble(s) PROVE FALSE
  <2>1. CASE Noticed(s) BY <1>4, <2>1 DEF Noticed
  <2>2. CASE GiveUp(s) BY <1>1, <2>2 DEF GiveUp, Refused
  <2>3. CASE Fails(s) BY <1>2, <2>3 DEF Fails, Finish
  <2>4. CASE SlowReader(s) BY <1>3, <2>4 DEF SlowReader
  <2>5. CASE Lose(s) BY <1>3, <2>5 DEF Lose
  <2>6. CASE Abandon(s) BY <1>3, <1>4, <2>6 DEF Abandon
  <2>7. QED BY <1>7, <2>1, <2>2, <2>3, <2>4, <2>5, <2>6 DEF Trouble
<1>8. CASE RevokeAccess \/ FeedChanges \/ RebuildFeed
  BY <1>4, <1>8 DEF RevokeAccess, FeedChanges, RebuildFeed
<1>9. CASE Tick BY <1>9, Steady DEF Tick, Subscriber
<1>10. QED BY <1>5, <1>6, <1>7, <1>8, <1>9 DEF Next

\* Events reach a subscriber only while its access and the inbox ended, if they
\* did, less than the freshness bound ago.
THEOREM EventsAreCutOff == Spec => CutOff
<1>1. IInv /\ [Next]_vars => [client'.got # client.got => lapsed < Fresh]_vars
  <2> SUFFICES ASSUME IInv, Next, client'.got # client.got PROVE lapsed < Fresh
    OBVIOUS
  <2>1. PICK s \in Streams : Send(s) BY OnlySendGives
  <2>2. lapsed <= st[s].ver BY <2>1 DEF IInv, Checked, Send
  <2>3. st[s].ver < Fresh BY <2>1 DEF Send
  <2>4. lapsed \in Nat /\ st[s].ver \in Nat /\ Fresh \in Nat
    BY Steady, Constants, StreamAssumption DEF TypeOK, StreamRow
  <2>5. QED BY <2>2, <2>3, <2>4
<1>2. QED BY EventsInvariantHolds, <1>1, PTL DEF Spec, CutOff
=============================================================================
