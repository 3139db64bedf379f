-------------------------- MODULE SubagentsProofs --------------------------
(* For every number of subagents, of calls at once and of moves: nobody waits *)
(* in a circle, a join after a message returns a newer result, and an end     *)
(* that main has yet to hear of has a watcher.                                *)
EXTENDS Subagents, FiniteSetTheorems, TLAPS

-----------------------------------------------------------------------------
(* The inductive invariant. *)

\* Every call but a join has a subagent it is about.
Aimed == \A k \in calls : k.pc # "joined" => k.to \in Children

\* A subagent without a row is known to its spawn only; with one, it has a
\* conversation and no spawn to come.  Only main spawns.
Born ==
    /\ \A c \in Children :
        /\ row[c].status = "none" =>
              /\ row[c].sub = 0 /\ \A w \in Agents : mail[w][c] <= 0
              /\ \A k \in calls : k.to = c => k.pc \notin {"steer", "wake", "enlist"}
        /\ row[c].status # "none" =>
              /\ Len(subs[c]) > 0
              /\ \A k \in calls : k.to = c => k.pc # "enroll"
    /\ \A j, k \in calls : j.pc = "enroll" /\ k.pc = "enroll" /\ j.to = k.to => j = k
    /\ \A k \in calls : k.pc = "enroll" => k.from = Main /\ Len(subs[k.to]) > 0

\* A row's submission is the last one but for those whose update is to come, each
\* of which is of one call; a steer is for the row's submission or one before it.
Queued ==
    /\ \A c \in Children : row[c].sub <= Len(subs[c])
    /\ \A k \in calls :
        /\ k.pc = "enlist" => row[k.to].sub < k.sub /\ k.sub <= Len(subs[k.to])
        /\ k.pc = "steer" => k.sub <= row[k.to].sub
    /\ \A j, k \in calls :
          j.pc = "enlist" /\ k.pc = "enlist" /\ j.to = k.to /\ j.sub = k.sub => j = k

\* What a message was meant for is not after the row's submission; and when the
\* row shows an end, it is the end of that submission.
Ended == {"finished", "failed", "stopped"}
Shown ==
    \A c \in Children :
        /\ \A w \in Agents : mail[w][c] <= row[c].sub
        /\ row[c].status \in Ended => shown[c] = row[c].sub
        /\ row[c].status = "interrupted" =>
              /\ \A w \in Agents : mail[w][c] <= 0
              /\ \A k \in calls : k.pc = "steer" /\ k.to = c => k.from = User

\* A closed page has no calls and no marks.
Shut == ~open => calls = {} /\ \A w \in Agents, t \in Children : mail[w][t] <= 0

\* Each submission but the first was paid for by a move, when its message began, so
\* there is a watcher for every submission.
Coming(c) == {k \in calls : k.to = c /\ k.pc \in {"steer", "wake"}}
Paid ==
    /\ IsFiniteSet(calls)
    /\ \A c \in Children : Len(subs[c]) + Cardinality(Coming(c)) <= moves + 1

\* A row whose end main has yet to hear of is watched.  Only a foreground spawn that
\* the page's end cut off is left to nobody, and nobody detaches from that any more.
HandedOn(c) ==
    /\ row[c].reported <= told[c] /\ told[c] <= row[c].sub /\ lost[c] <= row[c].sub
    /\ \A n \in Subs : watch[c][n] # "none" => n <= row[c].sub
    /\ \A n \in Subs : watch[c][n] = "mark" => n <= told[c]
    /\ row[c].status \in Ended /\ row[c].fg => row[c].sub \in {told[c], lost[c]}
    /\ row[c].status = "interrupted" => c \notin detaching.fg /\ ~WaitedOn(c)
    /\ open /\ row[c].status # "none" /\ row[c].sub \notin {told[c], lost[c]}
          /\ watch[c][row[c].sub] = "none"
       => row[c].fg /\ row[c].status = "interrupted"
Handed == (\A c \in Children : HandedOn(c)) /\ (~open => ~detaching.on /\ detaching.fg = {})

Typed == TypeOK /\ Aimed
Read == Born /\ Queued /\ Shown /\ Shut
IInv == Typed /\ NoWaitCycle /\ Read /\ Paid /\ Handed

-----------------------------------------------------------------------------
(* Types. *)
Calls == [pc : {"enroll", "spawned", "steer", "wake", "enlist", "joined"},
          from : Agents \cup {User}, to : Children \cup {None}, ids : SUBSET Children,
          sub : Nat, fg : BOOLEAN]
Rows == [status : Statuses, sub : Nat, seq : Nat, reported : Nat, quiet : BOOLEAN, fg : BOOLEAN]
Watchers == [Children -> [Subs -> {"none", "wait", "again", "plain", "joined", "hushed",
                                   "report", "quiet", "mark"}]]
Marks == [Agents -> [Children -> Int]]

CallsTyped == calls \subseteq Calls /\ Aimed
RowsTyped == row \in [Children -> Rows]
SubsTyped == subs \in [Children -> Seq(Outcomes)]
WatchTyped == watch \in Watchers
MarksTyped == sent \in Marks /\ mail \in Marks
EndsTyped == shown \in [Children -> Nat] /\ told \in [Children -> Nat] /\ lost \in [Children -> Nat]
PageTyped ==
    /\ main \in BOOLEAN /\ open \in BOOLEAN /\ moves \in 0..MaxMoves
    /\ detaching \in [on : BOOLEAN, fg : SUBSET Children]

AllTyped ==
    CallsTyped /\ RowsTyped /\ SubsTyped /\ WatchTyped /\ MarksTyped /\ EndsTyped /\ PageTyped

LEMMA TypesAre == (Typed <=> AllTyped) /\ (Typed' <=> AllTyped')
BY DEF AllTyped, Typed, TypeOK, CallsTyped, RowsTyped, SubsTyped, WatchTyped, MarksTyped, EndsTyped,
       PageTyped, Calls, Rows, Watchers, Marks

LEMMA Names == Main \in Agents /\ Children \subseteq Agents /\ None \notin Children /\ 1 \in Subs
BY AgentsAssumption DEF Agents, Subs

\* A move more, or none.
LEMMA MoveTyped ==
    ASSUME PageTyped
    PROVE Move => moves' \in 0..MaxMoves
<1>1. MaxMoves \in Nat BY AgentsAssumption
<1>2. QED BY <1>1 DEF PageTyped, Move

LEMMA SubmittedTyped ==
    ASSUME SubsTyped, NEW c \in Children
    PROVE /\ Submitted(c) \in [Children -> Seq(Outcomes)]
          /\ Len(Submitted(c)[c]) = Len(subs[c]) + 1
          /\ \A d \in Children : Len(Submitted(c)[d]) >= Len(subs[d])
<1>1. Append(subs[c], "open") \in Seq(Outcomes) /\ Len(Append(subs[c], "open")) = Len(subs[c]) + 1
    BY DEF SubsTyped, Outcomes
<1>2. \A d \in Children : Len(subs[d]) \in Nat BY DEF SubsTyped
<1>3. QED BY <1>1, <1>2 DEF SubsTyped, Submitted

LEMMA AbortedTyped ==
    ASSUME SubsTyped, NEW cs
    PROVE /\ Aborted(cs) \in [Children -> Seq(Outcomes)]
          /\ \A c \in Children : Len(Aborted(cs)[c]) = Len(subs[c])
<1>1. ASSUME NEW c \in Children
      PROVE Aborted(cs)[c] \in Seq(Outcomes) /\ Len(Aborted(cs)[c]) = Len(subs[c])
    <2>1. subs[c] \in Seq(Outcomes) BY DEF SubsTyped
    <2>2. DOMAIN subs[c] = 1..Len(subs[c]) /\ Len(subs[c]) \in Nat BY <2>1
    <2>3. [n \in DOMAIN subs[c] |-> IF subs[c][n] = "open" THEN "aborted" ELSE subs[c][n]]
              \in Seq(Outcomes)
        BY <2>1, <2>2 DEF Outcomes
    <2>4. Len([n \in DOMAIN subs[c] |-> IF subs[c][n] = "open" THEN "aborted" ELSE subs[c][n]])
              = Len(subs[c])
        BY <2>1, <2>2
    <2>5. QED BY <2>1, <2>3, <2>4 DEF Aborted
<1>2. Aborted(cs) = [c \in Children |-> Aborted(cs)[c]] BY DEF Aborted
<1>3. QED BY <1>1, <1>2

LEMMA WatchedTyped ==
    ASSUME WatchTyped, NEW c, NEW n
    PROVE Watched(c, n) \in Watchers
BY DEF WatchTyped, Watchers, Watched

LEMMA CountedTyped ==
    ASSUME NEW r \in [Children -> Rows], NEW w
    PROVE /\ Counted(r, w) \in [Children -> Rows]
          /\ \A c \in Children : /\ Counted(r, w)[c].status = r[c].status
                                 /\ Counted(r, w)[c].sub = r[c].sub
BY DEF Counted, Rows

LEMMA AwakeTyped ==
    ASSUME NEW r \in Rows, NEW n \in Nat, NEW by
    PROVE /\ Awake(r, n, by) \in Rows
          /\ Awake(r, n, by).status = "running" /\ Awake(r, n, by).sub = n
<1>1. \A b \in BOOLEAN : LET s == [r EXCEPT !.status = "running", !.sub = n, !.quiet = b]
                         IN  s \in Rows /\ s.status = "running" /\ s.sub = n
    BY DEF Rows, Statuses
<1>2. (by \in Children) \in BOOLEAN OBVIOUS
<1>3. QED BY <1>1, <1>2, Zenon DEF Awake

LEMMA MailedTyped ==
    ASSUME MarksTyped, NEW w \in Agents \cup {User}, NEW t \in Children, NEW n \in Int
    PROVE Mailed(w, t, n) \in Marks
BY DEF MarksTyped, Marks, Mailed

LEMMA WriteShrinks ==
    ASSUME NEW r, NEW cs, Write(r, cs)
    PROVE row' = r /\ calls' \subseteq cs
BY DEF Write

LEMMA CallsShrink ==
    ASSUME CallsTyped, calls' \subseteq calls
    PROVE CallsTyped'
BY DEF CallsTyped, Aimed

LEMMA BeginTyped ==
    ASSUME CallsTyped, NEW k \in Calls, k.pc # "joined" => k.to \in Children, Begin(k)
    PROVE CallsTyped'
BY DEF CallsTyped, Aimed, Begin

LEMMA CallTyped ==
    /\ \A c \in Children, g \in BOOLEAN :
          [Call EXCEPT !.pc = "enroll", !.from = Main, !.to = c, !.sub = 1, !.fg = g] \in Calls
    /\ \A w \in Agents, ids \in SUBSET Children : [Call EXCEPT !.from = w, !.ids = ids] \in Calls
    /\ \A pc \in {"steer", "wake"}, w \in Agents \cup {User}, t \in Children, n \in Nat :
          [Call EXCEPT !.pc = pc, !.from = w, !.to = t, !.sub = n] \in Calls
BY Names DEF Call, Calls

LEMMA SpawnTypes ==
    ASSUME Typed
    PROVE /\ \A c \in Children : SpawnStart(c) => Typed'
          /\ \A k \in calls : SpawnEnroll(k) => Typed'
<1> USE TypesAre DEF AllTyped
<1>1. ASSUME NEW c \in Children, SpawnStart(c) PROVE Typed'
    <2>1. CallsTyped'
        <3>1. PICK g \in BOOLEAN :
                Begin([Call EXCEPT !.pc = "enroll", !.from = Main, !.to = c, !.sub = 1, !.fg = g])
            BY <1>1 DEF SpawnStart
        <3>2. [Call EXCEPT !.pc = "enroll", !.from = Main, !.to = c, !.sub = 1, !.fg = g].to = c
            BY DEF Call
        <3>3. QED BY <3>1, <3>2, CallTyped, BeginTyped
    <2>2. SubsTyped' BY <1>1, SubmittedTyped DEF SpawnStart, SubsTyped
    <2>3. QED BY <1>1, <2>1, <2>2
              DEF SpawnStart, RowsTyped, WatchTyped, MarksTyped, EndsTyped, PageTyped
<1>2. ASSUME NEW k \in calls, SpawnEnroll(k) PROVE Typed'
    <2>1. k \in Calls /\ k.to \in Children BY <1>2 DEF CallsTyped, Aimed, SpawnEnroll
    <2>2. RowsTyped'
        <3>1. [NoRow EXCEPT !.status = "running", !.sub = 1, !.fg = k.fg] \in Rows
            BY <2>1 DEF Rows, Statuses, NoRow, Calls
        <3>2. row' = [row EXCEPT ![k.to] = [NoRow EXCEPT !.status = "running", !.sub = 1, !.fg = k.fg]]
            BY <1>2, WriteShrinks DEF SpawnEnroll
        <3>3. QED BY <3>1, <3>2, <2>1 DEF RowsTyped
    <2>3. CallsTyped'
        <3> DEFINE h == [k EXCEPT !.pc = "spawned", !.ids = {k.to}]
        <3>1. h \in Calls /\ h.to = k.to BY <2>1 DEF Calls
        <3>2. calls' \subseteq calls \cup {h} BY <1>2, WriteShrinks DEF SpawnEnroll
        <3>3. QED BY <2>1, <3>1, <3>2 DEF CallsTyped, Aimed
    <2>4. WatchTyped' BY <1>2, WatchedTyped DEF SpawnEnroll, WatchTyped
    <2>5. QED BY <1>2, <2>2, <2>3, <2>4
              DEF SpawnEnroll, SubsTyped, MarksTyped, EndsTyped, PageTyped
<1>3. QED BY <1>1, <1>2

LEMMA SendTypes ==
    ASSUME Typed
    PROVE /\ \A w \in Agents, t \in Children : SendStart(w, t) => Typed'
          /\ \A t \in Children : UserWrites(t) => Typed'
          /\ \A w \in Children : SendMain(w) => Typed'
          /\ \A k \in calls : SendSteer(k) \/ SendWake(k) \/ SendEnlist(k) => Typed'
<1> USE TypesAre DEF AllTyped
<1>1. ASSUME NEW w \in Agents \cup {User}, NEW t \in Children, NEW j \in BOOLEAN, SendTo(w, t, j)
      PROVE /\ CallsTyped' /\ RowsTyped' /\ SubsTyped' /\ WatchTyped' /\ EndsTyped' /\ PageTyped'
            /\ mail' \in Marks
    <2>1. CallsTyped'
        <3>1. row[t].sub \in Nat BY DEF RowsTyped, Rows
        <3>2. ASSUME NEW pc \in {"steer", "wake"},
                     Begin([Call EXCEPT !.pc = pc, !.from = w, !.to = t, !.sub = row[t].sub])
              PROVE CallsTyped'
            <4>1. [Call EXCEPT !.pc = pc, !.from = w, !.to = t, !.sub = row[t].sub].to = t
                BY DEF Call
            <4>2. QED BY <3>1, <3>2, <4>1, CallTyped, BeginTyped
        <3>3. CASE UNCHANGED calls BY <3>3, CallsShrink
        <3>4. QED BY <1>1, <3>2, <3>3 DEF SendTo
    <2>2. mail' \in Marks
        <3>1. CASE UNCHANGED mail BY <3>1 DEF MarksTyped
        <3>2. CASE mail' = Mailed(w, t, Refused) BY <3>2, MailedTyped DEF Refused
        <3>3. QED BY <1>1, <3>1, <3>2 DEF SendTo
    <2>3. PageTyped' BY <1>1, MoveTyped DEF SendTo, PageTyped
    <2>4. QED BY <1>1, <2>1, <2>2, <2>3 DEF SendTo, RowsTyped, SubsTyped, WatchTyped, EndsTyped
<1>2. ASSUME NEW w \in Agents, NEW t \in Children, SendStart(w, t) PROVE Typed'
    <2>1. SendTo(w, t, t \in Running /\ Busy(t)) /\ (t \in Running /\ Busy(t)) \in BOOLEAN
        BY <1>2 DEF SendStart
    <2>2. sent' \in Marks BY <1>2 DEF SendStart, MarksTyped, Marks, RowsTyped, Rows
    <2>3. QED BY <1>1, <2>1, <2>2 DEF MarksTyped
<1>3. ASSUME NEW t \in Children, UserWrites(t) PROVE Typed'
    <2>1. SendTo(User, t, t \in Running) /\ (t \in Running) \in BOOLEAN BY <1>3 DEF UserWrites
    <2>2. sent' \in Marks BY <1>3 DEF UserWrites, MarksTyped
    <2>3. QED BY <1>1, <2>1, <2>2 DEF MarksTyped
<1>4. ASSUME NEW w \in Children, SendMain(w) PROVE Typed'
    <2>1. RowsTyped' /\ CallsTyped'
        BY <1>4, WriteShrinks, CountedTyped, CallsShrink DEF SendMain, RowsTyped
    <2>2. PageTyped' BY <1>4, MoveTyped DEF SendMain, PageTyped
    <2>3. QED BY <1>4, <2>1, <2>2 DEF SendMain, SubsTyped, WatchTyped, MarksTyped, EndsTyped
<1>5. ASSUME NEW k \in calls, SendSteer(k) PROVE Typed'
    <2>1. k \in Calls /\ k.to \in Children BY <1>5 DEF CallsTyped, Aimed, SendSteer
    <2>2. RowsTyped' /\ CallsTyped'
        BY <1>5, WriteShrinks, CountedTyped, CallsShrink DEF SendSteer, RowsTyped
    <2>3. SubsTyped' BY <1>5, <2>1, SubmittedTyped DEF SendSteer, SubsTyped
    <2>4. MarksTyped'
        <3>1. PICK n \in Int : mail' = Mailed(k.from, k.to, n)
            BY <1>5, <2>1 DEF SendSteer, Calls, Missed
        <3>2. QED BY <1>5, <2>1, <3>1, MailedTyped DEF SendSteer, Calls, MarksTyped
    <2>5. QED BY <1>5, <2>2, <2>3, <2>4 DEF SendSteer, WatchTyped, EndsTyped, PageTyped
<1>6. ASSUME NEW k \in calls, SendWake(k) PROVE Typed'
    <2>1. k \in Calls /\ k.to \in Children BY <1>6 DEF CallsTyped, Aimed, SendWake
    <2>2. SubsTyped' BY <1>6, <2>1, SubmittedTyped DEF SendWake, SubsTyped
    <2>3. CallsTyped'
        <3> DEFINE h == [k EXCEPT !.pc = "enlist", !.sub = Len(subs[k.to]) + 1]
        <3>1. Len(subs[k.to]) \in Nat BY <2>1 DEF SubsTyped
        <3>2. h \in Calls /\ h.to = k.to
            <4>1. \A n \in Nat : LET j == [k EXCEPT !.pc = "enlist", !.sub = n]
                                IN  j \in Calls /\ j.to = k.to
                BY <2>1 DEF Calls
            <4>2. Len(subs[k.to]) + 1 \in Nat BY <3>1
            <4>3. QED BY <4>1, <4>2
        <3>3. calls' \subseteq calls \cup {h} BY <1>6 DEF SendWake
        <3>4. QED BY <2>1, <3>2, <3>3 DEF CallsTyped, Aimed
    <2>4. QED BY <1>6, <2>2, <2>3
              DEF SendWake, RowsTyped, WatchTyped, MarksTyped, EndsTyped, PageTyped
<1>7. ASSUME NEW k \in calls, SendEnlist(k) PROVE Typed'
    <2>1. k \in Calls /\ k.to \in Children BY <1>7 DEF CallsTyped, Aimed, SendEnlist
    <2>2. [row EXCEPT ![k.to] = Awake(@, k.sub, k.from)] \in [Children -> Rows]
        <3>1. Awake(row[k.to], k.sub, k.from) \in Rows BY <2>1, AwakeTyped DEF RowsTyped, Calls
        <3>2. QED BY <2>1, <3>1 DEF RowsTyped
    <2>3. RowsTyped' /\ CallsTyped'
        <3>1. /\ row' = Counted([row EXCEPT ![k.to] = Awake(@, k.sub, k.from)], k.from)
              /\ calls' \subseteq calls
            BY <1>7, WriteShrinks, Zenon DEF SendEnlist
        <3>2. QED BY <3>1, <2>2, CountedTyped, CallsShrink DEF RowsTyped
    <2>4. MarksTyped'
        BY <1>7, <2>1, MailedTyped DEF SendEnlist, Calls, MarksTyped
    <2>5. WatchTyped' BY <1>7, WatchedTyped DEF SendEnlist, WatchTyped
    <2>6. QED BY <1>7, <2>3, <2>4, <2>5 DEF SendEnlist, SubsTyped, EndsTyped, PageTyped
<1>8. QED BY <1>2, <1>3, <1>4, <1>5, <1>6, <1>7

LEMMA JoinTypes ==
    ASSUME Typed
    PROVE /\ \A w \in Agents, ids \in SUBSET Children : JoinStart(w, ids) => Typed'
          /\ \A k \in calls : JoinTimeout(k) => Typed'
<1> USE TypesAre DEF AllTyped
<1>1. ASSUME NEW w \in Agents, NEW ids \in SUBSET Children, JoinStart(w, ids) PROVE Typed'
    <2>1. [Call EXCEPT !.from = w, !.ids = ids].pc = "joined" BY DEF Call
    <2>2. CallsTyped' BY <1>1, <2>1, CallTyped, BeginTyped DEF JoinStart
    <2>3. PageTyped' BY <1>1, MoveTyped DEF JoinStart, PageTyped
    <2>4. QED BY <1>1, <2>2, <2>3
              DEF JoinStart, RowsTyped, SubsTyped, WatchTyped, MarksTyped, EndsTyped
<1>2. ASSUME NEW k \in calls, JoinTimeout(k) PROVE Typed'
    <2>1. CallsTyped' BY <1>2, CallsShrink DEF JoinTimeout
    <2>2. PageTyped' BY <1>2, MoveTyped DEF JoinTimeout, PageTyped
    <2>3. QED BY <1>2, <2>1, <2>2
              DEF JoinTimeout, RowsTyped, SubsTyped, WatchTyped, MarksTyped, EndsTyped
<1>3. QED BY <1>1, <1>2

LEMMA OutcomeTyped ==
    ASSUME SubsTyped, NEW c \in Children, NEW i, NEW o \in Outcomes,
           subs' = [subs EXCEPT ![c][i] = o]
    PROVE SubsTyped' /\ \A d \in Children : Len(subs'[d]) = Len(subs[d])
<1>1. subs[c] \in Seq(Outcomes) BY DEF SubsTyped
<1>2. /\ [subs[c] EXCEPT ![i] = o] \in Seq(Outcomes)
      /\ Len([subs[c] EXCEPT ![i] = o]) = Len(subs[c])
    <2> DEFINE s == subs[c]  t == [s EXCEPT ![i] = o]
    <2>1. Len(s) \in Nat /\ DOMAIN s = 1..Len(s) /\ s \in [1..Len(s) -> Outcomes] BY <1>1
    <2>2. t \in [1..Len(s) -> Outcomes] BY <2>1
    <2>3. QED BY <2>1, <2>2
<1>3. QED BY <1>2 DEF SubsTyped

LEMMA RunTypes ==
    ASSUME Typed, NEW c \in Children, Settle(c) \/ Stop(c)
    PROVE Typed'
<1> USE TypesAre DEF AllTyped
<1>1. CASE Settle(c)
    <2>1. SubsTyped' BY <1>1, OutcomeTyped DEF Settle, Outcomes
    <2>2. PageTyped' BY <1>1, MoveTyped DEF Settle, PageTyped, local
    <2>3. QED BY <1>1, <2>1, <2>2
              DEF Settle, local, CallsTyped, Aimed, RowsTyped, WatchTyped, MarksTyped, EndsTyped
<1>2. CASE Stop(c)
    <2>1. SubsTyped' BY <1>2, AbortedTyped DEF Stop, SubsTyped
    <2>2. PageTyped' BY <1>2, MoveTyped DEF Stop, PageTyped
    <2>3. CallsTyped' BY <1>2, CallsShrink DEF Stop
    <2>4. QED BY <1>2, <2>1, <2>2, <2>3 DEF Stop, RowsTyped, WatchTyped, MarksTyped, EndsTyped
<1>3. QED BY <1>1, <1>2

\* The row of a watcher's end.
LEMMA EndedTyped ==
    ASSUME NEW r \in Rows, NEW n \in Nat, NEW o, NEW j \in BOOLEAN
    PROVE /\ EndedRow(r, n, o, j) \in Rows
          /\ EndedRow(r, n, o, j).status \in Ended
          /\ EndedRow(r, n, o, j).sub = r.sub
<1>1. StatusOf(o) \in Ended BY DEF StatusOf, Ended
<1>2. Ended \subseteq Statuses BY DEF Ended, Statuses
<1>3. EndedRow(r, n, o, j) = [r EXCEPT !.status = StatusOf(o), !.seq = r.seq + 1,
                                       !.reported = IF j THEN n ELSE r.reported]
    BY DEF EndedRow, Rows
<1>4. r.seq + 1 \in Nat /\ (IF j THEN n ELSE r.reported) \in Nat BY DEF Rows
<1>5. PICK q \in Nat, m \in Nat :
          EndedRow(r, n, o, j) = [r EXCEPT !.status = StatusOf(o), !.seq = q, !.reported = m]
    BY <1>3, <1>4, Zenon
<1>6. StatusOf(o) \in Statuses BY <1>1, <1>2
<1> DEFINE e == [r EXCEPT !.status = StatusOf(o), !.seq = q, !.reported = m]
<1>7. e \in Rows /\ e.status = StatusOf(o) /\ e.sub = r.sub BY <1>6 DEF Rows
<1>8. EndedRow(r, n, o, j) = e BY <1>5
<1> HIDE DEF e
<1>9. QED BY <1>1, <1>7, <1>8

LEMMA WatchSet ==
    ASSUME WatchTyped, NEW c, NEW n,
           NEW s \in {"none", "wait", "again", "plain", "joined", "hushed", "report", "quiet", "mark"}
    PROVE [watch EXCEPT ![c][n] = s] \in Watchers
BY DEF WatchTyped, Watchers

LEMMA WatchTypes ==
    ASSUME Typed, NEW c \in Children, NEW n \in Subs, WatchStep(c, n)
    PROVE Typed'
<1> USE TypesAre DEF AllTyped
<1>n. n \in Nat BY DEF Subs
<1>1. CASE Decide(c, n)
    <2>1. WatchTyped' BY <1>1 DEF Decide, WatchTyped, Watchers
    <2>2. QED BY <1>1, <2>1
              DEF Decide, CallsTyped, Aimed, RowsTyped, SubsTyped, MarksTyped, EndsTyped, PageTyped
<1>2. CASE Record(c, n)
    <2> DEFINE r == EndedRow(row[c], n, subs[c][n], watch[c][n] = "joined")
    <2>1. r \in Rows BY <1>n, EndedTyped DEF RowsTyped
    <2>2. RowsTyped' /\ CallsTyped'
        <3>1. CASE Superseded(c, n) BY <1>2, <3>1, CallsShrink DEF Record, RowsTyped
        <3>2. CASE ~Superseded(c, n)
            <4>1. row' = [row EXCEPT ![c] = r] /\ calls' \subseteq calls
                BY <1>2, <3>2, WriteShrinks DEF Record
            <4>2. QED BY <2>1, <4>1, CallsShrink DEF RowsTyped
        <3>3. QED BY <3>1, <3>2
    <2>3. WatchTyped'
        <3>1. Report(r, n, watch[c][n] = "hushed") \in {"none", "quiet", "report"} BY DEF Report
        <3>2. watch' = [watch EXCEPT ![c][n] = "none"]
              \/ watch' = [watch EXCEPT ![c][n] = Report(r, n, watch[c][n] = "hushed")]
            BY <1>2 DEF Record
        <3>3. PICK s \in {"none", "quiet", "report"} : watch' = [watch EXCEPT ![c][n] = s]
            BY <3>1, <3>2, Zenon
        <3>4. QED BY <3>3, WatchSet DEF WatchTyped
    <2>4. EndsTyped' BY <1>2, <1>n DEF Record, EndsTyped, Later
    <2>5. QED BY <1>2, <2>2, <2>3, <2>4 DEF Record, SubsTyped, MarksTyped, PageTyped
<1>3. CASE Post(c, n)
    <2>1. WatchTyped' BY <1>3, WatchSet DEF Post, WatchTyped
    <2>2. EndsTyped' BY <1>3, <1>n DEF Post, EndsTyped, Later
    <2>3. PageTyped' BY <1>3 DEF Post, PageTyped
    <2>4. QED BY <1>3, <2>1, <2>2, <2>3
              DEF Post, CallsTyped, Aimed, RowsTyped, SubsTyped, MarksTyped
<1>4. CASE Mark(c, n)
    <2>1. row' = [row EXCEPT ![c].reported = n] /\ calls' \subseteq calls
        BY <1>4, WriteShrinks DEF Mark
    <2>2. RowsTyped' /\ CallsTyped' BY <2>1, <1>n, CallsShrink DEF RowsTyped, Rows
    <2>3. WatchTyped' BY <1>4, WatchSet DEF Mark, WatchTyped
    <2>4. QED BY <1>4, <2>2, <2>3 DEF Mark, SubsTyped, MarksTyped, EndsTyped, PageTyped
<1>5. QED BY <1>1, <1>2, <1>3, <1>4 DEF WatchStep

LEMMA MainTypes ==
    ASSUME Typed, UserTurn \/ MainEnds \/ StopMain \/ Detach \/ Detached
    PROVE Typed'
<1> USE TypesAre DEF AllTyped
<1>1. CASE UserTurn
    <2>1. PageTyped' BY <1>1, MoveTyped DEF UserTurn, PageTyped
    <2>2. QED BY <1>1, <2>1
              DEF UserTurn, CallsTyped, Aimed, RowsTyped, SubsTyped, WatchTyped, MarksTyped, EndsTyped
<1>2. CASE MainEnds
    <2>1. PageTyped' BY <1>2 DEF MainEnds, PageTyped
    <2>2. QED BY <1>2, <2>1
              DEF MainEnds, CallsTyped, Aimed, RowsTyped, SubsTyped, WatchTyped, MarksTyped, EndsTyped
<1>3. CASE StopMain
    <2>1. PageTyped' BY <1>3, MoveTyped DEF StopMain, PageTyped
    <2>2. SubsTyped' BY <1>3, AbortedTyped DEF StopMain, SubsTyped
    <2>3. CallsTyped' BY <1>3, CallsShrink DEF StopMain
    <2>4. QED BY <1>3, <2>1, <2>2, <2>3 DEF StopMain, RowsTyped, WatchTyped, MarksTyped, EndsTyped
<1>4. CASE Detach
    <2>1. PageTyped'
        <3>1. [on |-> TRUE, fg |-> {c \in Children : WaitedOn(c)}] \in [on : BOOLEAN, fg : SUBSET Children]
            OBVIOUS
        <3>2. QED BY <1>4, <3>1, MoveTyped DEF Detach, PageTyped
    <2>2. QED BY <1>4, <2>1
              DEF Detach, CallsTyped, Aimed, RowsTyped, SubsTyped, WatchTyped, MarksTyped, EndsTyped
<1>5. CASE Detached
    <2>1. /\ row' = [c \in Children |-> IF c \in detaching.fg THEN [row[c] EXCEPT !.fg = FALSE] ELSE row[c]]
          /\ calls' \subseteq calls
        BY <1>5, WriteShrinks DEF Detached
    <2>2. RowsTyped' /\ CallsTyped' BY <2>1, CallsShrink DEF RowsTyped, Rows
    <2>3. PageTyped' BY <1>5 DEF Detached, PageTyped, Still
    <2>4. QED BY <1>5, <2>2, <2>3 DEF Detached, SubsTyped, WatchTyped, MarksTyped, EndsTyped
<1>6. QED BY <1>1, <1>2, <1>3, <1>4, <1>5

LEMMA PageTypes ==
    ASSUME Typed, Close \/ Reopen
    PROVE Typed'
<1> USE TypesAre DEF AllTyped
<1>1. CASE Close
    <2>1. CallsTyped' BY <1>1, CallsShrink DEF Close
    <2>2. PageTyped' BY <1>1, MoveTyped DEF Close, PageTyped, Still
    <2>3. WatchTyped' /\ MarksTyped'
        BY <1>1 DEF Close, WatchTyped, Watchers, NoWatch, MarksTyped, Marks, Unmarked, Unread
    <2>4. QED BY <1>1, <2>1, <2>2, <2>3 DEF Close, RowsTyped, SubsTyped, EndsTyped
<1>2. CASE Reopen
    <2>1. SubsTyped' BY <1>2, AbortedTyped DEF Reopen, SubsTyped
    <2>2. RowsTyped' BY <1>2 DEF Reopen, RowsTyped, Rows, Statuses
    <2>3. WatchTyped'
        <3>1. \A c \in Children : Resumed(c) \in {"none", "quiet", "again"} BY DEF Resumed
        <3>2. QED BY <1>2, <3>1 DEF Reopen, WatchTyped, Watchers
    <2>4. PageTyped' BY <1>2 DEF Reopen, PageTyped
    <2>5. QED BY <1>2, <2>1, <2>2, <2>3, <2>4
              DEF Reopen, CallsTyped, Aimed, MarksTyped, EndsTyped
<1>3. QED BY <1>1, <1>2

LEMMA InitTyped == Init => Typed
<1> SUFFICES ASSUME Init PROVE Typed OBVIOUS
<1> USE TypesAre DEF AllTyped
<1>1. CallsTyped BY DEF Init, GraphInit, CallsTyped, Aimed
<1>2. RowsTyped BY DEF Init, RowsTyped, Rows, NoRow, Statuses
<1>3. SubsTyped BY DEF Init, SubsTyped
<1>4. WatchTyped /\ MarksTyped
    BY DEF Init, GraphInit, WatchTyped, Watchers, NoWatch, MarksTyped, Marks, Unmarked, Unread
<1>5. EndsTyped BY DEF Init, EndsTyped
<1>6. PageTyped
    <2>1. 0 \in 0..MaxMoves BY AgentsAssumption
    <2>2. QED BY <2>1 DEF Init, PageTyped, Still
<1>7. QED BY <1>1, <1>2, <1>3, <1>4, <1>5, <1>6

LEMMA NextTyped == Typed /\ [Next]_vars => Typed'
<1> SUFFICES ASSUME Typed, [Next]_vars PROVE Typed' OBVIOUS
<1>1. CASE CallStart BY <1>1, SpawnTypes, SendTypes, JoinTypes DEF CallStart
<1>2. CASE \E k \in calls : CallStep(k) \/ JoinTimeout(k)
    BY <1>2, SpawnTypes, SendTypes, JoinTypes DEF CallStep
<1>3. CASE \E c \in Children : Settle(c) \/ Stop(c) BY <1>3, RunTypes
<1>4. CASE \E c \in Children, n \in Subs : WatchStep(c, n) BY <1>4, WatchTypes
<1>5. CASE UserTurn \/ MainEnds \/ StopMain \/ Detach \/ Detached BY <1>5, MainTypes
<1>6. CASE Close \/ Reopen BY <1>6, PageTypes
<1>7. CASE UNCHANGED vars
    BY <1>7, TypesAre
       DEF vars, local, AllTyped, CallsTyped, Aimed, RowsTyped, SubsTyped, WatchTyped, MarksTyped,
           EndsTyped, PageTyped
<1>8. QED BY <1>1, <1>2, <1>3, <1>4, <1>5, <1>6, <1>7 DEF Next

-----------------------------------------------------------------------------
(* Waiting. *)

\* Agents wait for subagents, never for main.
LEMMA WaitsOnChildren ==
    ASSUME CallsTyped, NEW a
    PROVE Waits(a) \subseteq Children
BY DEF CallsTyped, Calls, Waits, Held

\* When nobody waits for more than before, no circle appears.
LEMMA FewerWaits ==
    ASSUME NoWaitCycle, \A a \in Agents : Waits(a)' \subseteq Waits(a)
    PROVE NoWaitCycle'
BY DEF NoWaitCycle

LEMMA FewerHolds ==
    ASSUME NoWaitCycle, \A k \in calls' : k.pc \in {"spawned", "joined"} => k \in calls
    PROVE NoWaitCycle'
<1>1. \A a \in Agents : Waits(a)' \subseteq Waits(a) BY DEF Waits, Held
<1>2. QED BY <1>1, FewerWaits

\* Main may hold for a subagent, since nobody waits for main.
LEMMA SpawnMakesNoCycle ==
    ASSUME Typed, NoWaitCycle, NEW c \in Children,
           \A a \in Agents : Waits(a)' \subseteq Waits(a) \cup (IF a = Main THEN {c} ELSE {})
    PROVE NoWaitCycle'
<1>1. \A a \in Agents : Waits(a) \subseteq Children BY WaitsOnChildren, TypesAre DEF AllTyped
<1>2. Main \notin Children BY AgentsAssumption
<1>3. SUFFICES ASSUME NEW S \in (SUBSET Agents) \ {{}}
               PROVE \E a \in S : Waits(a)' \cap S = {}
    BY DEF NoWaitCycle
<1>4. CASE S = {Main}
    <2>1. Main \in S /\ Waits(Main)' \cap S = {} BY <1>1, <1>2, <1>4, Names
    <2>2. QED BY <2>1
<1>5. CASE S # {Main}
    <2>1. S \ {Main} \in (SUBSET Agents) \ {{}} BY <1>5
    <2>2. PICK a \in S \ {Main} : Waits(a) \cap (S \ {Main}) = {} BY <2>1 DEF NoWaitCycle
    <2>3. Waits(a)' \cap S = {} BY <2>2, <1>1, <1>2
    <2>4. QED BY <2>2, <2>3
<1>6. QED BY <1>4, <1>5

\* A join that closes no circle over the holds closes none: what it waits for is
\* in a set of agents that wait for each other only, and the joiner is not.
LEMMA JoinMakesNoCycle ==
    ASSUME NoWaitCycle, NEW w \in Agents, NEW ids, ~ClosesCycle(w, ids),
           \A a \in Agents : Waits(a)' \subseteq Waits(a) \cup (IF a = w THEN ids ELSE {})
    PROVE NoWaitCycle'
<1>1. PICK C \in SUBSET Agents :
          ids \subseteq C /\ (\A a \in C : Waits(a) \subseteq C) /\ w \notin C
    BY DEF ClosesCycle
<1>2. SUFFICES ASSUME NEW S \in (SUBSET Agents) \ {{}}
               PROVE \E a \in S : Waits(a)' \cap S = {}
    BY DEF NoWaitCycle
<1>3. CASE S \cap C = {}
    <2>1. PICK a \in S : Waits(a) \cap S = {} BY DEF NoWaitCycle
    <2>2. Waits(a)' \cap S = {} BY <1>1, <1>3, <2>1
    <2>3. QED BY <2>2
<1>4. CASE S \cap C # {}
    <2>1. PICK a \in S \cap C : Waits(a) \cap (S \cap C) = {} BY <1>4 DEF NoWaitCycle
    <2>2. Waits(a)' \cap S = {} BY <1>1, <2>1
    <2>3. QED BY <2>2
<1>5. QED BY <1>3, <1>4

LEMMA WriteHolds ==
    ASSUME NEW r, NEW cs \in SUBSET calls, Write(r, cs)
    PROVE \A k \in calls' : k \in calls
BY DEF Write

LEMMA NextOrder == Typed /\ Born /\ NoWaitCycle /\ [Next]_vars => NoWaitCycle'
<1> SUFFICES ASSUME Typed, Born, NoWaitCycle, [Next]_vars PROVE NoWaitCycle' OBVIOUS
<1>t. CallsTyped BY TypesAre DEF AllTyped
<1>1. ASSUME NEW k, Begin(k), k.pc \notin {"spawned", "joined"} PROVE NoWaitCycle'
    BY <1>1, FewerHolds DEF Begin
<1>2. ASSUME UNCHANGED calls PROVE NoWaitCycle' BY <1>2, FewerHolds
<1>3. ASSUME calls' \subseteq calls PROVE NoWaitCycle' BY <1>3, FewerHolds
<1>4. CASE \E c \in Children : SpawnStart(c)
    <2>1. PICK c \in Children : SpawnStart(c) BY <1>4
    <2>2. PICK g \in BOOLEAN :
            Begin([Call EXCEPT !.pc = "enroll", !.from = Main, !.to = c, !.sub = 1, !.fg = g])
        BY <2>1 DEF SpawnStart
    <2>3. [Call EXCEPT !.pc = "enroll", !.from = Main, !.to = c, !.sub = 1, !.fg = g].pc = "enroll"
        BY DEF Call
    <2>4. QED BY <1>1, <2>2, <2>3
<1>5. ASSUME NEW w, NEW t, NEW j, SendTo(w, t, j) PROVE NoWaitCycle'
    <2>1. ASSUME NEW pc \in {"steer", "wake"},
                 Begin([Call EXCEPT !.pc = pc, !.from = w, !.to = t, !.sub = row[t].sub])
          PROVE NoWaitCycle'
        <3>1. [Call EXCEPT !.pc = pc, !.from = w, !.to = t, !.sub = row[t].sub].pc = pc
            BY DEF Call
        <3>2. QED BY <1>1, <2>1, <3>1
    <2>2. QED BY <1>2, <1>5, <2>1 DEF SendTo
<1>6. CASE \E w \in Agents, ids \in SUBSET Children : JoinStart(w, ids)
    <2>1. PICK w \in Agents, ids \in SUBSET Children : JoinStart(w, ids) BY <1>6
    <2> DEFINE k == [Call EXCEPT !.from = w, !.ids = ids]
    <2>2. k.from = w /\ k.ids = ids BY DEF Call
    <2>3. calls' = calls \cup {k} BY <2>1 DEF JoinStart, Begin
    <2> HIDE DEF k
    <2>4. \A a \in Agents : Waits(a)' \subseteq Waits(a) \cup (IF a = w THEN ids ELSE {})
        BY <2>2, <2>3 DEF Waits, Held
    <2>5. QED BY <2>1, <2>4, JoinMakesNoCycle DEF JoinStart
<1>7. CASE CallStart
    <2>1. CASE \E w \in Children : SendMain(w) BY <2>1, <1>3, WriteHolds DEF SendMain
    <2>2. QED BY <1>7, <1>4, <1>5, <1>6, <2>1 DEF CallStart, SendStart, UserWrites
<1>8. ASSUME NEW k \in calls, SpawnEnroll(k) PROVE NoWaitCycle'
    <2> DEFINE h == [k EXCEPT !.pc = "spawned", !.ids = {k.to}]
    <2>1. k \in Calls /\ k.to \in Children /\ k.pc = "enroll"
        BY <1>8, <1>t DEF CallsTyped, Aimed, SpawnEnroll
    <2>2. h.from = k.from /\ h.ids = {k.to} BY <2>1 DEF Calls
    <2>3. calls' \subseteq (calls \ {k}) \cup {h} BY <1>8, WriteShrinks DEF SpawnEnroll
    <2> HIDE DEF h
    <2>4. \A a \in Agents : Waits(a)' \subseteq Waits(a) \cup (IF a = k.from THEN {k.to} ELSE {})
        BY <2>2, <2>3 DEF Waits, Held
    <2>5. k.from = Main BY <2>1 DEF Born
    <2>6. QED BY <2>1, <2>4, <2>5, SpawnMakesNoCycle
<1>9. CASE \E k \in calls : CallStep(k) \/ JoinTimeout(k)
    <2>1. PICK k \in calls : CallStep(k) \/ JoinTimeout(k) BY <1>9
    <2>2. CASE SendSteer(k) BY <2>2, <1>3, WriteShrinks DEF SendSteer
    <2>3. CASE SendWake(k)
        <3>1. k \in Calls BY <1>t DEF CallsTyped
        <3>2. [k EXCEPT !.pc = "enlist", !.sub = Len(subs[k.to]) + 1].pc = "enlist"
            BY <3>1 DEF Calls
        <3>3. QED BY <2>3, <3>2, FewerHolds DEF SendWake
    <2>4. CASE SendEnlist(k) BY <2>4, <1>3, WriteShrinks DEF SendEnlist
    <2>5. CASE JoinTimeout(k) BY <2>5, <1>3 DEF JoinTimeout
    <2>6. QED BY <2>1, <1>8, <2>2, <2>3, <2>4, <2>5 DEF CallStep
<1>10. CASE \E c \in Children : Settle(c) \/ Stop(c)
    BY <1>10, <1>2, <1>3 DEF Settle, local, Stop
<1>11. CASE \E c \in Children, n \in Subs : WatchStep(c, n)
    <2>1. PICK c \in Children, n \in Subs : WatchStep(c, n) BY <1>11
    <2>2. CASE Decide(c, n) \/ Post(c, n) BY <2>2, <1>2 DEF Decide, Post
    <2>3. CASE Record(c, n)
        <3>1. CASE Superseded(c, n) BY <2>3, <3>1, <1>3 DEF Record
        <3>2. CASE ~Superseded(c, n) BY <2>3, <3>2, <1>3, WriteShrinks DEF Record
        <3>3. QED BY <3>1, <3>2
    <2>4. CASE Mark(c, n) BY <2>4, <1>3, WriteShrinks DEF Mark
    <2>5. QED BY <2>1, <2>2, <2>3, <2>4 DEF WatchStep
<1>12. CASE UserTurn \/ MainEnds \/ StopMain \/ Detach \/ Detached
    <2>1. CASE Detached BY <2>1, <1>3, WriteShrinks DEF Detached
    <2>2. CASE StopMain BY <2>2, <1>3 DEF StopMain
    <2>3. QED BY <1>12, <2>1, <2>2, <1>2 DEF UserTurn, MainEnds, Detach
<1>13. CASE Close \/ Reopen
    <2>1. CASE Close BY <2>1, <1>3 DEF Close
    <2>2. CASE Reopen BY <2>2, <1>2 DEF Reopen
    <2>3. QED BY <1>13, <2>1, <2>2
<1>14. CASE UNCHANGED vars BY <1>14, <1>2 DEF vars, local
<1>15. QED BY <1>7, <1>9, <1>10, <1>11, <1>12, <1>13, <1>14 DEF Next

-----------------------------------------------------------------------------
(* What is read. *)
Steady == \A c \in Children : row'[c].status = row[c].status /\ row'[c].sub = row[c].sub
Grown == \A c \in Children : Len(subs'[c]) >= Len(subs[c])
NoMail == \A w \in Agents, t \in Children : mail'[w][t] = mail[w][t] \/ mail'[w][t] < 0

LEMMA ReadTyped ==
    ASSUME Typed
    PROVE /\ \A c \in Children : row[c].sub \in Nat /\ Len(subs[c]) \in Nat /\ shown[c] \in Nat
          /\ \A w \in Agents, t \in Children : mail[w][t] \in Int
          /\ \A k \in calls : k \in Calls /\ k.sub \in Nat /\ (k.pc # "joined" => k.to \in Children)
BY TypesAre
   DEF AllTyped, RowsTyped, Rows, SubsTyped, EndsTyped, MarksTyped, Marks, CallsTyped, Aimed, Calls

LEMMA ReadTypedNext ==
    ASSUME Typed'
    PROVE /\ \A c \in Children : row'[c].sub \in Nat /\ Len(subs'[c]) \in Nat /\ shown'[c] \in Nat
          /\ \A w \in Agents, t \in Children : mail'[w][t] \in Int
          /\ \A k \in calls' : k \in Calls /\ k.sub \in Nat /\ (k.pc # "joined" => k.to \in Children)
BY TypesAre
   DEF AllTyped, RowsTyped, Rows, SubsTyped, EndsTyped, MarksTyped, Marks, CallsTyped, Aimed, Calls

\* Steps that write no status and begin no call that matters.
LEMMA QuietRead ==
    ASSUME Typed, Typed', Read, Steady, Grown, NoMail, UNCHANGED <<shown, open>>,
           \A k \in calls' : k \in calls \/ k.pc \in {"joined", "spawned"}
    PROVE Born' /\ Queued' /\ Shown' /\ (open \/ calls' \subseteq calls => Shut')
<1> USE ReadTyped, ReadTypedNext DEF Read, Steady, Grown, NoMail
<1>1. Born' BY DEF Born
<1>2. Queued' BY DEF Queued
<1>3. Shown' BY DEF Shown
<1>4. open \/ calls' \subseteq calls => Shut' BY DEF Shut
<1>5. QED BY <1>1, <1>2, <1>3, <1>4

\* A message or a join begins.
LEMMA BeginRead ==
    ASSUME Typed, Typed', Read, open, UNCHANGED <<row, subs, mail, shown, open>>,
           NEW k, calls' = calls \cup {k},
           \/ k.pc = "joined"
           \/ k.pc = "steer" /\ row[k.to].status = "running" /\ k.sub = row[k.to].sub
           \/ k.pc = "wake" /\ row[k.to].status # "none"
    PROVE Read'
<1> USE ReadTyped, ReadTypedNext DEF Read
<1>1. Born' BY DEF Born
<1>2. Queued' BY DEF Queued
<1>3. Shown' BY DEF Shown
<1>4. Shut' BY DEF Shut
<1>5. QED BY <1>1, <1>2, <1>3, <1>4

LEMMA SpawnRead ==
    ASSUME Typed, Typed', Read
    PROVE /\ \A c \in Children : SpawnStart(c) => Read'
          /\ \A k \in calls : SpawnEnroll(k) => Read'
<1> USE ReadTyped, ReadTypedNext DEF Read
<1>1. ASSUME NEW c \in Children, SpawnStart(c) PROVE Read'
    <2>1. PICK g \in BOOLEAN :
            Begin([Call EXCEPT !.pc = "enroll", !.from = Main, !.to = c, !.sub = 1, !.fg = g])
        BY <1>1 DEF SpawnStart
    <2> DEFINE e == [Call EXCEPT !.pc = "enroll", !.from = Main, !.to = c, !.sub = 1, !.fg = g]
    <2>2. e.pc = "enroll" /\ e.from = Main /\ e.to = c BY DEF Call
    <2>3. calls' = calls \cup {e} BY <2>1 DEF Begin
    <2> HIDE DEF e
    <2>4. subs[c] = <<>> /\ \A k \in calls : k.to # c BY <1>1 DEF SpawnStart, Unborn
    <2>5. row[c].status = "none" BY <2>4 DEF Born
    <2>6. /\ Len(subs'[c]) = Len(subs[c]) + 1
          /\ \A d \in Children : Len(subs'[d]) >= Len(subs[d])
        BY <1>1, SubmittedTyped, TypesAre DEF SpawnStart, AllTyped
    <2>7. UNCHANGED <<row, mail, shown, open>> /\ open BY <1>1 DEF SpawnStart, Acts
    <2>8. Born' BY <2>2, <2>3, <2>4, <2>5, <2>6, <2>7 DEF Born
    <2>9. Queued' BY <2>2, <2>3, <2>6, <2>7 DEF Queued
    <2>10. Shown' BY <2>2, <2>3, <2>7 DEF Shown
    <2>11. Shut' BY <2>7 DEF Shut
    <2>12. QED BY <2>8, <2>9, <2>10, <2>11
<1>2. ASSUME NEW k \in calls, SpawnEnroll(k) PROVE Read'
    <2> DEFINE h == [k EXCEPT !.pc = "spawned", !.ids = {k.to}]
    <2>1. k.pc = "enroll" /\ k.to \in Children /\ UNCHANGED <<subs, mail, shown, open>>
        BY <1>2 DEF SpawnEnroll
    <2>2. h.pc = "spawned" BY DEF Calls
    <2>3. calls' \subseteq (calls \ {k}) \cup {h} BY <1>2, WriteShrinks DEF SpawnEnroll
    <2> HIDE DEF h
    <2>4. \A c \in Children : /\ c = k.to => row'[c].status = "running" /\ row'[c].sub = 1
                              /\ c # k.to => row'[c] = row[c]
        <3>1. row' = [row EXCEPT ![k.to] = [NoRow EXCEPT !.status = "running", !.sub = 1, !.fg = k.fg]]
            BY <1>2, WriteShrinks DEF SpawnEnroll
        <3>2. QED BY <3>1, <2>1, TypesAre DEF AllTyped, RowsTyped, NoRow
    <2>5. row[k.to].status = "none" /\ Len(subs[k.to]) > 0 BY <2>1 DEF Born
    <2>6. \A j \in calls : j.to = k.to => j.pc \notin {"steer", "wake", "enlist"}
        BY <2>1, <2>5 DEF Born
    <2>7. Born'
        <3>1. \A j \in calls : j.pc = "enroll" /\ j.to = k.to => j = k BY <2>1 DEF Born
        <3>2. QED BY <2>1, <2>2, <2>3, <2>4, <2>5, <3>1 DEF Born
    <2>8. Queued' BY <2>1, <2>2, <2>3, <2>4, <2>5, <2>6 DEF Queued
    <2>9. Shown'
        <3>1. \A w \in Agents : mail[w][k.to] <= 0 BY <2>1, <2>5 DEF Born
        <3>2. QED BY <2>1, <2>2, <2>3, <2>4, <3>1 DEF Shown, Ended
    <2>10. Shut' BY <2>1 DEF Shut
    <2>11. QED BY <2>7, <2>8, <2>9, <2>10
<1>3. QED BY <1>1, <1>2

LEMMA SendRead ==
    ASSUME Typed, Typed', Read
    PROVE /\ \A w \in Agents, t \in Children : SendStart(w, t) => Read'
          /\ \A t \in Children : UserWrites(t) => Read'
          /\ \A w \in Children : SendMain(w) => Read'
<1> USE ReadTyped
<1>1. ASSUME NEW w \in Agents \cup {User}, NEW t \in Known, NEW j \in BOOLEAN,
             SendTo(w, t, j), j => t \in Running, open
      PROVE Read'
    <2>1. ASSUME NEW pc \in {"steer", "wake"}, pc = "steer" => row[t].status = "running",
                 Begin([Call EXCEPT !.pc = pc, !.from = w, !.to = t, !.sub = row[t].sub]),
                 UNCHANGED mail
          PROVE Read'
        <3> DEFINE k == [Call EXCEPT !.pc = pc, !.from = w, !.to = t, !.sub = row[t].sub]
        <3>1. k.pc = pc /\ k.to = t /\ k.sub = row[t].sub BY DEF Call
        <3>2. calls' = calls \cup {k} BY <2>1 DEF Begin
        <3> HIDE DEF k
        <3>3. UNCHANGED <<row, subs, mail, shown, open>> BY <1>1, <2>1 DEF SendTo
        <3>4. row[t].status # "none" BY DEF Known
        <3>5. QED BY <1>1, <2>1, <3>1, <3>2, <3>3, <3>4, BeginRead
    <2>2. ASSUME UNCHANGED calls, mail' = Mailed(w, t, Refused) PROVE Read'
        <3>1. Steady /\ Grown /\ UNCHANGED <<shown, open>>
            BY <1>1 DEF SendTo, Steady, Grown
        <3>2. NoMail
            BY <2>2, TypesAre DEF NoMail, Mailed, Refused, AllTyped, MarksTyped, Marks
        <3>3. QED BY <2>2, <3>1, <3>2, QuietRead DEF Read
    <2>3. j => row[t].status = "running" BY <1>1 DEF Running
    <2>4. QED BY <1>1, <2>1, <2>2, <2>3 DEF SendTo
<1>2. ASSUME NEW w \in Agents, NEW t \in Children, SendStart(w, t) PROVE Read'
    <2>1. /\ SendTo(w, t, t \in Running /\ Busy(t)) /\ (t \in Running /\ Busy(t)) \in BOOLEAN
          /\ t \in Known /\ open
        BY <1>2 DEF SendStart, Acts
    <2>2. QED BY <1>1, <2>1
<1>3. ASSUME NEW t \in Children, UserWrites(t) PROVE Read'
    <2>1. SendTo(User, t, t \in Running) /\ (t \in Running) \in BOOLEAN /\ t \in Known /\ open
        BY <1>3 DEF UserWrites
    <2>2. QED BY <1>1, <2>1
<1>4. ASSUME NEW w \in Children, SendMain(w) PROVE Read'
    <2>1. row' = Counted(row, w) /\ calls' \subseteq calls BY <1>4, WriteShrinks DEF SendMain
    <2>2. Steady BY <2>1, CountedTyped, TypesAre DEF Steady, AllTyped, RowsTyped
    <2>3. Grown /\ NoMail /\ UNCHANGED <<shown, open>> BY <1>4 DEF SendMain, Grown, NoMail
    <2>4. QED BY <2>1, <2>2, <2>3, QuietRead DEF Read
<1>5. QED BY <1>2, <1>3, <1>4

LEMMA SteerRead ==
    ASSUME Typed, Typed', Read, NEW k \in calls, SendSteer(k)
    PROVE Read'
<1> USE ReadTyped, ReadTypedNext DEF Read
<1> DEFINE n == IF Busy(k.to) /\ Current(k.to) = k.sub THEN k.sub ELSE Missed
<1>1. k.to \in Children /\ k \in Calls /\ k.pc = "steer" BY DEF SendSteer
<1>2. /\ row' = Counted(row, k.from) /\ calls' \subseteq calls
      /\ mail' = Mailed(k.from, k.to, n) /\ UNCHANGED <<shown, open>>
    BY WriteShrinks DEF SendSteer
<1>3. Steady BY <1>2, CountedTyped, TypesAre DEF Steady, AllTyped, RowsTyped
<1>4. Grown
    <2>1. CASE UNCHANGED subs BY <2>1 DEF Grown
    <2>2. CASE subs' = Submitted(k.to)
        BY <2>2, <1>1, SubmittedTyped, TypesAre DEF Grown, AllTyped
    <2>3. QED BY <2>1, <2>2 DEF SendSteer
<1>5. n = k.sub \/ n = -1 BY DEF Missed
<1> HIDE DEF n
<1>6. CASE NoMail BY <1>2, <1>3, <1>4, <1>6, QuietRead
<1>7. CASE ~NoMail
    <2>1. /\ k.from \in Agents /\ n = k.sub
          /\ \A w \in Agents, t \in Children :
                mail'[w][t] = IF w = k.from /\ t = k.to THEN k.sub ELSE mail[w][t]
        <3>1. \A w \in Agents, t \in Children :
                mail'[w][t] = IF k.from # User /\ w = k.from /\ t = k.to THEN n ELSE mail[w][t]
            BY <1>2, TypesAre DEF Mailed, AllTyped, MarksTyped, Marks
        <3>2. n = k.sub /\ k.from # User BY <3>1, <1>5, <1>7 DEF NoMail
        <3>3. k.from \in Agents BY <1>1, <3>2 DEF Calls
        <3>4. QED BY <3>1, <3>2, <3>3
    <2>2. k.sub <= row[k.to].sub BY <1>1 DEF Queued
    <2>3. row[k.to].status \notin {"none", "interrupted"}
        <3>1. User \notin Agents BY AgentsAssumption
        <3>2. QED BY <1>1, <2>1, <3>1 DEF Born, Shown
    <2>4. Born' BY <1>1, <1>2, <1>3, <1>4, <2>1, <2>3 DEF Born, Steady, Grown
    <2>5. Queued' BY <1>2, <1>3, <1>4 DEF Queued, Steady, Grown
    <2>6. Shown' BY <1>1, <1>2, <1>3, <2>1, <2>2, <2>3 DEF Shown, Steady
    <2>7. Shut' BY <1>2 DEF Shut
    <2>8. QED BY <2>4, <2>5, <2>6, <2>7
<1>8. QED BY <1>6, <1>7

LEMMA WakeRead ==
    ASSUME Typed, Typed', Read, NEW k \in calls, SendWake(k)
    PROVE Read'
<1> USE ReadTyped, ReadTypedNext DEF Read
<1> DEFINE h == [k EXCEPT !.pc = "enlist", !.sub = Len(subs[k.to]) + 1]
<1>1. k.to \in Children /\ k \in Calls /\ k.pc = "wake" BY DEF SendWake
<1>2. h.pc = "enlist" /\ h.to = k.to /\ h.sub = Len(subs[k.to]) + 1 BY <1>1 DEF Calls
<1>3. calls' = (calls \ {k}) \cup {h} /\ UNCHANGED <<row, mail, shown, open>> BY DEF SendWake
<1> HIDE DEF h
<1>4. /\ Len(subs'[k.to]) = Len(subs[k.to]) + 1
      /\ \A d \in Children : Len(subs'[d]) >= Len(subs[d])
    BY <1>1, SubmittedTyped, TypesAre DEF SendWake, AllTyped
<1>5. row[k.to].status # "none" BY <1>1 DEF Born
<1>6. Born' BY <1>1, <1>2, <1>3, <1>4, <1>5 DEF Born
<1>7. Queued'
    <2>1. \A j \in calls : j.pc = "enlist" /\ j.to = k.to => j.sub < h.sub
        BY <1>1, <1>2 DEF Queued
    <2>2. \A c \in Children : row'[c].sub <= Len(subs'[c]) BY <1>3, <1>4 DEF Queued
    <2>3. ASSUME NEW j \in calls'
          PROVE /\ j.pc = "enlist" => row'[j.to].sub < j.sub /\ j.sub <= Len(subs'[j.to])
                /\ j.pc = "steer" => j.sub <= row'[j.to].sub
        <3>1. CASE j = h BY <1>1, <1>2, <1>3, <1>4, <3>1 DEF Queued
        <3>2. CASE j # h BY <1>3, <1>4, <3>2 DEF Queued
        <3>3. QED BY <3>1, <3>2
    <2>4. \A i, j \in calls' : i.pc = "enlist" /\ j.pc = "enlist" /\ i.to = j.to /\ i.sub = j.sub => i = j
        BY <1>2, <1>3, <2>1 DEF Queued
    <2>5. QED BY <2>2, <2>3, <2>4 DEF Queued
<1>8. Shown' BY <1>1, <1>2, <1>3 DEF Shown
<1>9. Shut' BY <1>3 DEF Shut
<1>10. QED BY <1>6, <1>7, <1>8, <1>9

LEMMA EnlistRead ==
    ASSUME Typed, Typed', Read, NEW k \in calls, SendEnlist(k)
    PROVE Read'
<1> USE ReadTyped, ReadTypedNext DEF Read
<1> DEFINE r == [row EXCEPT ![k.to] = Awake(@, k.sub, k.from)]
<1>1. k.to \in Children /\ k \in Calls /\ k.pc = "enlist" /\ InTurn(k) BY DEF SendEnlist
<1>2. /\ row' = Counted(r, k.from) /\ calls' \subseteq calls \ {k}
      /\ mail' = Mailed(k.from, k.to, k.sub) /\ UNCHANGED <<subs, shown, open>>
    BY WriteShrinks DEF SendEnlist
<1>3. \A c \in Children : /\ c = k.to => row'[c].status = "running" /\ row'[c].sub = k.sub
                          /\ c # k.to => row'[c].status = row[c].status /\ row'[c].sub = row[c].sub
    <2>1. row \in [Children -> Rows] BY TypesAre DEF AllTyped, RowsTyped
    <2>2. Awake(row[k.to], k.sub, k.from) \in Rows
          /\ Awake(row[k.to], k.sub, k.from).status = "running"
          /\ Awake(row[k.to], k.sub, k.from).sub = k.sub
        BY <1>1, <2>1, AwakeTyped
    <2>3. r \in [Children -> Rows] /\ r[k.to] = Awake(row[k.to], k.sub, k.from)
          /\ \A c \in Children \ {k.to} : r[c] = row[c]
        BY <1>1, <2>1, <2>2
    <2> HIDE DEF r
    <2>4. QED BY <1>1, <1>2, <2>2, <2>3, CountedTyped
<1> HIDE DEF r
<1>4. row[k.to].sub < k.sub /\ k.sub <= Len(subs[k.to]) /\ row[k.to].status # "none"
    BY <1>1 DEF Queued, Born
<1>5. \A w \in Agents, t \in Children :
          /\ t = k.to => mail'[w][t] \in {mail[w][t], k.sub}
          /\ t # k.to => mail'[w][t] = mail[w][t]
    BY <1>2, TypesAre DEF Mailed, AllTyped, MarksTyped, Marks
<1>6. Born' BY <1>1, <1>2, <1>3, <1>4, <1>5 DEF Born
<1>7. Queued'
    <2>1. \A j \in calls \ {k} : j.pc = "enlist" /\ j.to = k.to => k.sub < j.sub
        BY <1>1 DEF InTurn, Queued
    <2>2. \A c \in Children : row'[c].sub <= Len(subs'[c]) BY <1>2, <1>3, <1>4 DEF Queued
    <2>3. ASSUME NEW j \in calls'
          PROVE /\ j.pc = "enlist" => row'[j.to].sub < j.sub /\ j.sub <= Len(subs'[j.to])
                /\ j.pc = "steer" => j.sub <= row'[j.to].sub
        <3>1. j \in calls /\ j # k BY <1>2
        <3>2. CASE j.to = k.to BY <1>1, <1>2, <1>3, <1>4, <2>1, <3>1, <3>2 DEF Queued
        <3>3. CASE j.to # k.to BY <1>2, <1>3, <3>1, <3>3 DEF Queued
        <3>4. QED BY <3>2, <3>3
    <2>4. \A i, j \in calls' : i.pc = "enlist" /\ j.pc = "enlist" /\ i.to = j.to /\ i.sub = j.sub => i = j
        BY <1>2 DEF Queued
    <2>5. QED BY <2>2, <2>3, <2>4 DEF Queued
<1>8. Shown' BY <1>1, <1>2, <1>3, <1>4, <1>5 DEF Shown, Ended
<1>9. Shut' BY <1>2 DEF Shut
<1>10. QED BY <1>6, <1>7, <1>8, <1>9

LEMMA WatchRead ==
    ASSUME Typed, Typed', Read, NEW c \in Children, NEW n \in Subs, WatchStep(c, n)
    PROVE Read'
<1> USE ReadTyped, ReadTypedNext DEF Read
<1>1. CASE Decide(c, n) \/ Post(c, n)
    <2>1. Steady /\ Grown /\ NoMail /\ UNCHANGED <<shown, open, calls>>
        BY <1>1 DEF Decide, Post, Steady, Grown, NoMail
    <2>2. QED BY <2>1, QuietRead
<1>2. CASE Mark(c, n)
    <2>1. row' = [row EXCEPT ![c].reported = n] /\ calls' \subseteq calls
        BY <1>2, WriteShrinks DEF Mark
    <2>2. Steady BY <2>1, TypesAre DEF Steady, AllTyped, RowsTyped, Rows
    <2>3. Grown /\ NoMail /\ UNCHANGED <<shown, open>> BY <1>2 DEF Mark, Grown, NoMail
    <2>4. QED BY <2>1, <2>2, <2>3, QuietRead
<1>3. CASE Record(c, n) /\ Superseded(c, n)
    <2>1. Steady /\ Grown /\ NoMail /\ UNCHANGED <<shown, open>> /\ calls' \subseteq calls
        BY <1>3 DEF Record, Steady, Grown, NoMail
    <2>2. QED BY <2>1, QuietRead
<1>4. CASE Record(c, n) /\ ~Superseded(c, n)
    <2> DEFINE r == EndedRow(row[c], n, subs[c][n], watch[c][n] = "joined")
    <2>1. /\ row' = [row EXCEPT ![c] = r] /\ calls' \subseteq calls
          /\ shown' = [shown EXCEPT ![c] = n] /\ UNCHANGED <<subs, mail, open>>
        BY <1>4, WriteShrinks DEF Record
    <2>2. row[c].sub = n /\ n \in Nat /\ n > 0 BY <1>4 DEF Superseded, Subs
    <2>3. row[c] \in Rows BY TypesAre DEF AllTyped, RowsTyped
    <2>4. r.status \in Ended /\ r.sub = n
        <3>1. (watch[c][n] = "joined") \in BOOLEAN OBVIOUS
        <3>2. \A j \in BOOLEAN : /\ EndedRow(row[c], n, subs[c][n], j).status \in Ended
                                 /\ EndedRow(row[c], n, subs[c][n], j).sub = row[c].sub
            BY <2>2, <2>3, EndedTyped
        <3>3. r.status \in Ended /\ r.sub = row[c].sub BY <3>1, <3>2, Zenon
        <3> HIDE DEF r
        <3>4. QED BY <2>2, <3>3
    <2> HIDE DEF r
    <2>5. \A d \in Children : /\ d = c => /\ row'[d].status \in Ended /\ row'[d].sub = n
                                          /\ row[d].sub = n /\ shown'[d] = n
                              /\ d # c => row'[d] = row[d] /\ shown'[d] = shown[d]
        BY <2>1, <2>2, <2>4, TypesAre DEF AllTyped, RowsTyped, EndsTyped
    <2>6. row[c].status # "none" BY <2>2 DEF Born
    <2>7. Born' BY <2>1, <2>5, <2>6 DEF Born, Ended
    <2>8. Queued' BY <2>1, <2>5 DEF Queued
    <2>9. Shown' BY <2>1, <2>5 DEF Shown, Ended
    <2>10. Shut' BY <2>1 DEF Shut
    <2>11. QED BY <2>7, <2>8, <2>9, <2>10
<1>5. QED BY <1>1, <1>2, <1>3, <1>4 DEF WatchStep

LEMMA RunRead ==
    ASSUME Typed, Typed', Read, NEW c \in Children, Settle(c) \/ Stop(c)
    PROVE Read'
<1>1. Steady /\ NoMail /\ UNCHANGED <<shown, open>> /\ calls' \subseteq calls
    BY DEF Settle, Stop, local, Steady, NoMail
<1>2. Grown
    <2>0. SubsTyped /\ \A d \in Children : Len(subs[d]) \in Nat
        BY ReadTyped, TypesAre DEF AllTyped
    <2>1. CASE Settle(c) BY <2>0, <2>1, OutcomeTyped DEF Settle, Outcomes, Grown
    <2>2. CASE Stop(c) BY <2>0, <2>2, AbortedTyped DEF Stop, Grown
    <2>3. QED BY <2>1, <2>2
<1>3. QED BY <1>1, <1>2, QuietRead DEF Read

LEMMA MainRead ==
    ASSUME Typed, Typed', Read, UserTurn \/ MainEnds \/ StopMain \/ Detach \/ Detached
    PROVE Read'
<1>1. NoMail /\ UNCHANGED <<shown, open>>
    BY DEF UserTurn, MainEnds, StopMain, Detach, Detached, NoMail
<1>2. calls' \subseteq calls
    BY WriteShrinks DEF UserTurn, MainEnds, StopMain, Detach, Detached
<1>3. Steady
    <2>1. CASE Detached
        <3>1. row' = [c \in Children |-> IF c \in detaching.fg THEN [row[c] EXCEPT !.fg = FALSE] ELSE row[c]]
            BY <2>1, WriteShrinks DEF Detached
        <3>2. QED BY <3>1, TypesAre DEF Steady, AllTyped, RowsTyped, Rows
    <2>2. QED BY <2>1 DEF UserTurn, MainEnds, StopMain, Detach, Steady
<1>4. Grown
    <2>0. SubsTyped /\ \A d \in Children : Len(subs[d]) \in Nat
        BY ReadTyped, TypesAre DEF AllTyped
    <2>1. CASE StopMain BY <2>0, <2>1, AbortedTyped DEF StopMain, Grown
    <2>2. QED BY <2>0, <2>1 DEF UserTurn, MainEnds, Detach, Detached, Grown
<1>5. QED BY <1>1, <1>2, <1>3, <1>4, QuietRead DEF Read

LEMMA PageRead ==
    ASSUME Typed, Typed', Read, Close \/ Reopen
    PROVE Read'
<1> USE ReadTyped, ReadTypedNext DEF Read
<1>1. CASE Close
    <2>1. /\ calls' = {} /\ UNCHANGED <<row, subs, shown>>
          /\ \A w \in Agents, t \in Children : mail'[w][t] = 0
        BY <1>1 DEF Close, Unread
    <2>2. Born' BY <2>1 DEF Born
    <2>3. Queued' BY <2>1 DEF Queued
    <2>4. Shown' BY <2>1 DEF Shown
    <2>5. Shut' BY <2>1 DEF Shut
    <2>6. QED BY <2>2, <2>3, <2>4, <2>5
<1>2. CASE Reopen
    <2>1. /\ calls = {} /\ UNCHANGED <<calls, mail, shown>> /\ open'
          /\ \A w \in Agents, t \in Children : mail[w][t] <= 0
        BY <1>2 DEF Reopen, Shut
    <2>2. \A c \in Children :
            /\ row'[c].sub = row[c].sub
            /\ \/ row'[c].status = row[c].status
               \/ row[c].status = "running" /\ row'[c].status = "interrupted"
        <3>0. SUFFICES ASSUME NEW c \in Children
                       PROVE /\ row'[c].sub = row[c].sub
                             /\ \/ row'[c].status = row[c].status
                                \/ row[c].status = "running" /\ row'[c].status = "interrupted"
            OBVIOUS
        <3>1. row[c] \in Rows BY TypesAre DEF AllTyped, RowsTyped
        <3>2. row'[c] = IF c \in Running \cap Cut
                        THEN [row[c] EXCEPT !.status = "interrupted"] ELSE row[c]
            BY <1>2 DEF Reopen
        <3>3. CASE c \in Running \cap Cut
            <4>1. row[c].status = "running" BY <3>3 DEF Running
            <4>2. QED BY <3>1, <3>2, <3>3, <4>1 DEF Rows
        <3>4. CASE c \notin Running \cap Cut
            <4>1. row'[c] = row[c] BY <3>2, <3>4
            <4>2. QED BY <4>1
        <3>5. QED BY <3>3, <3>4
    <2>3. \A c \in Children : Len(subs'[c]) = Len(subs[c])
        BY <1>2, AbortedTyped, TypesAre DEF Reopen, AllTyped
    <2>4. Born' BY <2>1, <2>2, <2>3 DEF Born
    <2>5. Queued' BY <2>1, <2>2, <2>3 DEF Queued
    <2>6. Shown' BY <2>1, <2>2 DEF Shown, Ended
    <2>7. Shut' BY <2>1 DEF Shut
    <2>8. QED BY <2>4, <2>5, <2>6, <2>7
<1>3. QED BY <1>1, <1>2

LEMMA JoinRead ==
    ASSUME Typed, Typed', Read
    PROVE /\ \A w \in Agents, ids \in SUBSET Children : JoinStart(w, ids) => Read'
          /\ \A k \in calls : JoinTimeout(k) => Read'
<1>1. ASSUME NEW w \in Agents, NEW ids \in SUBSET Children, JoinStart(w, ids) PROVE Read'
    <2> DEFINE k == [Call EXCEPT !.from = w, !.ids = ids]
    <2>1. k.pc = "joined" BY DEF Call
    <2>2. calls' = calls \cup {k} BY <1>1 DEF JoinStart, Begin
    <2> HIDE DEF k
    <2>3. open /\ UNCHANGED <<row, subs, mail, shown, open>> BY <1>1 DEF JoinStart, Acts
    <2>4. QED BY <2>1, <2>2, <2>3, BeginRead
<1>2. ASSUME NEW k \in calls, JoinTimeout(k) PROVE Read'
    <2>1. Steady /\ Grown /\ NoMail /\ UNCHANGED <<shown, open>> /\ calls' \subseteq calls
        BY <1>2, ReadTyped DEF JoinTimeout, Steady, Grown, NoMail
    <2>2. QED BY <2>1, QuietRead DEF Read
<1>3. QED BY <1>1, <1>2

LEMMA InitRead == Init => Read
<1> SUFFICES ASSUME Init PROVE Read OBVIOUS
<1>1. /\ \A c \in Children : row[c].status = "none" /\ row[c].sub = 0 /\ Len(subs[c]) = 0
      /\ \A w \in Agents, t \in Children : mail[w][t] = 0
      /\ calls = {} /\ open
    BY DEF Init, GraphInit, NoRow, Unread
<1>2. QED BY <1>1 DEF Read, Born, Queued, Shown, Ended, Shut

LEMMA NextRead == Typed /\ Typed' /\ Read /\ [Next]_vars => Read'
<1> SUFFICES ASSUME Typed, Typed', Read, [Next]_vars PROVE Read' OBVIOUS
<1>1. CASE CallStart BY <1>1, SpawnRead, SendRead, JoinRead DEF CallStart
<1>2. CASE \E k \in calls : CallStep(k) \/ JoinTimeout(k)
    BY <1>2, SpawnRead, SteerRead, WakeRead, EnlistRead, JoinRead DEF CallStep
<1>3. CASE \E c \in Children : Settle(c) \/ Stop(c) BY <1>3, RunRead
<1>4. CASE \E c \in Children, n \in Subs : WatchStep(c, n) BY <1>4, WatchRead
<1>5. CASE UserTurn \/ MainEnds \/ StopMain \/ Detach \/ Detached BY <1>5, MainRead
<1>6. CASE Close \/ Reopen BY <1>6, PageRead
<1>7. CASE UNCHANGED vars
    <2>1. Steady /\ Grown /\ NoMail /\ UNCHANGED <<shown, open>> /\ calls' \subseteq calls
        BY <1>7, ReadTyped DEF vars, local, Steady, Grown, NoMail
    <2>2. QED BY <2>1, QuietRead DEF Read
<1>8. QED BY <1>1, <1>2, <1>3, <1>4, <1>5, <1>6, <1>7 DEF Next

-----------------------------------------------------------------------------
(* What is paid for. *)
LEMMA MovesTyped == Typed => moves \in Nat /\ moves <= MaxMoves
BY TypesAre, AgentsAssumption DEF AllTyped, PageTyped

LEMMA ComingCounts ==
    ASSUME IsFiniteSet(calls)
    PROVE \A c : IsFiniteSet(Coming(c)) /\ Cardinality(Coming(c)) \in Nat
BY FS_Subset, FS_CardinalityType DEF Coming

LEMMA FinitelyMore ==
    ASSUME IsFiniteSet(calls), NEW h, calls' \subseteq calls \cup {h}
    PROVE IsFiniteSet(calls')
BY FS_AddElement, FS_Subset

\* A step submits nothing, and no message begins.
LEMMA QuietPaid ==
    ASSUME Typed, Typed', Paid, moves' >= moves, NEW h, calls' \subseteq calls \cup {h},
           h \in calls \/ h.pc \notin {"steer", "wake"},
           \A c \in Children : Len(subs'[c]) = Len(subs[c])
    PROVE Paid'
<1> USE DEF Paid
<1>1. IsFiniteSet(calls') BY FinitelyMore
<1>2. ASSUME NEW c \in Children PROVE Len(subs'[c]) + Cardinality(Coming(c)') <= moves' + 1
    <2>1. Coming(c)' \subseteq Coming(c) BY DEF Coming
    <2>2. Cardinality(Coming(c)') <= Cardinality(Coming(c)) /\ Cardinality(Coming(c)') \in Nat
        BY <2>1, ComingCounts, FS_Subset, FS_CardinalityType
    <2>3. QED BY <2>2, ComingCounts, MovesTyped, ReadTyped, ReadTypedNext, TypesAre
              DEF AllTyped, PageTyped
<1>3. QED BY <1>1, <1>2

\* A message begins, with its move.
LEMMA BeginPaid ==
    ASSUME Typed, Typed', Paid, moves' = moves + 1, NEW h, calls' \subseteq calls \cup {h},
           UNCHANGED subs
    PROVE Paid'
<1> USE DEF Paid
<1>1. IsFiniteSet(calls') BY FinitelyMore
<1>2. ASSUME NEW c \in Children PROVE Len(subs'[c]) + Cardinality(Coming(c)') <= moves' + 1
    <2>1. Coming(c)' \subseteq Coming(c) \cup {h} BY DEF Coming
    <2>2. IsFiniteSet(Coming(c)) /\ Cardinality(Coming(c)) \in Nat BY ComingCounts
    <2>3. /\ IsFiniteSet(Coming(c) \cup {h})
          /\ Cardinality(Coming(c) \cup {h}) <= Cardinality(Coming(c)) + 1
        <3>1. /\ IsFiniteSet(Coming(c) \cup {h})
              /\ Cardinality(Coming(c) \cup {h}) =
                    IF h \in Coming(c) THEN Cardinality(Coming(c)) ELSE Cardinality(Coming(c)) + 1
            BY <2>2, FS_AddElement, Zenon
        <3>2. QED BY <2>2, <3>1
    <2>4. /\ Cardinality(Coming(c)') <= Cardinality(Coming(c) \cup {h})
          /\ Cardinality(Coming(c)') \in Nat /\ Cardinality(Coming(c) \cup {h}) \in Nat
        BY <2>1, <2>3, FS_Subset, FS_CardinalityType
    <2>5. QED BY <2>2, <2>3, <2>4, MovesTyped, ReadTyped
<1>3. QED BY <1>1, <1>2

\* A message under way is submitted, or joins the run that is on.
LEMMA SpendPaid ==
    ASSUME Typed, Typed', Paid, UNCHANGED moves, NEW k \in calls, k.pc \in {"steer", "wake"},
           NEW h, h.pc \notin {"steer", "wake"}, calls' \subseteq (calls \ {k}) \cup {h},
           UNCHANGED subs \/ subs' = Submitted(k.to)
    PROVE Paid'
<1> USE DEF Paid
<1>1. IsFiniteSet(calls') BY FinitelyMore
<1>2. ASSUME NEW c \in Children PROVE Len(subs'[c]) + Cardinality(Coming(c)') <= moves' + 1
    <2>1. IsFiniteSet(Coming(c)) /\ Cardinality(Coming(c)) \in Nat BY ComingCounts
    <2>2. CASE c = k.to
        <3>1. Coming(c)' \subseteq Coming(c) \ {k} /\ k \in Coming(c) BY <2>2 DEF Coming
        <3>2. IsFiniteSet(Coming(c) \ {k}) /\ Cardinality(Coming(c) \ {k}) = Cardinality(Coming(c)) - 1
            BY <2>1, <3>1, FS_RemoveElement
        <3>3. /\ Cardinality(Coming(c)') <= Cardinality(Coming(c) \ {k})
              /\ Cardinality(Coming(c)') \in Nat
            BY <3>1, <3>2, FS_Subset, FS_CardinalityType
        <3>4. Len(subs'[c]) <= Len(subs[c]) + 1
            BY <2>2, SubmittedTyped, TypesAre, ReadTyped DEF AllTyped
        <3>5. QED BY <2>1, <3>2, <3>3, <3>4, MovesTyped, ReadTyped, ReadTypedNext
    <2>3. CASE c # k.to
        <3>1. Coming(c)' \subseteq Coming(c) BY DEF Coming
        <3>2. Cardinality(Coming(c)') <= Cardinality(Coming(c)) /\ Cardinality(Coming(c)') \in Nat
            BY <2>1, <3>1, FS_Subset, FS_CardinalityType
        <3>3. Len(subs'[c]) = Len(subs[c])
            BY <2>3, TypesAre DEF Submitted, AllTyped, SubsTyped
        <3>4. QED BY <2>1, <3>2, <3>3, MovesTyped, ReadTyped
    <2>4. QED BY <2>2, <2>3
<1>3. QED BY <1>1, <1>2

LEMMA FewerPaid ==
    ASSUME Typed, Typed', Paid, moves' >= moves, calls' \subseteq calls,
           \A c \in Children : Len(subs'[c]) = Len(subs[c])
    PROVE Paid'
<1>1. Call.pc \notin {"steer", "wake"} BY DEF Call
<1>2. calls' \subseteq calls \cup {Call} OBVIOUS
<1>3. QED BY <1>1, <1>2, QuietPaid

LEMMA CallPaid ==
    ASSUME Typed, Typed', Paid, NEW k \in calls, CallStep(k) \/ JoinTimeout(k)
    PROVE Paid'
<1>m. moves \in Nat BY MovesTyped
<1>1. CASE SpawnEnroll(k)
    <2> DEFINE h == [k EXCEPT !.pc = "spawned", !.ids = {k.to}]
    <2>1. h.pc = "spawned" BY ReadTyped DEF Calls
    <2>2. calls' \subseteq calls \cup {h} BY <1>1, WriteShrinks DEF SpawnEnroll
    <2> HIDE DEF h
    <2>3. UNCHANGED <<subs, moves>> BY <1>1 DEF SpawnEnroll
    <2>4. QED BY <1>m, <2>1, <2>2, <2>3, QuietPaid
<1>2. CASE SendSteer(k)
    <2>1. Call.pc \notin {"steer", "wake"} BY DEF Call
    <2>2. k.pc = "steer" /\ calls' \subseteq calls \ {k} /\ UNCHANGED moves
        BY <1>2, WriteShrinks DEF SendSteer
    <2>3. UNCHANGED subs \/ subs' = Submitted(k.to) BY <1>2 DEF SendSteer
    <2>4. calls' \subseteq (calls \ {k}) \cup {Call} BY <2>2
    <2>5. QED BY <2>1, <2>2, <2>3, <2>4, SpendPaid
<1>3. CASE SendWake(k)
    <2> DEFINE h == [k EXCEPT !.pc = "enlist", !.sub = Len(subs[k.to]) + 1]
    <2>1. h.pc = "enlist" BY ReadTyped DEF Calls
    <2>2. calls' \subseteq (calls \ {k}) \cup {h} BY <1>3 DEF SendWake
    <2> HIDE DEF h
    <2>3. k.pc = "wake" /\ UNCHANGED moves /\ subs' = Submitted(k.to) BY <1>3 DEF SendWake
    <2>4. QED BY <2>1, <2>2, <2>3, SpendPaid
<1>4. CASE SendEnlist(k)
    <2>1. calls' \subseteq calls /\ UNCHANGED <<subs, moves>>
        BY <1>4, WriteShrinks DEF SendEnlist
    <2>2. QED BY <1>m, <2>1, FewerPaid
<1>5. CASE JoinTimeout(k)
    <2>1. calls' \subseteq calls /\ UNCHANGED subs /\ moves' >= moves
        BY <1>5, <1>m DEF JoinTimeout, Move
    <2>2. QED BY <2>1, FewerPaid
<1>6. QED BY <1>1, <1>2, <1>3, <1>4, <1>5 DEF CallStep

LEMMA CallStartPaid ==
    ASSUME Typed, Typed', Paid, CallStart
    PROVE Paid'
<1>m. moves \in Nat BY MovesTyped
<1>1. ASSUME NEW c \in Children, SpawnStart(c) PROVE Paid'
    <2>1. PICK e : e.pc = "enroll" /\ calls' = calls \cup {e}
        <3>1. PICK g \in BOOLEAN :
                Begin([Call EXCEPT !.pc = "enroll", !.from = Main, !.to = c, !.sub = 1, !.fg = g])
            BY <1>1 DEF SpawnStart
        <3>2. [Call EXCEPT !.pc = "enroll", !.from = Main, !.to = c, !.sub = 1, !.fg = g].pc = "enroll"
            BY DEF Call
        <3>3. QED BY <3>1, <3>2 DEF Begin
    <2>2. /\ subs[c] = <<>> /\ (\A k \in calls : k.to # c)
          /\ subs' = Submitted(c) /\ UNCHANGED moves
        BY <1>1 DEF SpawnStart, Unborn
    <2>3. IsFiniteSet(calls') BY <2>1, FinitelyMore DEF Paid
    <2>4. ASSUME NEW d \in Children PROVE Len(subs'[d]) + Cardinality(Coming(d)') <= moves' + 1
        <3>1. Coming(d)' \subseteq Coming(d) BY <2>1 DEF Coming
        <3>2. /\ IsFiniteSet(Coming(d)) /\ Cardinality(Coming(d)) \in Nat
              /\ Cardinality(Coming(d)') <= Cardinality(Coming(d)) /\ Cardinality(Coming(d)') \in Nat
            BY <3>1, ComingCounts, FS_Subset, FS_CardinalityType DEF Paid
        <3>3. CASE d = c
            <4>1. Coming(d) = {} BY <3>3, <2>2 DEF Coming
            <4>2. Cardinality(Coming(d)) = 0 BY <4>1, FS_EmptySet
            <4>3. Len(subs'[d]) = 1
                <5>1. Len(Submitted(c)[c]) = Len(subs[c]) + 1
                    BY SubmittedTyped, TypesAre DEF AllTyped
                <5>2. Len(subs[c]) = 0 BY <2>2
                <5>3. QED BY <3>3, <2>2, <5>1, <5>2
            <4>4. QED BY <1>m, <2>2, <3>2, <4>2, <4>3, SMT
        <3>4. CASE d # c
            <4>1. Len(subs'[d]) = Len(subs[d])
                BY <3>4, <2>2, TypesAre DEF Submitted, AllTyped, SubsTyped
            <4>2. QED BY <1>m, <2>2, <3>2, <4>1, ReadTyped DEF Paid
        <3>5. QED BY <3>3, <3>4
    <2>5. QED BY <2>3, <2>4 DEF Paid
<1>2. ASSUME NEW w, NEW t, NEW j, SendTo(w, t, j) PROVE Paid'
    <2>1. moves' = moves + 1 /\ UNCHANGED subs BY <1>2 DEF SendTo, Move
    <2>2. PICK h : calls' \subseteq calls \cup {h} BY <1>2 DEF SendTo, Begin
    <2>3. QED BY <2>1, <2>2, BeginPaid
<1>3. ASSUME NEW w, SendMain(w) PROVE Paid'
    <2>1. calls' \subseteq calls /\ UNCHANGED subs /\ moves' >= moves
        BY <1>3, <1>m, WriteShrinks DEF SendMain, Move
    <2>2. QED BY <2>1, FewerPaid
<1>4. ASSUME NEW w, NEW ids, JoinStart(w, ids) PROVE Paid'
    <2>1. moves' = moves + 1 /\ UNCHANGED subs BY <1>4 DEF JoinStart, Move
    <2>2. PICK h : calls' \subseteq calls \cup {h} BY <1>4 DEF JoinStart, Begin
    <2>3. QED BY <2>1, <2>2, BeginPaid
<1>5. QED BY <1>1, <1>2, <1>3, <1>4 DEF CallStart, SendStart, UserWrites

LEMMA NextPaid == Typed /\ Typed' /\ Paid /\ [Next]_vars => Paid'
<1> SUFFICES ASSUME Typed, Typed', Paid, [Next]_vars PROVE Paid' OBVIOUS
<1>m. moves \in Nat BY MovesTyped
<1>s. SubsTyped BY TypesAre DEF AllTyped
<1>1. CASE CallStart BY <1>1, CallStartPaid
<1>2. CASE \E k \in calls : CallStep(k) \/ JoinTimeout(k) BY <1>2, CallPaid
<1>3. ASSUME NEW c \in Children, Settle(c) \/ Stop(c) PROVE Paid'
    <2>1. calls' \subseteq calls /\ moves' >= moves BY <1>3, <1>m DEF Settle, Stop, local, Move
    <2>2. \A d \in Children : Len(subs'[d]) = Len(subs[d])
        <3>1. CASE Settle(c) BY <3>1, <1>s, OutcomeTyped DEF Settle, Outcomes
        <3>2. CASE Stop(c) BY <3>2, <1>s, AbortedTyped DEF Stop
        <3>3. QED BY <1>3, <3>1, <3>2
    <2>3. QED BY <2>1, <2>2, FewerPaid
<1>4. ASSUME NEW c \in Children, NEW n \in Subs, WatchStep(c, n) PROVE Paid'
    <2>1. calls' \subseteq calls
        <3>1. CASE Decide(c, n) \/ Post(c, n) BY <3>1 DEF Decide, Post
        <3>2. CASE Mark(c, n) BY <3>2, WriteShrinks DEF Mark
        <3>3. CASE Record(c, n) BY <3>3, WriteShrinks DEF Record
        <3>4. QED BY <1>4, <3>1, <3>2, <3>3 DEF WatchStep
    <2>2. UNCHANGED <<subs, moves>> BY <1>4 DEF WatchStep, Decide, Record, Post, Mark
    <2>3. QED BY <1>m, <2>1, <2>2, FewerPaid
<1>5. CASE UserTurn \/ MainEnds \/ StopMain \/ Detach \/ Detached
    <2>1. calls' \subseteq calls
        BY <1>5, WriteShrinks DEF UserTurn, MainEnds, StopMain, Detach, Detached
    <2>2. moves' >= moves BY <1>5, <1>m DEF UserTurn, MainEnds, StopMain, Detach, Detached, Move
    <2>3. \A d \in Children : Len(subs'[d]) = Len(subs[d])
        <3>1. CASE StopMain BY <3>1, <1>s, AbortedTyped DEF StopMain
        <3>2. QED BY <1>5, <3>1 DEF UserTurn, MainEnds, Detach, Detached
    <2>4. QED BY <2>1, <2>2, <2>3, FewerPaid
<1>6. CASE Close \/ Reopen
    <2>1. calls' \subseteq calls /\ moves' >= moves BY <1>6, <1>m DEF Close, Reopen, Move
    <2>2. \A d \in Children : Len(subs'[d]) = Len(subs[d])
        <3>1. CASE Reopen BY <3>1, <1>s, AbortedTyped DEF Reopen
        <3>2. QED BY <1>6, <3>1 DEF Close
    <2>3. QED BY <2>1, <2>2, FewerPaid
<1>7. CASE UNCHANGED vars
    <2>1. UNCHANGED <<calls, subs, moves>> BY <1>7 DEF vars, local
    <2>2. QED BY <1>m, <2>1, FewerPaid
<1>8. QED BY <1>1, <1>2, <1>3, <1>4, <1>5, <1>6, <1>7 DEF Next

LEMMA InitPaid == Init => Paid
<1> SUFFICES ASSUME Init PROVE Paid OBVIOUS
<1>1. calls = {} /\ moves = 0 /\ \A c \in Children : Len(subs[c]) = 0
    BY DEF Init, GraphInit
<1>2. \A c : Cardinality(Coming(c)) = 0
    <2>1. \A c : Coming(c) = {} BY <1>1 DEF Coming
    <2>2. QED BY <2>1, FS_EmptySet
<1>3. IsFiniteSet(calls) BY <1>1, FS_EmptySet
<1>4. QED BY <1>1, <1>2, <1>3 DEF Paid

-----------------------------------------------------------------------------
(* What is handed on. *)
LEMMA HandTyped ==
    ASSUME Typed
    PROVE \A c \in Children : /\ row[c] \in Rows /\ row[c].sub \in Nat /\ row[c].reported \in Nat
                              /\ told[c] \in Nat /\ lost[c] \in Nat
BY TypesAre DEF AllTyped, RowsTyped, Rows, EndsTyped

\* A row's submission can be watched, once there is one.
LEMMA SubIsWatched ==
    ASSUME Typed, Queued, Paid, NEW c \in Children, NEW n \in Nat \ {0}, n <= Len(subs[c])
    PROVE n \in Subs
<1>1. Len(subs[c]) <= moves + 1 BY ComingCounts, ReadTyped, MovesTyped DEF Paid
<1>2. n <= MaxMoves + 1 BY <1>1, MovesTyped, ReadTyped, AgentsAssumption
<1>3. QED BY <1>2, AgentsAssumption DEF Subs

LEMMA WatchedAt ==
    ASSUME Typed, NEW c \in Children, NEW n \in Subs
    PROVE \A d \in Children, m \in Subs :
              Watched(c, n)[d][m] = IF d = c /\ m = n /\ watch[d][m] = "none" THEN "wait" ELSE watch[d][m]
BY TypesAre DEF AllTyped, WatchTyped, Watchers, Watched

\* Steps that write no more of a row than its quiet flag, and begin no hold.
Kept ==
    \A c \in Children :
        /\ row'[c].status = row[c].status /\ row'[c].sub = row[c].sub
        /\ row'[c].reported = row[c].reported /\ row'[c].fg = row[c].fg
NoHold == \A k \in calls' : k.pc = "spawned" => k \in calls

LEMMA CountedKeeps ==
    ASSUME Typed, NEW w, row' = Counted(row, w)
    PROVE Kept
BY TypesAre DEF AllTyped, RowsTyped, Rows, Counted, Kept

LEMMA NoHoldWaits ==
    ASSUME NoHold
    PROVE \A c : WaitedOn(c)' => WaitedOn(c)
BY DEF NoHold, WaitedOn, Held

LEMMA QuietHanded ==
    ASSUME Typed, Handed, Kept, NoHold, UNCHANGED <<watch, told, lost, open>>,
           open \/ UNCHANGED detaching,
           \A c \in Children : c \in detaching'.fg => c \in detaching.fg \/ WaitedOn(c)
    PROVE Handed'
<1>1. \A c \in Children : WaitedOn(c)' => WaitedOn(c) BY NoHoldWaits
<1>2. ASSUME NEW c \in Children PROVE HandedOn(c)'
    BY <1>1 DEF Kept, Handed, HandedOn
<1>3. ~open' => ~detaching'.on /\ detaching'.fg = {} BY DEF Handed
<1>4. QED BY <1>2, <1>3 DEF Handed

LEMMA EnrollHanded ==
    ASSUME Typed, Typed', Read, Handed, NEW k \in calls, SpawnEnroll(k)
    PROVE Handed'
<1> DEFINE h == [k EXCEPT !.pc = "spawned", !.ids = {k.to}]
           r == [NoRow EXCEPT !.status = "running", !.sub = 1, !.fg = k.fg]
<1>1. k.to \in Children /\ k.pc = "enroll" /\ row[k.to].status = "none" /\ row[k.to].sub = 0
    BY ReadTyped DEF SpawnEnroll, Read, Born
<1>2. h.to = k.to /\ calls' \subseteq (calls \ {k}) \cup {h}
    BY ReadTyped, WriteShrinks DEF SpawnEnroll, Calls
<1> HIDE DEF h
<1>3. row' = [row EXCEPT ![k.to] = r] /\ r.status = "running" /\ r.sub = 1 /\ r.reported = 0
    BY WriteShrinks DEF SpawnEnroll, NoRow
<1> HIDE DEF r
<1>4. \A c \in Children : row'[c] = IF c = k.to THEN r ELSE row[c]
    BY <1>1, <1>3, TypesAre DEF AllTyped, RowsTyped
<1>5. watch' = Watched(k.to, 1) /\ UNCHANGED <<told, lost, open, detaching>> BY DEF SpawnEnroll
<1>6. \A d \in Children, m \in Subs :
          watch'[d][m] = IF d = k.to /\ m = 1 /\ watch[d][m] = "none" THEN "wait" ELSE watch[d][m]
    BY <1>1, <1>5, WatchedAt, Names
<1>7. \A c \in Children : c # k.to => (WaitedOn(c)' => WaitedOn(c))
    BY <1>1, <1>2 DEF WaitedOn, Held
<1>8. ASSUME NEW c \in Children, c # k.to PROVE HandedOn(c)'
    <2>1. UNCHANGED <<row[c], told[c], lost[c], open, detaching>> BY <1>4, <1>5, <1>8
    <2>2. watch'[c] = watch[c]
        BY <1>6, <1>8, TypesAre DEF AllTyped, WatchTyped, Watchers
    <2>3. QED BY <2>1, <2>2, <1>7, <1>8 DEF HandedOn, Handed
<1>9. HandedOn(k.to)'
    <2>1. told[k.to] = 0 /\ lost[k.to] = 0 BY <1>1, HandTyped DEF Handed, HandedOn
    <2>2. \A m \in Subs : watch[k.to][m] = "none"
        BY <1>1 DEF Handed, HandedOn, Subs
    <2>3. watch'[k.to][1] = "wait" /\ \A m \in Subs : watch'[k.to][m] # "none" => m = 1
        BY <1>1, <1>6, <2>2, Names
    <2>4. row'[k.to] = r BY <1>1, <1>4
    <2>5. \A m \in Subs : watch'[k.to][m] # "mark" BY <2>3
    <2>6. QED BY <1>1, <1>3, <1>5, <2>1, <2>3, <2>4, <2>5 DEF HandedOn, Ended
<1>10. QED BY <1>1, <1>5, <1>8, <1>9 DEF Handed

LEMMA EnlistHanded ==
    ASSUME Typed, Typed', Read, Paid, Handed, NEW k \in calls, SendEnlist(k)
    PROVE Handed'
<1> DEFINE r == [row EXCEPT ![k.to] = Awake(@, k.sub, k.from)]
<1>1. k.to \in Children /\ k.sub \in Nat /\ row[k.to].sub < k.sub /\ k.sub <= Len(subs[k.to])
    BY ReadTyped DEF SendEnlist, Read, Queued
<1>2. k.sub \in Subs BY <1>1, HandTyped, SubIsWatched DEF Read
<1>3. /\ row' = Counted(r, k.from) /\ calls' \subseteq calls
      /\ watch' = Watched(k.to, k.sub) /\ UNCHANGED <<told, lost, open, detaching>>
    BY WriteShrinks DEF SendEnlist
<1>4. \A c \in Children :
        /\ row'[c].reported = row[c].reported /\ row'[c].fg = row[c].fg
        /\ c = k.to => row'[c].status = "running" /\ row'[c].sub = k.sub
        /\ c # k.to => row'[c].status = row[c].status /\ row'[c].sub = row[c].sub
    <2>1. \A c \in Children :
            /\ r[c].reported = row[c].reported /\ r[c].fg = row[c].fg
            /\ c = k.to => r[c].status = "running" /\ r[c].sub = k.sub
            /\ c # k.to => r[c] = row[c]
        BY <1>1, TypesAre DEF AllTyped, RowsTyped, Rows, Awake
    <2>2. r \in [Children -> Rows]
        BY <1>1, AwakeTyped, TypesAre DEF AllTyped, RowsTyped
    <2> HIDE DEF r
    <2>3. QED BY <1>3, <2>1, <2>2 DEF Counted, Rows
<1> HIDE DEF r
<1>5. \A d \in Children, m \in Subs :
          watch'[d][m] = IF d = k.to /\ m = k.sub /\ watch[d][m] = "none" THEN "wait" ELSE watch[d][m]
    BY <1>1, <1>2, <1>3, WatchedAt
<1>6. \A c : WaitedOn(c)' => WaitedOn(c) BY <1>3, NoHoldWaits DEF NoHold
<1>7. ASSUME NEW c \in Children, c # k.to PROVE HandedOn(c)'
    <2>1. watch'[c] = watch[c]
        BY <1>5, <1>7, TypesAre, <1>3 DEF AllTyped, WatchTyped, Watchers
    <2>2. QED BY <2>1, <1>3, <1>4, <1>6, <1>7 DEF HandedOn, Handed
<1>8. HandedOn(k.to)'
    <2>1. \A m \in Subs : watch'[k.to][m] # "none" => m <= k.sub
        BY <1>1, <1>2, <1>5, HandTyped DEF Handed, HandedOn, Subs
    <2>2. \A m \in Subs : watch'[k.to][m] = "mark" => m <= told[k.to]
        BY <1>1, <1>5 DEF Handed, HandedOn
    <2>3. watch'[k.to][k.sub] # "none" BY <1>1, <1>2, <1>5
    <2>4. told[k.to] <= k.sub /\ lost[k.to] <= k.sub
        BY <1>1, HandTyped DEF Handed, HandedOn
    <2>5. QED BY <1>1, <1>3, <1>4, <2>1, <2>2, <2>3, <2>4 DEF HandedOn, Handed, Ended
<1>9. QED BY <1>3, <1>7, <1>8 DEF Handed

\* A step of one watcher leaves the other subagents' rows and ends alone.
LEMMA OthersHanded ==
    ASSUME Typed, Handed, NoHold, UNCHANGED <<open, detaching>>, NEW c \in Children, HandedOn(c)',
           \A d \in Children \ {c} :
              UNCHANGED <<row[d], told[d], lost[d], watch[d]>>
    PROVE Handed'
<1>1. ASSUME NEW d \in Children \ {c} PROVE HandedOn(d)'
    BY NoHoldWaits DEF HandedOn, Handed
<1>2. QED BY <1>1 DEF Handed

LEMMA RecordHanded ==
    ASSUME Typed, Typed', Read, Handed, NEW c \in Children, NEW n \in Subs, Record(c, n)
    PROVE Handed'
<1>n. n \in Nat BY DEF Subs
<1>1. CASE Superseded(c, n)
    <2>1. /\ watch' = [watch EXCEPT ![c][n] = "none"] /\ calls' \subseteq calls
          /\ UNCHANGED <<row, told, lost, open, detaching>> /\ row[c].sub # n
        BY <1>1 DEF Record, Superseded
    <2>2. \A d \in Children, m \in Subs :
              watch'[d][m] = IF d = c /\ m = n THEN "none" ELSE watch[d][m]
        BY <2>1, TypesAre DEF AllTyped, WatchTyped, Watchers
    <2>3. NoHold BY <2>1 DEF NoHold
    <2>4. \A d \in Children \ {c} : watch'[d] = watch[d] BY <2>1
    <2>5. watch'[c][row[c].sub] = watch[c][row[c].sub]
        BY <2>1, TypesAre DEF AllTyped, WatchTyped, Watchers
    <2>6. HandedOn(c)' BY <2>1, <2>2, <2>3, <2>5, NoHoldWaits DEF HandedOn, Handed
    <2>7. QED BY <2>1, <2>2, <2>3, <2>4, <2>6, OthersHanded
<1>2. CASE ~Superseded(c, n)
    <2> DEFINE j == watch[c][n] = "joined"
               r == EndedRow(row[c], n, subs[c][n], j)
    <2>1. /\ row' = [row EXCEPT ![c] = r] /\ calls' \subseteq calls
          /\ UNCHANGED <<open, detaching>> /\ row[c].sub = n
        BY <1>2, WriteShrinks DEF Record, Superseded
    <2>2. /\ \/ told' = [told EXCEPT ![c] = Later(@, n)] /\ UNCHANGED lost
             \/ ~j /\ lost' = [lost EXCEPT ![c] = IF r.fg THEN n ELSE @] /\ UNCHANGED told
          /\ watch' = [watch EXCEPT ![c][n] = Report(r, n, watch[c][n] = "hushed")]
        BY <1>2 DEF Record
    <2>3. /\ r.status \in Ended /\ r.sub = n /\ r.fg = row[c].fg
          /\ r.reported = IF j THEN n ELSE row[c].reported
        <3>1. row[c] \in Rows /\ j \in BOOLEAN BY HandTyped
        <3>2. r.status \in Ended /\ r.sub = row[c].sub
            BY <1>n, <3>1, EndedTyped, Zenon
        <3>3. r.fg = row[c].fg /\ r.reported = IF j THEN n ELSE row[c].reported
            BY <3>1 DEF EndedRow, Rows
        <3> HIDE DEF r, j
        <3>4. QED BY <2>1, <3>2, <3>3
    <2>4. Report(r, n, watch[c][n] = "hushed") \in {"none", "quiet", "report"}
          /\ (Report(r, n, watch[c][n] = "hushed") = "none" => r.fg \/ r.reported = n)
        BY DEF Report
    <2> HIDE DEF r, j
    <2>5. PICK s \in {"none", "quiet", "report"} :
            watch' = [watch EXCEPT ![c][n] = s] /\ (s = "none" => r.fg \/ r.reported = n)
        BY <2>2, <2>4, Zenon
    <2>6. \A d \in Children, m \in Subs :
              watch'[d][m] = IF d = c /\ m = n THEN s ELSE watch[d][m]
        BY <2>5, TypesAre DEF AllTyped, WatchTyped, Watchers
    <2>7. NoHold BY <2>1 DEF NoHold
    <2>8. \A d \in Children \ {c} : UNCHANGED <<row[d], told[d], lost[d]>> /\ watch'[d] = watch[d]
        <3>1. \A d \in Children \ {c} : UNCHANGED row[d] /\ watch'[d] = watch[d]
            BY <2>1, <2>5, TypesAre DEF AllTyped, RowsTyped, WatchTyped, Watchers
        <3>2. \A d \in Children \ {c} : UNCHANGED <<told[d], lost[d]>>
            BY <2>2, TypesAre DEF AllTyped, EndsTyped
        <3>3. QED BY <3>1, <3>2
    <2>9. row'[c] = r BY <2>1, TypesAre DEF AllTyped, RowsTyped
    <2>10. told[c] <= n /\ lost[c] <= n /\ told[c] \in Nat /\ lost[c] \in Nat
           /\ row[c].reported <= told[c] /\ row[c].reported \in Nat
        BY <2>1, HandTyped DEF Handed, HandedOn
    <2>11. \/ told'[c] = n /\ lost'[c] = lost[c]
           \/ ~j /\ told'[c] = told[c] /\ lost'[c] = IF r.fg THEN n ELSE lost[c]
        <3>1. Later(told[c], n) = n BY <1>n, <2>10 DEF Later
        <3>2. QED BY <2>2, <3>1, TypesAre DEF AllTyped, EndsTyped
    <2>12. HandedOn(c)'
        <3>1. r.reported <= told'[c] /\ told'[c] <= n /\ lost'[c] <= n
            BY <1>n, <2>3, <2>10, <2>11
        <3>2. \A m \in Subs : watch'[c][m] # "none" => m <= n
            BY <1>n, <2>1, <2>6 DEF Handed, HandedOn
        <3>3. \A m \in Subs : watch'[c][m] = "mark" => m <= told'[c]
            <4>1. told[c] <= told'[c] BY <1>n, <2>10, <2>11
            <4>2. \A m \in Subs : watch'[c][m] = "mark" => m <= told[c]
                BY <2>6 DEF Handed, HandedOn
            <4>3. QED BY <4>1, <4>2, <2>10, <2>11, <1>n DEF Subs
        <3>4. r.fg => n \in {told'[c], lost'[c]} BY <2>11
        <3>5. n \notin {told'[c], lost'[c]} => watch'[c][n] # "none"
            <4>1. ASSUME n \notin {told'[c], lost'[c]}, s = "none" PROVE FALSE
                <5>1. ~j /\ told'[c] = told[c] BY <4>1, <2>11
                <5>2. row[c].reported = n BY <4>1, <2>3, <2>5, <3>4, <5>1
                <5>3. QED BY <1>n, <4>1, <5>1, <5>2, <2>10
            <4>2. QED BY <4>1, <2>6
        <3>6. QED BY <2>3, <2>9, <3>1, <3>2, <3>3, <3>4, <3>5 DEF HandedOn, Ended
    <2>13. QED BY <2>1, <2>6, <2>7, <2>8, <2>12, OthersHanded
<1>3. QED BY <1>1, <1>2

LEMMA WatchHanded ==
    ASSUME Typed, Typed', Read, Handed, NEW c \in Children, NEW n \in Subs, WatchStep(c, n)
    PROVE Handed'
<1>n. n \in Nat BY DEF Subs
<1>1. CASE Decide(c, n)
    <2>1. UNCHANGED <<calls, row, told, lost, open, detaching>> BY <1>1 DEF Decide
    <2> DEFINE s == CASE LeftToJoin(c, n) -> "joined" [] watch[c][n] = "again" -> "hushed"
                       [] OTHER -> "plain"
    <2>2. s \in {"joined", "hushed", "plain"} OBVIOUS
    <2>3. watch' = [watch EXCEPT ![c][n] = s]
        BY <1>1, TypesAre DEF Decide, AllTyped, WatchTyped, Watchers
    <2> HIDE DEF s
    <2>4. \A d \in Children, m \in Subs :
              watch'[d][m] = IF d = c /\ m = n THEN s ELSE watch[d][m]
        BY <2>3, TypesAre DEF AllTyped, WatchTyped, Watchers
    <2>5. watch[c][n] # "none" BY <1>1 DEF Decide
    <2>6. NoHold BY <2>1 DEF NoHold
    <2>7. \A d \in Children \ {c} : watch'[d] = watch[d]
        BY <2>3, TypesAre DEF AllTyped, WatchTyped, Watchers
    <2>8. watch'[c][row[c].sub] = "none" => watch[c][row[c].sub] = "none"
        BY <2>2, <2>3, TypesAre DEF AllTyped, WatchTyped, Watchers
    <2>9. HandedOn(c)' BY <2>1, <2>2, <2>4, <2>5, <2>6, <2>8, NoHoldWaits DEF HandedOn, Handed
    <2>10. QED BY <2>1, <2>4, <2>6, <2>7, <2>9, OthersHanded
<1>2. CASE Record(c, n) BY <1>2, RecordHanded
<1>3. CASE Post(c, n)
    <2>1. /\ UNCHANGED <<calls, row, lost, open, detaching>>
          /\ told' = [told EXCEPT ![c] = Later(@, n)]
          /\ watch' = [watch EXCEPT ![c][n] = "mark"] /\ watch[c][n] # "none"
        BY <1>3 DEF Post
    <2>2. \A d \in Children, m \in Subs :
              watch'[d][m] = IF d = c /\ m = n THEN "mark" ELSE watch[d][m]
        BY <2>1, TypesAre DEF AllTyped, WatchTyped, Watchers
    <2>3. NoHold BY <2>1 DEF NoHold
    <2>4. \A d \in Children \ {c} : UNCHANGED told[d] /\ watch'[d] = watch[d]
        BY <2>1, TypesAre DEF AllTyped, WatchTyped, Watchers, EndsTyped
    <2>5. told'[c] = Later(told[c], n) BY <2>1, TypesAre DEF AllTyped, EndsTyped
    <2>6. n <= row[c].sub /\ told[c] <= row[c].sub /\ told[c] \in Nat /\ row[c].sub \in Nat
        BY <2>1, HandTyped DEF Handed, HandedOn
    <2>7. /\ told[c] <= told'[c] /\ n <= told'[c] /\ told'[c] <= row[c].sub /\ told'[c] \in Nat
          /\ (told[c] = row[c].sub => told'[c] = row[c].sub)
        BY <1>n, <2>5, <2>6 DEF Later
    <2>8. watch'[c][row[c].sub] = "none" => watch[c][row[c].sub] = "none"
        BY <2>1, TypesAre DEF AllTyped, WatchTyped, Watchers
    <2>9. HandedOn(c)'
        <3>1. \A m \in Subs : watch'[c][m] = "mark" => m <= told'[c]
            <4>1. \A m \in Subs : watch'[c][m] = "mark" => m = n \/ m <= told[c]
                BY <2>2 DEF Handed, HandedOn
            <4>2. QED BY <4>1, <2>6, <2>7 DEF Subs
        <3>2. row[c].reported <= told'[c] BY <2>6, <2>7, HandTyped DEF Handed, HandedOn
        <3>3. \A m \in Subs : watch'[c][m] # "none" => m <= row[c].sub
            BY <2>2, <2>6 DEF Handed, HandedOn
        <3>4. QED BY <2>1, <2>3, <2>7, <2>8, <3>1, <3>2, <3>3, NoHoldWaits DEF HandedOn, Handed
    <2>10. QED BY <2>1, <2>2, <2>3, <2>4, <2>9, OthersHanded
<1>4. CASE Mark(c, n)
    <2>1. /\ row' = [row EXCEPT ![c].reported = n] /\ calls' \subseteq calls
          /\ UNCHANGED <<told, lost, open, detaching>>
          /\ watch' = [watch EXCEPT ![c][n] = "none"] /\ watch[c][n] = "mark"
        BY <1>4, WriteShrinks DEF Mark
    <2>2. \A d \in Children, m \in Subs :
              watch'[d][m] = IF d = c /\ m = n THEN "none" ELSE watch[d][m]
        BY <2>1, TypesAre DEF AllTyped, WatchTyped, Watchers
    <2>3. NoHold BY <2>1 DEF NoHold
    <2>4. \A d \in Children \ {c} : UNCHANGED row[d] /\ watch'[d] = watch[d]
        BY <2>1, TypesAre DEF AllTyped, WatchTyped, Watchers, RowsTyped
    <2>5. /\ row'[c].status = row[c].status /\ row'[c].sub = row[c].sub
          /\ row'[c].reported = n /\ row'[c].fg = row[c].fg
        BY <2>1, TypesAre DEF AllTyped, RowsTyped, Rows
    <2>6. n <= told[c] /\ told[c] <= row[c].sub /\ told[c] \in Nat /\ row[c].sub \in Nat
        BY <2>1, HandTyped DEF Handed, HandedOn
    <2>7. watch'[c][row[c].sub] = "none" => watch[c][row[c].sub] = "none" \/ row[c].sub = n
        BY <2>1, TypesAre DEF AllTyped, WatchTyped, Watchers
    <2>8. row[c].sub = n => row[c].sub = told[c] BY <1>n, <2>6
    <2>9. HandedOn(c)'
        BY <2>1, <2>2, <2>3, <2>5, <2>6, <2>7, <2>8, NoHoldWaits DEF HandedOn, Handed
    <2>10. QED BY <2>1, <2>2, <2>3, <2>4, <2>9, OthersHanded
<1>5. QED BY <1>1, <1>2, <1>3, <1>4 DEF WatchStep

\* detach lets a row go whose end was not recorded, or was and had been told.
LEMMA DetachedHanded ==
    ASSUME Typed, Typed', Handed, Detached
    PROVE Handed'
<1>1. /\ row' = [c \in Children |-> IF c \in detaching.fg THEN [row[c] EXCEPT !.fg = FALSE] ELSE row[c]]
      /\ calls' \subseteq calls /\ detaching' = Still /\ open
      /\ UNCHANGED <<watch, told, lost, open>>
    BY WriteShrinks DEF Detached, Handed
<1>2. detaching'.fg = {} BY <1>1 DEF Still
<1>3. \A c \in Children : WaitedOn(c)' => WaitedOn(c) BY <1>1, NoHoldWaits DEF NoHold
<1>4. \A c \in Children :
        /\ row'[c].status = row[c].status /\ row'[c].sub = row[c].sub
        /\ row'[c].reported = row[c].reported
        /\ row'[c].fg = (row[c].fg /\ c \notin detaching.fg)
    BY <1>1, HandTyped DEF Rows
<1>5. ASSUME NEW c \in Children PROVE HandedOn(c)'
    BY <1>1, <1>2, <1>3, <1>4 DEF Handed, HandedOn
<1>6. QED BY <1>1, <1>5 DEF Handed

LEMMA CloseHanded ==
    ASSUME Typed, Typed', Handed, Close
    PROVE Handed'
<1>1. /\ calls' = {} /\ watch' = NoWatch /\ detaching' = Still /\ ~open'
      /\ UNCHANGED <<row, told, lost>>
    BY DEF Close
<1>2. \A c : ~WaitedOn(c)' BY <1>1 DEF WaitedOn, Held
<1>3. \A c \in Children, n \in Subs : watch'[c][n] = "none" BY <1>1 DEF NoWatch
<1>4. detaching'.fg = {} /\ ~detaching'.on BY <1>1 DEF Still
<1>5. ASSUME NEW c \in Children PROVE HandedOn(c)'
    BY <1>1, <1>2, <1>3, <1>4 DEF Handed, HandedOn
<1>6. QED BY <1>4, <1>5 DEF Handed

\* resume watches every end that was not reported, but the foreground runs it cuts.
LEMMA ReopenHanded ==
    ASSUME Typed, Typed', Read, Paid, Handed, Reopen
    PROVE Handed'
<1>1. /\ calls = {} /\ calls' = {} /\ detaching.fg = {} /\ ~detaching.on /\ open'
      /\ UNCHANGED <<told, lost, detaching>>
    BY DEF Reopen, Read, Shut, Handed
<1>2. \A c : ~WaitedOn(c)' BY <1>1 DEF WaitedOn, Held
<1>3. ASSUME NEW c \in Children PROVE HandedOn(c)'
    <2>1. /\ row'[c].sub = row[c].sub /\ row'[c].reported = row[c].reported
          /\ row'[c].fg = row[c].fg
          /\ row'[c].status = IF c \in Running \cap Cut THEN "interrupted" ELSE row[c].status
        BY HandTyped DEF Reopen, Rows
    <2>2. \A n \in Subs : watch'[c][n] = IF n = row[c].sub THEN Resumed(c) ELSE "none"
        BY DEF Reopen
    <2>3. Resumed(c) \in {"none", "quiet", "again"} BY DEF Resumed
    <2>4. HandedOn(c) BY DEF Handed
    <2>5. row[c].status \in Statuses BY HandTyped DEF Rows
    <2>6. ASSUME row'[c].status # "none", row[c].sub \notin {told[c], lost[c]},
                 watch'[c][row[c].sub] = "none"
          PROVE row[c].fg /\ row'[c].status = "interrupted"
        <3>1. row[c].sub \in Subs
            <4>1. row[c].sub \in Nat \ {0} BY <2>4, <2>6, HandTyped DEF HandedOn
            <4>2. row[c].sub <= Len(subs[c]) BY DEF Read, Queued
            <4>3. QED BY <4>1, <4>2, SubIsWatched DEF Read
        <3>2. Resumed(c) = "none" BY <2>2, <2>6, <3>1
        <3>3. CASE c \in Running \cap Cut BY <3>2, <3>3, <2>1 DEF Resumed
        <3>4. CASE c \notin Running \cap Cut
            <4>1. c \notin Running /\ ~(c \in Known /\ ~row[c].fg /\ row[c].reported # row[c].sub)
                BY <3>2, <3>4 DEF Resumed
            <4>2. row[c].status \in Ended \cup {"interrupted"} /\ c \in Known
                BY <2>1, <2>5, <2>6, <3>4, <4>1 DEF Running, Known, Statuses, Ended
            <4>3. row[c].reported # row[c].sub
                BY <2>4, <2>6, HandTyped DEF HandedOn
            <4>4. row[c].fg BY <4>1, <4>2, <4>3
            <4>5. row[c].status \notin Ended BY <2>4, <2>6, <4>4 DEF HandedOn
            <4>6. QED BY <2>1, <3>4, <4>2, <4>4, <4>5
        <3>5. QED BY <3>3, <3>4
    <2>7. \A n \in Subs : /\ watch'[c][n] # "none" => n = row[c].sub
                          /\ watch'[c][n] # "mark"
        BY <2>2, <2>3
    <2>8. row'[c].status \in Ended => row[c].status \in Ended BY <2>1 DEF Ended
    <2>9. \A n \in Subs : watch'[c][n] # "none" => n <= row[c].sub BY <2>7, HandTyped
    <2>10. QED BY <1>1, <1>2, <2>1, <2>4, <2>6, <2>7, <2>8, <2>9 DEF HandedOn
<1>4. QED BY <1>1, <1>3 DEF Handed

LEMMA CallStartHanded ==
    ASSUME Typed, Handed, CallStart
    PROVE Handed'
<1>1. UNCHANGED <<watch, told, lost, open, detaching>>
    BY DEF CallStart, SpawnStart, UserWrites, SendStart, SendTo, SendMain, JoinStart
<1>2. Kept
    <2>1. CASE \E w \in Children : SendMain(w) BY <2>1, CountedKeeps DEF SendMain, Write
    <2>2. CASE UNCHANGED row BY <2>2 DEF Kept
    <2>3. QED BY <2>1, <2>2 DEF CallStart, SpawnStart, UserWrites, SendStart, SendTo, JoinStart
<1>3. NoHold
    <2>1. ASSUME NEW c, SpawnStart(c) PROVE NoHold
        <3>1. PICK g \in BOOLEAN :
                Begin([Call EXCEPT !.pc = "enroll", !.from = Main, !.to = c, !.sub = 1, !.fg = g])
            BY <2>1 DEF SpawnStart
        <3>2. [Call EXCEPT !.pc = "enroll", !.from = Main, !.to = c, !.sub = 1, !.fg = g].pc = "enroll"
            BY DEF Call
        <3>3. QED BY <3>1, <3>2 DEF Begin, NoHold
    <2>2. ASSUME NEW w, NEW t, NEW j, SendTo(w, t, j) PROVE NoHold
        <3>1. ASSUME NEW pc \in {"steer", "wake"},
                     Begin([Call EXCEPT !.pc = pc, !.from = w, !.to = t, !.sub = row[t].sub])
              PROVE NoHold
            <4>1. [Call EXCEPT !.pc = pc, !.from = w, !.to = t, !.sub = row[t].sub].pc = pc
                BY DEF Call
            <4>2. QED BY <3>1, <4>1 DEF Begin, NoHold
        <3>2. CASE UNCHANGED calls BY <3>2 DEF NoHold
        <3>3. QED BY <2>2, <3>1, <3>2 DEF SendTo
    <2>3. ASSUME NEW w, SendMain(w) PROVE NoHold BY <2>3, WriteShrinks DEF SendMain, NoHold
    <2>4. ASSUME NEW w, NEW ids, JoinStart(w, ids) PROVE NoHold
        <3>1. Begin([Call EXCEPT !.from = w, !.ids = ids]) BY <2>4 DEF JoinStart
        <3>2. [Call EXCEPT !.from = w, !.ids = ids].pc = "joined" BY DEF Call
        <3>3. QED BY <3>1, <3>2 DEF Begin, NoHold
    <2>5. QED BY <2>1, <2>2, <2>3, <2>4 DEF CallStart, SendStart, UserWrites
<1>4. QED BY <1>1, <1>2, <1>3, QuietHanded

LEMMA CallHanded ==
    ASSUME Typed, Typed', Read, Paid, Handed, NEW k \in calls, CallStep(k) \/ JoinTimeout(k)
    PROVE Handed'
<1>1. CASE SpawnEnroll(k) BY <1>1, EnrollHanded
<1>2. CASE SendEnlist(k) BY <1>2, EnlistHanded
<1>3. CASE SendSteer(k)
    <2>1. row' = Counted(row, k.from) /\ calls' \subseteq calls
          /\ UNCHANGED <<watch, told, lost, open, detaching>>
        BY <1>3, WriteShrinks DEF SendSteer
    <2>2. Kept /\ NoHold BY <2>1, CountedKeeps DEF NoHold
    <2>3. QED BY <2>1, <2>2, QuietHanded
<1>4. CASE SendWake(k)
    <2>1. [k EXCEPT !.pc = "enlist", !.sub = Len(subs[k.to]) + 1].pc = "enlist"
        BY ReadTyped DEF Calls
    <2>2. NoHold BY <1>4, <2>1 DEF SendWake, NoHold
    <2>3. Kept /\ UNCHANGED <<watch, told, lost, open, detaching>> BY <1>4 DEF SendWake, Kept
    <2>4. QED BY <2>2, <2>3, QuietHanded
<1>5. CASE JoinTimeout(k)
    <2>1. Kept /\ NoHold /\ UNCHANGED <<watch, told, lost, open, detaching>>
        BY <1>5 DEF JoinTimeout, Kept, NoHold
    <2>2. QED BY <2>1, QuietHanded
<1>6. QED BY <1>1, <1>2, <1>3, <1>4, <1>5 DEF CallStep

LEMMA MainHanded ==
    ASSUME Typed, Typed', Handed, UserTurn \/ MainEnds \/ StopMain \/ Detach \/ Detached
    PROVE Handed'
<1>1. CASE Detached BY <1>1, DetachedHanded
<1>2. CASE Detach
    <2>1. Kept /\ NoHold /\ UNCHANGED <<watch, told, lost, open>> /\ open
          /\ detaching'.fg = {c \in Children : WaitedOn(c)}
        BY <1>2 DEF Detach, Kept, NoHold
    <2>2. QED BY <2>1, QuietHanded
<1>3. CASE UserTurn \/ MainEnds \/ StopMain
    <2>1. Kept /\ NoHold /\ UNCHANGED <<watch, told, lost, open, detaching>>
        BY <1>3 DEF UserTurn, MainEnds, StopMain, Kept, NoHold
    <2>2. QED BY <2>1, QuietHanded
<1>4. QED BY <1>1, <1>2, <1>3

LEMMA NextHanded == Typed /\ Typed' /\ Read /\ Paid /\ Handed /\ [Next]_vars => Handed'
<1> SUFFICES ASSUME Typed, Typed', Read, Paid, Handed, [Next]_vars PROVE Handed' OBVIOUS
<1>1. CASE CallStart BY <1>1, CallStartHanded
<1>2. CASE \E k \in calls : CallStep(k) \/ JoinTimeout(k) BY <1>2, CallHanded
<1>3. ASSUME NEW c \in Children, Settle(c) \/ Stop(c) PROVE Handed'
    <2>1. Kept /\ NoHold /\ UNCHANGED <<watch, told, lost, open, detaching>>
        BY <1>3 DEF Settle, Stop, local, Kept, NoHold
    <2>2. QED BY <2>1, QuietHanded
<1>4. CASE \E c \in Children, n \in Subs : WatchStep(c, n) BY <1>4, WatchHanded
<1>5. CASE UserTurn \/ MainEnds \/ StopMain \/ Detach \/ Detached BY <1>5, MainHanded
<1>6. CASE Close \/ Reopen BY <1>6, CloseHanded, ReopenHanded
<1>7. CASE UNCHANGED vars
    <2>1. Kept /\ NoHold /\ UNCHANGED <<watch, told, lost, open, detaching>>
        BY <1>7 DEF vars, local, Kept, NoHold
    <2>2. QED BY <2>1, QuietHanded
<1>8. QED BY <1>1, <1>2, <1>3, <1>4, <1>5, <1>6, <1>7 DEF Next

LEMMA InitHanded == Init => Handed
<1> SUFFICES ASSUME Init PROVE Handed OBVIOUS
<1>1. \A c \in Children :
        /\ row[c].status = "none" /\ row[c].sub = 0 /\ row[c].reported = 0
        /\ told[c] = 0 /\ lost[c] = 0 /\ \A n \in Subs : watch[c][n] = "none"
    BY DEF Init, NoRow, NoWatch
<1>2. open BY DEF Init
<1>3. QED BY <1>1, <1>2 DEF Handed, HandedOn, Ended

-----------------------------------------------------------------------------
(* Results. *)

\* At first nobody waits.
LEMMA InitOrder == Init => NoWaitCycle
<1> SUFFICES ASSUME Init PROVE NoWaitCycle OBVIOUS
<1>1. \A a \in Agents : Waits(a) = {} BY DEF Init, GraphInit, Waits, Held
<1>2. SUFFICES ASSUME NEW S \in (SUBSET Agents) \ {{}} PROVE \E a \in S : Waits(a) \cap S = {}
    BY DEF NoWaitCycle
<1>3. PICK a \in S : TRUE OBVIOUS
<1>4. Waits(a) \cap S = {} BY <1>1
<1>5. QED BY <1>4

\* What is read of the rows keeps joins fresh: a row that shows an end shows that
\* of its submission, which no message is after; an interrupted one has no marks.
LEMMA ReadIsFresh == Typed /\ Read => JoinIsFresh
<1> SUFFICES ASSUME Typed, Read, NEW w \in Agents, NEW t \in Children,
                    mail[w][t] > 0, t \in Known, Ready(row, w, t)
             PROVE mail[w][t] <= shown[t]
    BY DEF JoinIsFresh
<1>1. row[t].status \notin {"running", "none"} BY DEF Ready, Known
<1>2. row[t].status # "interrupted" BY ReadTyped DEF Read, Shown
<1>3. row[t].status \in Statuses BY TypesAre DEF AllTyped, RowsTyped, Rows
<1>4. row[t].status \in Ended BY <1>1, <1>2, <1>3 DEF Statuses, Ended
<1>5. QED BY <1>4, ReadTyped DEF Read, Shown

\* An end main has yet to hear of is a row's whose watcher is at work.
LEMMA HandedInHand == Handed => EndsInHand
BY DEF Handed, HandedOn, EndsInHand, Untold, Known

\* The inductive invariant holds in every reachable state.
THEOREM AgentsInvariantHolds == Spec => []IInv
<1>1. Init => IInv BY InitTyped, InitOrder, InitRead, InitPaid, InitHanded DEF IInv
<1>2. IInv /\ [Next]_vars => IInv'
    BY NextTyped, NextOrder, NextRead, NextPaid, NextHanded DEF IInv, Read
<1>3. QED BY <1>1, <1>2, PTL DEF Spec

\* The registry, the calls and the conversations have their types.
THEOREM AgentsTypeCorrect == Spec => []TypeOK
<1>1. IInv => TypeOK BY DEF IInv, Typed
<1>2. QED BY <1>1, AgentsInvariantHolds, PTL

\* join's check and the hold of a foreground spawn (graph.ts, subagents.ts): no
\* agents are blocked on each other in a circle.
THEOREM NobodyWaitsInACircle == Spec => []NoWaitCycle
<1>1. IInv => NoWaitCycle BY DEF IInv
<1>2. QED BY <1>1, AgentsInvariantHolds, PTL

\* A join after a message is ready with a result that takes the message in, which
\* rests on track's check for a later submission.
THEOREM JoinsAreFresh == Spec => []JoinIsFresh
<1>1. IInv => JoinIsFresh BY ReadIsFresh DEF IInv
<1>2. QED BY <1>1, AgentsInvariantHolds, PTL

\* track, detach and resume (subagents.ts): while the page is open, an end that main
\* has yet to hear of has a watcher that will hand it on, whatever joins, messages,
\* detaching and closed pages came between.
THEOREM EndsStayInHand == Spec => []EndsInHand
<1>1. IInv => EndsInHand BY HandedInHand DEF IInv
<1>2. QED BY <1>1, AgentsInvariantHolds, PTL
=============================================================================
