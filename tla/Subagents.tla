------------------------------ MODULE Subagents ------------------------------
(* subagents.ts: main and its subagents spawn, message and join; a watcher    *)
(* per submission records its end, releases joins and reports to main.  The   *)
(* registry rows and the conversations outlive the page; calls, watchers and  *)
(* marks do not.                                                              *)
EXTENDS AgentGraph

CONSTANTS MaxRunning,   \* MAX_RUNNING
          MaxCalls,     \* bound on the calls that agents have under way at once
          MaxMoves      \* bound on messages, joins, acts of the user and faults

ASSUME AgentsAssumption ==
    /\ Main \notin Children /\ User \notin Agents /\ None \notin Agents \cup {User}
    /\ MaxRunning \in Nat \ {0} /\ MaxCalls \in Nat /\ MaxMoves \in Nat

VARIABLES
    row,        \* the registry
    subs,       \* the submissions of each subagent's conversation, in order
    watch,      \* track: the watcher of a submission ("again": after a reload)
    main,       \* whether a turn of main is on
    detaching,  \* detach, between its awaits
    open,       \* the page
    mail,       \* history: the submission that reads an agent's last message
    shown,      \* history: the submission whose end was recorded last
    told,       \* history: the last end main was sent, or left to a call of its
    lost,       \* history: the last end kept from main with no call waiting for it
    moves

local == <<calls, sent, watch, main, detaching, mail>>
vars == <<local, row, subs, open, shown, told, lost, moves>>

Subs == 1..(MaxMoves + 1)
NoRow == [status |-> "none", sub |-> 0, seq |-> 0, reported |-> 0, quiet |-> FALSE,
          fg |-> FALSE]
Missed == -1
Refused == -2
Unread == [w \in Agents |-> [t \in Children |-> 0]]
NoWatch == [c \in Children |-> [n \in Subs |-> "none"]]
Still == [on |-> FALSE, fg |-> {}]

Init ==
    /\ GraphInit
    /\ row = [c \in Children |-> NoRow]
    /\ subs = [c \in Children |-> <<>>]
    /\ watch = NoWatch
    /\ main = TRUE
    /\ detaching = Still
    /\ open = TRUE
    /\ mail = Unread
    /\ shown = [c \in Children |-> 0]
    /\ told = [c \in Children |-> 0]
    /\ lost = [c \in Children |-> 0]
    /\ moves = 0

Move == moves < MaxMoves /\ moves' = moves + 1

Known == {c \in Children : row[c].status # "none"}
Running == {c \in Children : row[c].status = "running"}
OpenSubs(c) == {n \in DOMAIN subs[c] : subs[c][n] = "open"}
Busy(c) == OpenSubs(c) # {}
Current(c) == CHOOSE n \in OpenSubs(c) : \A m \in OpenSubs(c) : n <= m
Submitted(c) == [subs EXCEPT ![c] = Append(@, "open")]
Aborted(cs) == [c \in Children |-> IF c \notin cs THEN subs[c] ELSE
    [n \in DOMAIN subs[c] |-> IF subs[c][n] = "open" THEN "aborted" ELSE subs[c][n]]]
\* Subagents are alike until they are spawned.
Unborn == {c \in Children : subs[c] = <<>> /\ \A k \in calls : k.to # c}
\* Equal calls are not told apart: there is one at a time.
Begin(k) ==
    /\ Cardinality(calls) < MaxCalls /\ k \notin calls
    /\ calls' = calls \cup {k}
\* An agent calls tools while its run is on; a subagent once it is registered.
Acts(w) == open /\ IF w = Main THEN main ELSE w \in Known /\ Busy(w)

\* A join's ready, over the rows as last written.
Ready(r, w, t) == r[t].status # "running" /\ r[t].seq > sent[w][t]
AllReady(r, c) == \A t \in c.ids : Ready(r, c.from, t)
\* update: the rows are written, and every join that is ready returns.
Write(r, cs) ==
    /\ row' = r
    /\ calls' = {k \in cs : ~(k.pc = "joined" /\ AllReady(r, k))}
\* track, once per submission.
Watched(c, n) == [watch EXCEPT ![c][n] = IF @ = "none" THEN "wait" ELSE @]

-----------------------------------------------------------------------------
(* spawn. *)
\* The limit is read here and not again; the conversation is made, and its first
\* submission, before the row is written.
SpawnStart(c) ==
    /\ Acts(Main)
    /\ Unborn # {} /\ c = CHOOSE d \in Unborn : TRUE
    /\ Cardinality(Running) < MaxRunning
    /\ \E fg \in BOOLEAN :
        Begin([Call EXCEPT !.pc = "enroll", !.from = Main, !.to = c, !.sub = 1, !.fg = fg])
    /\ subs' = Submitted(c)
    /\ UNCHANGED <<sent, row, watch, main, detaching, open, mail, shown, told, lost, moves>>

\* The row is written and watched; a foreground spawn holds main.
SpawnEnroll(k) ==
    /\ k.pc = "enroll"
    /\ Write([row EXCEPT ![k.to] = [NoRow EXCEPT !.status = "running", !.sub = 1, !.fg = k.fg]],
             (calls \ {k}) \cup
             (IF k.fg THEN {[k EXCEPT !.pc = "spawned", !.ids = {k.to}]} ELSE {}))
    /\ watch' = Watched(k.to, 1)
    /\ UNCHANGED <<sent, subs, main, detaching, open, mail, shown, told, lost, moves>>

-----------------------------------------------------------------------------
(* send, from an agent or (message, steer) from the user. *)
Mailed(w, t, n) == IF w = User THEN mail ELSE [mail EXCEPT ![w][t] = n]
\* The registry is read, and whether a run is on; the message is submitted later.
\* A message that would wake a subagent over the limit is refused; its mark stays.
SendTo(w, t, joins) ==
    LET Send(pc) == Begin([Call EXCEPT !.pc = pc, !.from = w, !.to = t, !.sub = row[t].sub])
    IN
    /\ \/ joins /\ Send("steer") /\ UNCHANGED mail
       \/ ~joins /\ Cardinality(Running) < MaxRunning /\ Send("wake") /\ UNCHANGED mail
       \/ ~joins /\ Cardinality(Running) >= MaxRunning /\ UNCHANGED calls
          /\ mail' = Mailed(w, t, Refused)
    /\ Move
    /\ UNCHANGED <<row, subs, watch, main, detaching, open, shown, told, lost>>

SendStart(w, t) ==
    /\ Acts(w)
    /\ t \in Known \ {w} /\ (w = Main \/ row[t].status \in {"running", "finished"})
    /\ SendTo(w, t, t \in Running /\ Busy(t))
    /\ sent' = [sent EXCEPT ![w][t] = row[t].seq]

UserWrites(t) ==
    /\ open /\ t \in Known
    /\ SendTo(User, t, t \in Running)
    /\ UNCHANGED sent

\* The sender's row says that its run delivered by message.
Counted(r, w) == IF w \in Children THEN [r EXCEPT ![w].quiet = TRUE] ELSE r
\* A steer joins the current run, or comes too late for it and starts another.
\* The user's frees a subagent that is blocked.
SendSteer(k) ==
    LET n == IF Busy(k.to) /\ Current(k.to) = k.sub THEN k.sub ELSE Missed IN
    /\ k.pc = "steer"
    /\ IF Busy(k.to) THEN UNCHANGED subs ELSE subs' = Submitted(k.to)
    /\ mail' = Mailed(k.from, k.to, n)
    /\ Write(Counted(row, k.from),
             (calls \ {k}) \ (IF k.from = User THEN Held(k.to) ELSE {}))
    /\ UNCHANGED <<sent, watch, main, detaching, open, shown, told, lost, moves>>

SendWake(k) ==
    /\ k.pc = "wake"
    /\ subs' = Submitted(k.to)
    /\ calls' = (calls \ {k}) \cup {[k EXCEPT !.pc = "enlist", !.sub = Len(subs[k.to]) + 1]}
    /\ UNCHANGED <<sent, row, watch, main, detaching, open, mail, shown, told, lost, moves>>

\* Updates run in the order of the submissions they follow.
InTurn(k) == \A j \in calls : j.pc = "enlist" /\ j.to = k.to => k.sub <= j.sub
MutantAwake(r, n, by) == [r EXCEPT !.status = "running", !.quiet = by \in Children]
Awake(r, n, by) == [r EXCEPT !.status = "running", !.sub = n, !.quiet = by \in Children]
SendEnlist(k) ==
    /\ k.pc = "enlist" /\ InTurn(k)
    /\ Write(Counted([row EXCEPT ![k.to] = Awake(@, k.sub, k.from)], k.from), calls \ {k})
    /\ watch' = Watched(k.to, k.sub)
    /\ mail' = Mailed(k.from, k.to, k.sub)
    /\ UNCHANGED <<sent, subs, main, detaching, open, shown, told, lost, moves>>

\* A subagent's message to main joins main's turn, or starts one.
SendMain(w) ==
    /\ Acts(w) /\ Move
    /\ Write(Counted(row, w), calls)
    /\ main' = TRUE
    /\ UNCHANGED <<sent, subs, watch, detaching, open, mail, shown, told, lost>>

-----------------------------------------------------------------------------
(* join: the check for a cycle, the one for readiness and the hold are one    *)
(* step.  A join that is ready returns at once.                               *)
JoinStart(w, ids) ==
    LET k == [Call EXCEPT !.from = w, !.ids = ids] IN
    /\ Acts(w)
    /\ ids # {} /\ ids \subseteq Known \ {w}
    /\ ~ClosesCycle(w, ids)
    /\ ~AllReady(row, k)
    /\ Begin(k)
    /\ Move
    /\ UNCHANGED <<sent, row, subs, watch, main, detaching, open, mail, shown, told, lost>>

\* By its timeout; a refused message leaves its mark, and a join after it on a
\* quiet target may have no other end.
Misled == \E w \in Agents, t \in Children : mail[w][t] = Refused
JoinTimeout(k) ==
    /\ k.pc = "joined"
    /\ calls' = calls \ {k}
    /\ IF Misled THEN UNCHANGED moves ELSE Move
    /\ UNCHANGED <<sent, row, subs, watch, main, detaching, open, mail, shown, told, lost>>

-----------------------------------------------------------------------------
(* Runs end by themselves, by the user's stop, or with main's turn. *)
Settle(c) ==
    /\ open /\ Busy(c) /\ \A k \in calls : k.from # c
    /\ \/ subs' = [subs EXCEPT ![c][Current(c)] = "done"] /\ UNCHANGED moves
       \/ subs' = [subs EXCEPT ![c][Current(c)] = "failed"] /\ Move
    /\ UNCHANGED <<local, row, open, shown, told, lost>>

Stop(c) ==
    /\ open /\ c \in Running /\ Busy(c)
    /\ subs' = Aborted({c})
    /\ calls' = calls \ Joining(c)
    /\ Move
    /\ UNCHANGED <<sent, row, watch, main, detaching, open, mail, shown, told, lost>>

\* track.  The end is known, and what main is blocked on is looked up; the row
\* is written later, and what it says then decides about the report.
LeftToJoin(c, n) == row[c].sub = n /\ \E k \in Joining(Main) : c \in k.ids
Decide(c, n) ==
    /\ watch[c][n] \in {"wait", "again"} /\ n \notin OpenSubs(c)
    /\ watch' = [watch EXCEPT ![c][n] = CASE LeftToJoin(c, n) -> "joined"
                                          [] @ = "again" -> "hushed"
                                          [] OTHER -> "plain"]
    /\ UNCHANGED <<calls, sent, row, subs, main, detaching, open, mail, shown, told, lost, moves>>

StatusOf(outcome) == CASE outcome = "done" -> "finished"
                       [] outcome = "aborted" -> "stopped"
                       [] OTHER -> "failed"
EndedRow(r, n, outcome, joined) ==
    [r EXCEPT !.status = StatusOf(outcome), !.seq = @ + 1,
              !.reported = IF joined THEN n ELSE @]
\* What the watcher goes on with: a report that wakes main, or a quiet entry
\* when the run was stopped or delivered by message, or the page was opened anew.
MutantReport(r, n, hushed) ==
    IF r.fg \/ r.reported # 0 THEN "none"
    ELSE IF hushed \/ r.status = "stopped" \/ r.quiet THEN "quiet" ELSE "report"
Report(r, n, hushed) ==
    IF r.fg \/ r.reported = n THEN "none"
    ELSE IF hushed \/ r.status = "stopped" \/ r.quiet THEN "quiet" ELSE "report"
MutantSuperseded(c, n) == FALSE
Superseded(c, n) == row[c].sub # n
Later(m, n) == IF m > n THEN m ELSE n
\* A foreground spawn returns when its watcher is through, with the answer.
Spawned(c, n) == {k \in calls : k.pc = "spawned" /\ k.to = c /\ k.sub = n}
Record(c, n) ==
    LET joined == watch[c][n] = "joined"
        r == EndedRow(row[c], n, subs[c][n], joined)
    IN
    /\ watch[c][n] \in {"plain", "joined", "hushed"}
    /\ \/ /\ Superseded(c, n)
          /\ watch' = [watch EXCEPT ![c][n] = "none"]
          /\ calls' = calls \ Spawned(c, n)
          /\ UNCHANGED <<row, shown, told, lost>>
       \/ /\ ~Superseded(c, n)
          /\ Write([row EXCEPT ![c] = r], calls \ Spawned(c, n))
          /\ shown' = [shown EXCEPT ![c] = n]
          /\ IF joined \/ Spawned(c, n) # {}
             THEN told' = [told EXCEPT ![c] = Later(@, n)] /\ UNCHANGED lost
             ELSE lost' = [lost EXCEPT ![c] = IF r.fg THEN n ELSE @] /\ UNCHANGED told
          /\ watch' = [watch EXCEPT ![c][n] = Report(r, n, watch[c][n] = "hushed")]
    /\ UNCHANGED <<sent, subs, main, detaching, open, mail, moves>>

\* A report that would wake main waits for it.
WaitedOn(c) == \E k \in Held(Main) : k.pc = "spawned" /\ k.to = c
Post(c, n) ==
    /\ \/ watch[c][n] = "quiet" /\ UNCHANGED main
       \/ /\ watch[c][n] = "report" /\ ~main
          /\ main' = TRUE
    /\ told' = [told EXCEPT ![c] = Later(@, n)]
    /\ watch' = [watch EXCEPT ![c][n] = "mark"]
    /\ UNCHANGED <<calls, sent, row, subs, detaching, open, mail, shown, lost, moves>>

Mark(c, n) ==
    /\ watch[c][n] = "mark"
    /\ Write([row EXCEPT ![c].reported = n], calls)
    /\ watch' = [watch EXCEPT ![c][n] = "none"]
    /\ UNCHANGED <<sent, subs, main, detaching, open, mail, shown, told, lost, moves>>

-----------------------------------------------------------------------------
(* Main and its user. *)
UserTurn ==
    /\ open /\ ~main
    /\ main' = TRUE
    /\ Move
    /\ UNCHANGED <<calls, sent, row, subs, watch, detaching, open, mail, shown, told, lost>>

MainEnds ==
    /\ main /\ ~detaching.on /\ \A k \in calls : k.from # Main
    /\ main' = FALSE
    /\ UNCHANGED <<calls, sent, row, subs, watch, detaching, open, mail, shown, told, lost, moves>>

\* The user stops main, and with it the foreground subagents it waits for.
StopMain ==
    /\ main /\ Move
    /\ main' = FALSE
    /\ calls' = calls \ Joining(Main)
    /\ subs' = Aborted({c \in Children : WaitedOn(c)})
    /\ UNCHANGED <<sent, row, watch, detaching, open, mail, shown, told, lost>>

\* detach: the user writes to a blocked main.  What it holds is read, the
\* message submitted, then the rows and the holds are let go.
Detach ==
    /\ open /\ ~detaching.on /\ Held(Main) # {}
    /\ detaching' = [on |-> TRUE, fg |-> {c \in Children : WaitedOn(c)}]
    /\ Move
    /\ UNCHANGED <<calls, sent, row, subs, watch, main, open, mail, shown, told, lost>>
Detached ==
    /\ detaching.on
    /\ Write([c \in Children |-> IF c \in detaching.fg THEN [row[c] EXCEPT !.fg = FALSE] ELSE row[c]],
             calls \ Held(Main))
    /\ detaching' = Still
    /\ UNCHANGED <<sent, subs, watch, main, open, mail, shown, told, lost, moves>>

-----------------------------------------------------------------------------
(* The page goes away, and is opened again (resume): runs it cut off are      *)
(* aborted and interrupted, ends that were not reported are watched again.    *)
Close ==
    /\ open /\ open' = FALSE
    /\ calls' = {} /\ sent' = Unmarked
    /\ watch' = NoWatch /\ main' = FALSE /\ detaching' = Still /\ mail' = Unread
    /\ Move
    /\ UNCHANGED <<row, subs, shown, told, lost>>

Cut == {c \in Children : Busy(c)}
MutantResumed(c) ==
    IF c \in Running \cap Cut THEN IF row[c].fg THEN "none" ELSE "quiet"
    ELSE IF c \in Running THEN "again" ELSE "none"
Resumed(c) ==
    IF c \in Running \cap Cut THEN IF row[c].fg THEN "none" ELSE "quiet"
    ELSE IF c \in Running \/ (c \in Known /\ ~row[c].fg /\ row[c].reported # row[c].sub)
    THEN "again" ELSE "none"
Reopen ==
    /\ ~open /\ open' = TRUE
    /\ subs' = Aborted(Cut)
    /\ row' = [c \in Children |-> IF c \in Running \cap Cut
                                  THEN [row[c] EXCEPT !.status = "interrupted"] ELSE row[c]]
    /\ watch' = [c \in Children |-> [n \in Subs |->
                    IF n = row[c].sub THEN Resumed(c) ELSE "none"]]
    /\ UNCHANGED <<calls, sent, main, detaching, mail, shown, told, lost, moves>>

-----------------------------------------------------------------------------
CallStep(k) == SpawnEnroll(k) \/ SendSteer(k) \/ SendWake(k) \/ SendEnlist(k)
CallStart ==
    \/ \E c \in Children : SpawnStart(c) \/ UserWrites(c)
    \/ \E w \in Agents, t \in Children : SendStart(w, t)
    \/ \E w \in Children : SendMain(w)
    \/ \E w \in Agents, ids \in SUBSET Children : JoinStart(w, ids)
WatchStep(c, n) == Decide(c, n) \/ Record(c, n) \/ Post(c, n) \/ Mark(c, n)

Next ==
    \/ CallStart
    \/ \E k \in calls : CallStep(k) \/ JoinTimeout(k)
    \/ \E c \in Children : Settle(c) \/ Stop(c)
    \/ \E c \in Children, n \in Subs : WatchStep(c, n)
    \/ UserTurn \/ MainEnds \/ StopMain \/ Detach \/ Detached
    \/ Close \/ Reopen

Spec == Init /\ [][Next]_vars

\* The page runs what is due, and an agent's run ends once its calls returned.
\* What is due at once is finite, so fairness of the whole is enough.
Due ==
    \/ \E k \in calls : CallStep(k) \/ (Misled /\ JoinTimeout(k))
    \/ \E c \in Children : Settle(c)
    \/ \E c \in Children, n \in Subs : WatchStep(c, n)
    \/ MainEnds \/ Detached
FairSpec == Spec /\ WF_vars(Due)

-----------------------------------------------------------------------------
Outcomes == {"open", "done", "failed", "aborted"}
Statuses == {"none", "running", "finished", "failed", "stopped", "interrupted"}
TypeOK ==
    /\ calls \subseteq [pc : {"enroll", "spawned", "steer", "wake", "enlist", "joined"},
                        from : Agents \cup {User}, to : Children \cup {None},
                        ids : SUBSET Children, sub : Nat,
                        fg : BOOLEAN]
    /\ sent \in [Agents -> [Children -> Int]]
    /\ row \in [Children -> [status : Statuses, sub : Nat, seq : Nat, reported : Nat,
                             quiet : BOOLEAN, fg : BOOLEAN]]
    /\ subs \in [Children -> Seq(Outcomes)]
    /\ watch \in [Children -> [Subs -> {"none", "wait", "again", "plain", "joined",
                                        "hushed", "report", "quiet", "mark"}]]
    /\ main \in BOOLEAN
    /\ detaching \in [on : BOOLEAN, fg : SUBSET Children]
    /\ open \in BOOLEAN
    /\ mail \in [Agents -> [Children -> Int]]
    /\ shown \in [Children -> Nat] /\ told \in [Children -> Nat] /\ lost \in [Children -> Nat]
    /\ moves \in 0..MaxMoves

\* No agents are blocked on each other in a circle, whatever joins several of
\* them begin at once and whatever main's foreground spawns hold.
NoWaitCycle ==
    \A S \in (SUBSET Agents) \ {{}} : \E a \in S : Waits(a) \cap S = {}

\* What a join would return for a target takes in the joiner's last message to
\* it, unless the run it was meant for had ended when the message got there.
JoinIsFresh ==
    \A w \in Agents, t \in Children :
        mail[w][t] > 0 /\ t \in Known /\ Ready(row, w, t) => mail[w][t] <= shown[t]

\* Joins end without their timeouts: no end is missed between the look at the
\* rows and the hold, and no two agents wait for each other.
JoinsEnd == []<>(\A k \in calls : k.pc # "joined")

\* Main is told of the last tracked end of every subagent that reports, by a report
\* or by the call it was blocked in, over closed pages; but for those NoneLost is
\* about.  The end of a run that a too late steer began is nobody's: the code tracks
\* no such run (subagents.ts:431, 533), and the row never names it.
Untold(c) ==
    /\ c \in Known /\ ~Busy(c) /\ ~row[c].fg
    /\ row[c].sub \notin {told[c], lost[c]}
EndsAreTold == []<>(open => \A c \in Children : ~Untold(c))

\* A tracked end main is yet to be told of is in somebody's hands: while the page is open
\* its watcher is at work, however reports, joins, messages and detaching overlap.
EndsInHand ==
    open => \A c \in Children : Untold(c) => watch[c][row[c].sub] # "none"

\* No end is kept from main unless a call of main's waits for it.
NoneLost == \A c \in Children : lost[c] = 0
=============================================================================
