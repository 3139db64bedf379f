----------------------------- MODULE Telemetry -----------------------------
(* The inbox worker's outbox of content-free counters and the collector that  *)
(* ingests it.  Counts go to fifteen-minute windows; an export seals a closed *)
(* window and sends it under a batch id that stays the same over retries.     *)
(* The collector admits requests against a budget and counts each batch once, *)
(* with receipts it later purges.  One unit of time is a window.             *)
EXTENDS Integers, FiniteSets

CONSTANTS Exporters,     \* overlapping runs of exportTelemetry
          Events,        \* webhook deliveries, retried by their sender
          EventTime,     \* [Events -> time], the bucket an event is observed in
          None,
          Retentions,    \* collector retentions configured over time
          Deployed,      \* the first of them
          OutboxTTL,     \* TELEMETRY_TTL in windows
          MaxWindows,    \* rows of telemetry_windows
          MaxCount,      \* the saturation of a counter
          PerExport,     \* windows one export sends
          PurgeRows,     \* rows of a table one purge deletes
          MaxTime,       \* bound on time
          LastWindow,    \* bound on the windows that count
          MaxRequests,   \* bound on requests at once, for events to join
          MaxFaults      \* bound on lost calls and evicted exports

Windows == 0..LastWindow
Batches == Windows \cup Events
Classes == {"metrics", "lifecycle"}

ASSUME TelemetryAssumption ==
    /\ {OutboxTTL, MaxWindows, MaxCount, PerExport, PurgeRows} \subseteq Nat \ {0}
    /\ OutboxTTL >= 2
    /\ {MaxTime, LastWindow, MaxRequests, MaxFaults} \subseteq Nat
    /\ Retentions \subseteq Nat \ {0} /\ Deployed \in Retentions
    /\ Events \cap Windows = {}
    /\ EventTime \in [Events -> Nat]
    /\ None \notin Exporters \cup Int
    /\ None \notin [value : Nat, expires : Int] /\ None \notin [observed : Nat, expires : Int]
    /\ None \notin [ttl : Nat, cutoff : Int]

VARIABLES
    clock,      \* time, in windows
    row,        \* telemetry_windows joined with telemetry_counts
    recorded,   \* history: what was counted into each window
    ex,         \* the exports: a pc and the windows left
    net,        \* requests on their way to or in the collector
    env,        \* the retention the collector is configured with
    policy,     \* retention_state
    receipt,    \* receipts
    data,       \* metric_points or a lifecycle increment: its expiry
    status,     \* source_status
    tally,      \* history: what the collector counted for each batch
    clashed,    \* history: the batches answered 409
    faults

vars == <<clock, row, recorded, ex, net, env, policy, receipt, data, status,
          tally, clashed, faults>>
outbox == <<row, recorded>>
store == <<policy, receipt, data, status, tally, clashed>>

-----------------------------------------------------------------------------
Class(b) == IF b \in Events THEN "lifecycle" ELSE "metrics"
\* A window is observed at its end, an event at its bucket.
Observed(b) == IF b \in Events THEN EventTime[b] ELSE b + 1
Lesser(a, b) == IF a < b THEN a ELSE b
Greater(a, b) == IF a < b THEN b ELSE a

NoRow == [state |-> "none", value |-> 0]
Idle == [pc |-> "idle", todo |-> {}]
\* A request not yet admitted has neither a clock reading nor a retention.
Request(x, b, n) == [from |-> x, batch |-> b, value |-> n, now |-> None, ttl |-> None]

Init ==
    /\ clock = 0
    /\ row = [w \in Windows |-> NoRow]
    /\ recorded = [w \in Windows |-> 0]
    /\ ex = [x \in Exporters |-> Idle]
    /\ net = {}
    /\ env = Deployed
    /\ policy = [c \in Classes |-> None]
    /\ receipt = [b \in Batches |-> None]
    /\ data = [b \in Batches |-> None]
    /\ status = [c \in Classes |-> None]
    /\ tally = [b \in Batches |-> 0]
    /\ clashed = {}
    /\ faults = 0

Fault == faults < MaxFaults /\ faults' = faults + 1

Tick == /\ clock < MaxTime /\ clock' = clock + 1
        /\ UNCHANGED <<outbox, ex, net, store, env, faults>>

-----------------------------------------------------------------------------
(* The outbox *)

\* countTelemetry.  The start is read before the batch, so a count may land in
\* the window that has just closed; a sealed window takes no more.
MutantTakesCounts(r) == r.state \in {"open", "sealed"}
TakesCounts(r) == r.state = "open"
MutantCounted(r) == [r EXCEPT !.value = @ + 1]
Counted(r) == [r EXCEPT !.value = Lesser(MaxCount, @ + 1)]

Count(w) ==
    /\ w \in {clock, clock - 1}
    /\ \/ /\ row[w].state = "none"
          /\ Cardinality({v \in Windows : row[v].state # "none"}) < MaxWindows
          /\ row' = [row EXCEPT ![w] = [state |-> "open", value |-> 1]]
       \/ /\ TakesCounts(row[w])
          /\ row' = [row EXCEPT ![w] = Counted(@)]
    /\ recorded' = [recorded EXCEPT ![w] = row'[w].value]
    /\ UNCHANGED <<clock, ex, net, store, env, faults>>

\* Prune what is a day old; an outbox that is empty has nothing to do.
ExportBegin(x) ==
    /\ ex[x].pc = "idle" /\ \E w \in Windows : row[w].state # "none"
    /\ row' = [w \in Windows |-> IF w + OutboxTTL <= clock THEN NoRow ELSE row[w]]
    /\ ex' = [ex EXCEPT ![x] = [pc |-> "select", todo |-> {w \in Windows : w + 1 <= clock}]]
    /\ UNCHANGED <<clock, recorded, net, store, env, faults>>

\* The oldest windows, closed when the export began, that are not sent.
MutantUnsent(x) == {w \in ex[x].todo : row[w].state = "open"}
Unsent(x) == {w \in ex[x].todo : row[w].state \in {"open", "sealed"}}
OldestOf(S) == {w \in S : Cardinality({v \in S : v < w}) < PerExport}
Oldest(S) == CHOOSE w \in S : \A v \in S : w <= v
Window(x) == Oldest(ex[x].todo)

\* The export goes on to its next window, or ends.
Goes(x, todo) ==
    ex' = [ex EXCEPT ![x] = IF todo = {} THEN Idle
                            ELSE [pc |-> "seal", todo |-> todo]]

ExportSelect(x) ==
    /\ ex[x].pc = "select"
    /\ Goes(x, OldestOf(Unsent(x)))
    /\ UNCHANGED <<clock, outbox, net, store, env, faults>>

Sealed(r) == IF r.state = "open" THEN [r EXCEPT !.state = "sealed"] ELSE r

ExportSeal(x) ==
    /\ ex[x].pc = "seal"
    /\ row' = [row EXCEPT ![Window(x)] = Sealed(@)]
    /\ ex' = [ex EXCEPT ![x].pc = "send"]
    /\ UNCHANGED <<clock, recorded, net, store, env, faults>>

\* Read the counts and send them; a window pruned meanwhile has none.
ExportSend(x) ==
    /\ ex[x].pc = "send"
    /\ LET w == Window(x) IN
       IF row[w].value = 0
       THEN Goes(x, ex[x].todo \ {w}) /\ UNCHANGED net
       ELSE /\ net' = net \cup {Request(x, w, row[w].value)}
            /\ ex' = [ex EXCEPT ![x].pc = "wait"]
    /\ UNCHANGED <<clock, outbox, store, env, faults>>

SentRow(r) == IF r.state = "none" THEN r ELSE [r EXCEPT !.state = "sent"]
ExportAcked(x) ==
    /\ ex[x].pc = "acked"
    /\ row' = [row EXCEPT ![Window(x)] = SentRow(@)]
    /\ Goes(x, ex[x].todo \ {Window(x)})
    /\ UNCHANGED <<clock, recorded, net, store, env, faults>>

\* The five-second timeout, a lost answer or an eviction: the request lives on.
ExportDies(x) ==
    /\ ex[x].pc # "idle" /\ Fault
    /\ ex' = [ex EXCEPT ![x] = Idle]
    /\ net' = {IF r.from = x THEN [r EXCEPT !.from = None] ELSE r : r \in net}
    /\ UNCHANGED <<clock, outbox, env, store>>

-----------------------------------------------------------------------------
(* The collector *)

\* The sender of an event delivers it again whenever it likes.
Deliver(e) ==
    /\ EventTime[e] <= clock /\ Cardinality(net) < MaxRequests
    /\ net' = net \cup {Request(None, e, 1)}
    /\ UNCHANGED <<clock, outbox, ex, store, env, faults>>

\* The answer reaches an export that still waits: 202 lets it go on, anything
\* else ends it.
MutantRefused(e) == [e EXCEPT !.pc = "acked"]
Refused(e) == Idle
Acked(e) == [e EXCEPT !.pc = "acked"]
Refuse(r) == ex' = IF r.from = None THEN ex ELSE [ex EXCEPT ![r.from] = Refused(@)]
Accept(r) == ex' = IF r.from = None THEN ex ELSE [ex EXCEPT ![r.from] = Acked(@)]

\* fetch up to ingest: either budget may refuse, then the observation must be
\* inside the retention configured now.
Admit(r) ==
    /\ r \in net /\ r.now = None /\ Observed(r.batch) > clock - env
    /\ net' = (net \ {r}) \cup {[r EXCEPT !.now = clock, !.ttl = env]}
    /\ UNCHANGED <<clock, outbox, ex, store, env, faults>>

Reject(r) ==
    /\ r \in net /\ r.now = None
    /\ net' = net \ {r} /\ Refuse(r)
    /\ UNCHANGED <<clock, outbox, store, env, faults>>

\* The retention_state upsert: a ttl only shrinks, a cutoff only grows.
Policy(c, ttl, t) ==
    IF policy[c] = None THEN [ttl |-> ttl, cutoff |-> t - ttl]
    ELSE LET least == Lesser(policy[c].ttl, ttl) IN
         [ttl |-> least, cutoff |-> Greater(policy[c].cutoff, t - least)]

MutantAdmissible(b, p) == TRUE
Admissible(b, p) == Observed(b) > p.cutoff

\* INSERT OR IGNORE of the receipt.
Receipt(r, p) ==
    IF receipt[r.batch] = None /\ Admissible(r.batch, p)
    THEN [value |-> r.value, expires |-> Observed(r.batch) + Lesser(r.ttl, p.ttl)]
    ELSE receipt[r.batch]

\* The guard of the inserts that follow: the receipt is ours and unexpired.
Guard(r, p, rc) == /\ Admissible(r.batch, p) /\ rc # None
                   /\ rc.value = r.value /\ rc.expires > r.now

\* An event counts when its receipt is new (changes() = 1), a point when its
\* unique key is.
IsNew(r) == IF Class(r.batch) = "lifecycle" THEN receipt[r.batch] = None
            ELSE data[r.batch] = None

MutantNewer(c, b) == status[c] = None \/ Observed(b) # status[c].observed
Newer(c, b) == status[c] = None \/ Observed(b) > status[c].observed

Ingest(r) ==
    /\ r \in net /\ r.now # None
    /\ LET b == r.batch
           c == Class(b)
           p == Policy(c, r.ttl, r.now)
           rc == Receipt(r, p)
           guard == Guard(r, p, rc)
           expires == Observed(b) + Lesser(r.ttl, p.ttl) IN
       /\ policy' = [policy EXCEPT ![c] = p]
       /\ receipt' = [receipt EXCEPT ![b] = rc]
       /\ IF guard /\ IsNew(r)
          THEN data' = [data EXCEPT ![b] = expires] /\ tally' = [tally EXCEPT ![b] = @ + r.value]
          ELSE UNCHANGED <<data, tally>>
       /\ status' = IF guard /\ Newer(c, b)
                    THEN [status EXCEPT ![c] = [observed |-> Observed(b), expires |-> expires]]
                    ELSE status
       /\ IF rc = None \/ Observed(b) <= p.cutoff \/ (rc # None /\ rc.expires <= r.now)
          THEN Refuse(r) /\ UNCHANGED clashed
          ELSE IF rc.value # r.value
          THEN Refuse(r) /\ clashed' = clashed \cup {b}
          ELSE Accept(r) /\ UNCHANGED clashed
    /\ net' = net \ {r}
    /\ UNCHANGED <<clock, outbox, env, faults>>

\* The request fails before its batch commits: 503.
RequestFails(r) ==
    /\ r \in net /\ r.now # None /\ Fault
    /\ net' = net \ {r} /\ Refuse(r)
    /\ UNCHANGED <<clock, outbox, env, store>>

\* The collector is deployed with another retention.
Reconfigure(ttl) ==
    /\ ttl # env /\ env' = ttl /\ Fault
    /\ UNCHANGED <<clock, outbox, ex, net, store>>

PolicyNow == [c \in Classes |-> Policy(c, env, clock)]

\* Reading the status of every class moves the cutoffs, and nothing else.
ReadStatus ==
    /\ policy' = PolicyNow /\ policy' # policy
    /\ UNCHANGED <<clock, outbox, ex, net, receipt, data, status, tally, clashed, env, faults>>

\* The purge takes the first expired rows of each table, so that a receipt and
\* its rows can go at different times.
Gone(expires, observed, p) == expires <= clock \/ observed <= p.cutoff
FirstExpired(S, at) == {b \in S : Cardinality({a \in S : at[a] < at[b]}) < PurgeRows}
Taken(S, at) == {T \in SUBSET FirstExpired(S, at) :
                    Cardinality(T) = Lesser(PurgeRows, Cardinality(S))}

Purge ==
    LET p == PolicyNow
        gone == {b \in Batches : receipt[b] # None
                   /\ Gone(receipt[b].expires, Observed(b), p[Class(b)])}
        old == {b \in Batches : data[b] # None /\ Gone(data[b], Observed(b), p[Class(b)])} IN
    /\ policy' = p
    /\ \E R \in Taken(gone, [b \in gone |-> receipt[b].expires]), D \in Taken(old, data) :
          /\ receipt' = [b \in Batches |-> IF b \in R THEN None ELSE receipt[b]]
          /\ data' = [b \in Batches |-> IF b \in D THEN None ELSE data[b]]
    /\ status' = [c \in Classes |->
                    IF status[c] # None /\ Gone(status[c].expires, status[c].observed, p[c])
                    THEN None ELSE status[c]]
    /\ UNCHANGED <<clock, outbox, ex, net, tally, clashed, env, faults>>

Export(x) == \/ ExportBegin(x) \/ ExportSelect(x) \/ ExportSeal(x) \/ ExportSend(x)
             \/ ExportAcked(x)

Next == \/ Tick
        \/ \E w \in Windows : Count(w)
        \/ \E x \in Exporters : Export(x) \/ ExportDies(x)
        \/ \E e \in Events : Deliver(e)
        \/ \E r \in net : Admit(r) \/ Reject(r) \/ Ingest(r) \/ RequestFails(r)
        \/ \E ttl \in Retentions : Reconfigure(ttl)
        \/ ReadStatus \/ Purge

Spec == Init /\ [][Next]_vars

\* Cron keeps starting exports, calls end, and time goes on.
FairSpec == /\ Spec /\ WF_vars(Tick)
            /\ \A x \in Exporters : WF_vars(Export(x))
            /\ SF_vars(\E r \in net : r.from # None /\ Admit(r))
            /\ WF_vars(\E r \in net : r.from # None /\ (Reject(r) \/ Ingest(r)))

-----------------------------------------------------------------------------
(* Properties *)

TypeOK ==
    /\ clock \in 0..MaxTime
    /\ row \in [Windows -> [state : {"none", "open", "sealed", "sent"}, value : 0..MaxCount]]
    /\ recorded \in [Windows -> 0..MaxCount]
    /\ ex \in [Exporters -> [pc : {"idle", "select", "seal", "send", "wait", "acked"},
                             todo : SUBSET Windows]]
    /\ net \subseteq [from : Exporters \cup {None}, batch : Batches, value : Nat,
                      now : 0..MaxTime \cup {None}, ttl : Retentions \cup {None}]
    /\ env \in Retentions
    /\ policy \in [Classes -> [ttl : Retentions, cutoff : Int] \cup {None}]
    /\ receipt \in [Batches -> [value : Nat, expires : Int] \cup {None}]
    /\ data \in [Batches -> Int \cup {None}]
    /\ status \in [Classes -> [observed : Nat, expires : Int] \cup {None}]
    /\ tally \in [Batches -> Nat]
    /\ clashed \subseteq Batches
    /\ faults \in 0..MaxFaults

\* A retry never contradicts what was sent before: a window's content is final
\* from its first export on, so the collector never answers 409.
NeverClashes == clashed = {}

\* A window is marked sent only when the collector counted exactly its content,
\* whichever export and whichever retry got through.
SentIsCounted == \A w \in Windows : row[w].state = "sent" => tally[w] = recorded[w]

\* Each batch is counted once, whole, and its content is final by then, although
\* requests are retried, answers lost and receipts purged.
Content == [b \in Batches |-> IF b \in Events THEN 1 ELSE recorded[b]]
Ledger == INSTANCE DeliveryLedger WITH content <- Content, ledger <- tally
CountedOnce == Ledger!Spec

\* The status of a class is its newest accepted observation; once purged, every
\* accepted observation is behind the cutoff, so no older one brings it back.
Accepted(c) == {b \in Batches : Class(b) = c /\ tally[b] > 0}
StatusIsNewest ==
    \A c \in Classes : \A b \in Accepted(c) :
        IF status[c] # None THEN Observed(b) <= status[c].observed
        ELSE Observed(b) <= policy[c].cutoff

\* Every window that holds counts is sent or, after a day, pruned: no window
\* starves behind older ones, refusals or lost answers.
WindowResolved ==
    \A w \in Windows : row[w].state \in {"open", "sealed"} ~> row[w].state \in {"sent", "none"}
=============================================================================
