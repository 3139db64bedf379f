-------------------------- MODULE TelemetryProofs --------------------------
(* For every number of exports, windows, events, retries and failures, the    *)
(* outbox and the collector of Telemetry count each batch once and whole.    *)
EXTENDS Telemetry, WellFoundedInduction, TLAPS

-----------------------------------------------------------------------------
(* The inductive invariant. *)

\* The content of a window is final: it is sealed or sent, or pruned for good.
Final(w) == row[w].state \in {"sealed", "sent"} \/ (row[w].state = "none" /\ w + 2 <= clock)
Fixed(b) == b \in Windows => Final(b)
Truth(b) == IF b \in Windows THEN recorded[b] ELSE 1

Outbox ==
    \A w \in Windows :
        /\ row[w].state # "none" => row[w].value = recorded[w] /\ recorded[w] > 0
        /\ row[w].state = "none" => row[w].value = 0 /\ (recorded[w] = 0 \/ w + 2 <= clock)

\* An export past its selection works on closed windows; one that has gone
\* missing was pruned.
Exporting(x) ==
    /\ ex[x].pc = "select" => \A w \in ex[x].todo : w + 1 <= clock
    /\ ex[x].pc \notin {"idle", "select"} =>
          /\ ex[x].todo # {}
          /\ \A w \in ex[x].todo :
                w + 1 <= clock /\ (row[w].state = "none" => w + 2 <= clock)
    /\ ex[x].pc \in {"send", "wait", "acked"} => Final(Window(x))
    /\ ex[x].pc = "acked" => tally[Window(x)] = recorded[Window(x)]

\* A request carries the final content, and an export waits for one at most.
Sending(r) ==
    /\ Fixed(r.batch) /\ r.value = Truth(r.batch) /\ r.value > 0
    /\ r.now # None => r.ttl # None
    /\ r.from # None => ex[r.from].pc = "wait" /\ r.batch = Window(r.from)
OneEach == \A r, q \in net : r.from = q.from /\ r.from # None => r = q

\* What the collector holds of a batch is its content; what it counted and no
\* longer holds is behind the cutoff.
Counting ==
    \A b \in Batches :
        /\ receipt[b] # None => Fixed(b) /\ receipt[b].value = Truth(b)
        /\ data[b] # None => tally[b] > 0
        /\ tally[b] > 0 =>
              /\ Fixed(b) /\ tally[b] = Truth(b)
              /\ policy[Class(b)] # None
              /\ receipt[b] = None \/ data[b] = None =>
                    Observed(b) <= policy[Class(b)].cutoff

\* Nothing expires before the cutoff of the shortest retention can pass it.
Expiring ==
    /\ \A b \in Batches :
        /\ receipt[b] # None =>
              /\ policy[Class(b)] # None
              /\ receipt[b].expires >= Observed(b) + policy[Class(b)].ttl
        /\ data[b] # None =>
              /\ policy[Class(b)] # None
              /\ data[b] >= Observed(b) + policy[Class(b)].ttl
    /\ \A c \in Classes : status[c] # None =>
              /\ policy[c] # None
              /\ status[c].expires >= status[c].observed + policy[c].ttl

Exports == \A x \in Exporters : Exporting(x)
Requests == OneEach /\ \A r \in net : Sending(r)

IInv == /\ TypeOK /\ Outbox /\ Exports /\ Requests /\ Counting /\ Expiring
        /\ NeverClashes /\ SentIsCounted /\ StatusIsNewest

-----------------------------------------------------------------------------
(* Facts about the operators. *)
LEMMA LeastExists ==
    ASSUME NEW S, S \subseteq Nat, S # {}
    PROVE \E w \in S : \A v \in S : w <= v
<1> DEFINE R == OpToRel(<, Nat)
<1>1. \E x \in S : \A y \in S : ~ (<<y, x>> \in R)
  <2> HIDE DEF R
  <2>1. IsWellFoundedOn(R, Nat) BY NatLessThanWellFounded, Zenon DEF R
  <2>2. QED BY <2>1, WFMin, Zenon
<1>2. \A x, y \in Nat : x < y => <<x, y>> \in R BY SMT DEF R, OpToRel
<1> HIDE DEF R
<1>3. PICK x \in S : \A y \in S : ~ (<<y, x>> \in R) BY <1>1
<1>4. ASSUME NEW v \in S PROVE x <= v
  <2>1. x \in Nat /\ v \in Nat BY <1>3
  <2>2. ~(v < x) BY <1>2, <1>3, <2>1, Zenon
  <2>3. QED BY <2>1, <2>2
<1>5. QED BY <1>3, <1>4

LEMMA OldestIn ==
    ASSUME NEW S, S \subseteq Windows, S # {}
    PROVE Oldest(S) \in S
<1>1. S \subseteq Nat BY TelemetryAssumption DEF Windows
<1>2. \E w \in S : \A v \in S : w <= v BY <1>1, LeastExists
<1>3. QED BY <1>2, Zenon DEF Oldest

LEMMA WindowIn ==
    ASSUME TypeOK, NEW x \in Exporters, Exporting(x), ex[x].pc \notin {"idle", "select"}
    PROVE Window(x) \in ex[x].todo /\ Window(x) \in Windows
<1>1. ex[x].todo \subseteq Windows /\ ex[x].todo # {} BY DEF TypeOK, Exporting
<1>2. QED BY <1>1, OldestIn DEF Window

LEMMA BatchFacts ==
    ASSUME NEW b \in Batches
    PROVE /\ Observed(b) \in Nat /\ Class(b) \in Classes
          /\ b \in Windows => b \in Nat /\ b \notin Events /\ Class(b) = "metrics"
          /\ b \notin Windows => b \in Events /\ Class(b) = "lifecycle"
BY TelemetryAssumption DEF Batches, Windows, Observed, Class, Classes

\* A policy only tightens, and its cutoff is never earlier than its ttl asks.
LEMMA PolicyTightens ==
    ASSUME TypeOK, NEW c \in Classes, NEW ttl \in Retentions, NEW t \in Int
    PROVE /\ Policy(c, ttl, t) \in [ttl : Retentions, cutoff : Int]
          /\ Policy(c, ttl, t) # None
          /\ Policy(c, ttl, t).ttl <= ttl
          /\ Policy(c, ttl, t).cutoff >= t - Policy(c, ttl, t).ttl
          /\ policy[c] # None =>
                /\ policy[c] \in [ttl : Retentions, cutoff : Int]
                /\ Policy(c, ttl, t).ttl <= policy[c].ttl
                /\ Policy(c, ttl, t).cutoff >= policy[c].cutoff
<1>1. Retentions \subseteq Nat BY TelemetryAssumption
<1>2. None \notin [ttl : Retentions, cutoff : Int] BY <1>1, TelemetryAssumption
<1>3. policy[c] \in [ttl : Retentions, cutoff : Int] \cup {None} BY DEF TypeOK
<1>4. CASE policy[c] = None
  BY <1>1, <1>2, <1>4 DEF Policy
<1>5. CASE policy[c] # None
  <2> DEFINE least == Lesser(policy[c].ttl, ttl)
  <2>1. policy[c] \in [ttl : Retentions, cutoff : Int] BY <1>3, <1>5
  <2>2. least \in Retentions /\ least <= ttl /\ least <= policy[c].ttl
    <3>1. policy[c].ttl \in Retentions /\ policy[c].ttl \in Nat /\ ttl \in Nat BY <1>1, <2>1
    <3>2. CASE policy[c].ttl < ttl BY <3>1, <3>2 DEF Lesser
    <3>3. CASE ~(policy[c].ttl < ttl) BY <3>1, <3>3 DEF Lesser
    <3>4. QED BY <3>2, <3>3
  <2>3. Policy(c, ttl, t) = [ttl |-> least, cutoff |-> Greater(policy[c].cutoff, t - least)]
    BY <1>5 DEF Policy
  <2> HIDE DEF least
  <2>4. /\ Greater(policy[c].cutoff, t - least) \in Int
        /\ Greater(policy[c].cutoff, t - least) >= t - least
        /\ Greater(policy[c].cutoff, t - least) >= policy[c].cutoff
    BY <1>1, <2>1, <2>2 DEF Greater
  <2>5. QED BY <1>1, <1>2, <2>1, <2>2, <2>3, <2>4
<1>6. QED BY <1>4, <1>5

-----------------------------------------------------------------------------
(* What steps have in common: final content stays. *)
Stable == \A w \in Windows : Final(w) => Final(w)' /\ recorded'[w] = recorded[w]

LEMMA CollectorKept ==
    ASSUME IInv, Stable, UNCHANGED store
    PROVE Counting' /\ Expiring' /\ NeverClashes' /\ StatusIsNewest'
<1>1. \A b \in Batches : Fixed(b) => Fixed(b)' /\ Truth(b)' = Truth(b)
  BY DEF Stable, Fixed, Truth
<1>2. Counting' BY <1>1 DEF IInv, Counting, store
<1>3. Expiring' BY DEF IInv, Expiring, store
<1>4. NeverClashes' /\ StatusIsNewest' BY DEF IInv, NeverClashes, StatusIsNewest, Accepted, store
<1>5. QED BY <1>2, <1>3, <1>4

LEMMA ExportKept ==
    ASSUME IInv, Stable, clock' \in Nat, clock' >= clock,
           \A w \in Windows : row'[w].state = "none" => row[w].state = "none" \/ w + 2 <= clock',
           \A w \in Windows : Final(w) /\ tally[w] = recorded[w] => tally'[w] = recorded'[w],
           NEW x \in Exporters, ex'[x] = ex[x]
    PROVE Exporting(x)'
<1>1. Exporting(x) /\ ex[x].todo \subseteq Windows /\ clock \in Nat
  BY TelemetryAssumption DEF IInv, Exports, TypeOK
<1>2. \A w \in Windows : w \in Nat BY TelemetryAssumption DEF Windows
<1>3. Window(x)' = Window(x) BY DEF Window
<1>4. ex[x].pc \notin {"idle", "select"} => Window(x) \in Windows BY <1>1, WindowIn DEF IInv
<1>5. ex[x].pc = "select" => \A w \in ex[x].todo : w + 1 <= clock'
  BY <1>1, <1>2 DEF Exporting
<1>6. ASSUME ex[x].pc \notin {"idle", "select"}, NEW w \in ex[x].todo
      PROVE w + 1 <= clock' /\ (row'[w].state = "none" => w + 2 <= clock')
  BY <1>1, <1>2, <1>6 DEF Exporting
<1>7. ex[x].pc \in {"send", "wait", "acked"} => Final(Window(x))'
  <2>1. SUFFICES ASSUME ex[x].pc \in {"send", "wait", "acked"} PROVE Final(Window(x))' OBVIOUS
  <2>2. Window(x) \in Windows /\ Final(Window(x)) BY <1>1, <1>4, <2>1 DEF Exporting
  <2> DEFINE w == Window(x)
  <2>3. Final(w)' BY <1>3, <2>2 DEF Stable, Final
  <2>4. QED BY <1>3, <2>3
<1>8. ex[x].pc = "acked" => tally'[Window(x)] = recorded'[Window(x)]
  BY <1>1, <1>4 DEF Exporting
<1>9. QED BY <1>1, <1>3, <1>5, <1>6, <1>7, <1>8 DEF Exporting

LEMMA RequestKept ==
    ASSUME IInv, Stable, NEW r \in net,
           r.from # None => ex'[r.from] = ex[r.from]
    PROVE Sending(r)'
<1>1. Sending(r) /\ r.batch \in Batches BY DEF IInv, Requests, TypeOK
<1>2. Fixed(r.batch)' /\ Truth(r.batch)' = Truth(r.batch)
  BY <1>1 DEF Stable, Sending, Fixed, Truth
<1>3. r.from # None => Window(r.from)' = Window(r.from) BY DEF Window
<1>4. QED BY <1>1, <1>2, <1>3 DEF Sending

LEMMA RequestsKept ==
    ASSUME IInv, Stable, net' \subseteq net,
           \A r \in net' : r.from # None => ex'[r.from] = ex[r.from]
    PROVE Requests'
<1>1. ASSUME NEW r \in net' PROVE Sending(r)'
  BY <1>1, RequestKept
<1>2. OneEach' BY DEF IInv, Requests, OneEach
<1>3. QED BY <1>1, <1>2 DEF Requests

LEMMA Times ==
    ASSUME TypeOK
    PROVE /\ clock \in Nat /\ \A w \in Windows : w \in Nat
          /\ MaxTime \in Nat /\ MaxCount \in Nat \ {0} /\ OutboxTTL \in Nat /\ OutboxTTL >= 2
BY TelemetryAssumption DEF TypeOK, Windows

-----------------------------------------------------------------------------
(* The outbox. *)
LEMMA TickKeeps ==
    ASSUME IInv, Tick
    PROVE IInv'
<1>1. clock' = clock + 1 /\ clock \in Nat /\ clock' \in 0..MaxTime /\ \A w \in Windows : w \in Nat
  BY Times DEF IInv, Tick, TypeOK
<1>2. UNCHANGED <<outbox, ex, net, store, env, faults>> BY DEF Tick
<1>3. TypeOK' BY <1>1, <1>2 DEF IInv, TypeOK, outbox, store
<1>4. Stable BY <1>1, <1>2 DEF Stable, Final, outbox
<1>5. Outbox' BY <1>1, <1>2 DEF IInv, Outbox, outbox
<1>6. Exports'
  <2>1. ASSUME NEW x \in Exporters PROVE Exporting(x)'
    BY <1>1, <1>2, <1>4, ExportKept DEF outbox, store
  <2>2. QED BY <2>1 DEF Exports
<1>7. Requests' BY <1>2, <1>4, RequestsKept
<1>8. SentIsCounted' BY <1>2 DEF IInv, SentIsCounted, outbox, store
<1>9. QED BY <1>2, <1>3, <1>4, <1>5, <1>6, <1>7, <1>8, CollectorKept DEF IInv

LEMMA CountKeeps ==
    ASSUME IInv, NEW w \in Windows, Count(w)
    PROVE IInv'
<1>1. /\ clock \in Nat /\ MaxCount \in Nat \ {0} /\ \A v \in Windows : v \in Nat
      /\ clock' = clock
  BY Times DEF IInv, Count
<1>2. UNCHANGED <<ex, net, store, env, faults>> BY DEF Count
<1>3. /\ row \in [Windows -> [state : {"none", "open", "sealed", "sent"}, value : 0..MaxCount]]
      /\ recorded \in [Windows -> 0..MaxCount]
  BY DEF IInv, TypeOK
<1>4. row[w].state \in {"none", "open"} /\ ~Final(w)
  BY <1>1 DEF Count, TakesCounts, Final
<1>5. /\ row' = [row EXCEPT ![w] = row'[w]]
      /\ row'[w] \in [state : {"open"}, value : 1..MaxCount]
  <2>1. CASE row' = [row EXCEPT ![w] = [state |-> "open", value |-> 1]]
    BY <1>1, <1>3, <2>1
  <2>2. CASE TakesCounts(row[w]) /\ row' = [row EXCEPT ![w] = Counted(row[w])]
    <3>1. Counted(row[w]) \in [state : {"open"}, value : 1..MaxCount]
      BY <1>1, <1>3, <2>2 DEF Counted, TakesCounts, Lesser
    <3>2. QED BY <1>3, <2>2, <3>1
  <2>3. QED BY <2>1, <2>2 DEF Count
<1>6. recorded' = [recorded EXCEPT ![w] = row'[w].value] BY DEF Count
<1>7. TypeOK' BY <1>1, <1>2, <1>3, <1>5, <1>6 DEF IInv, TypeOK, store
<1>8. Stable BY <1>1, <1>3, <1>4, <1>5, <1>6 DEF Stable, Final
<1>9. Outbox' BY <1>1, <1>3, <1>5, <1>6 DEF IInv, Outbox
<1>10. \A v \in Windows : row'[v].state = "none" => row[v].state = "none"
  BY <1>3, <1>5
<1>11. Exports'
  <2>1. \A v \in Windows : Final(v) /\ tally[v] = recorded[v] => tally'[v] = recorded'[v]
    BY <1>2, <1>8 DEF Stable, store
  <2>2. ASSUME NEW x \in Exporters PROVE Exporting(x)'
    <3>1. ex'[x] = ex[x] BY <1>2
    <3>2. QED BY <1>1, <1>8, <1>10, <2>1, <3>1, ExportKept
  <2>3. QED BY <2>2 DEF Exports
<1>12. Requests' BY <1>2, <1>8, RequestsKept
<1>13. SentIsCounted'
  <2>1. ASSUME NEW v \in Windows, row'[v].state = "sent" PROVE tally'[v] = recorded'[v]
    BY <1>2, <1>3, <1>5, <1>6, <2>1 DEF IInv, SentIsCounted, store
  <2>2. QED BY <2>1 DEF SentIsCounted
<1>14. QED BY <1>2, <1>7, <1>8, <1>9, <1>11, <1>12, <1>13, CollectorKept DEF IInv

LEMMA ExportBeginKeeps ==
    ASSUME IInv, NEW x \in Exporters, ExportBegin(x)
    PROVE IInv'
<1>1. /\ clock \in Nat /\ OutboxTTL \in Nat /\ OutboxTTL >= 2 /\ MaxCount \in Nat \ {0}
      /\ \A v \in Windows : v \in Nat
  BY Times DEF IInv
<1>2. UNCHANGED <<clock, recorded, net, store, env, faults>> BY DEF ExportBegin
<1>3. row' = [w \in Windows |-> IF w + OutboxTTL <= clock THEN NoRow ELSE row[w]]
  BY DEF ExportBegin
<1>4. ex' = [ex EXCEPT ![x] = [pc |-> "select", todo |-> {w \in Windows : w + 1 <= clock}]]
  BY DEF ExportBegin
<1>5. TypeOK'
  <2>1. row' \in [Windows -> [state : {"none", "open", "sealed", "sent"}, value : 0..MaxCount]]
    BY <1>1, <1>3 DEF IInv, TypeOK, NoRow
  <2>2. QED BY <1>2, <1>4, <2>1 DEF IInv, TypeOK, store
<1>6. \A w \in Windows : row'[w] = row[w] \/ (w + 2 <= clock /\ row'[w] = NoRow)
  BY <1>1, <1>3
<1>7. Stable BY <1>1, <1>2, <1>6 DEF Stable, Final, NoRow
<1>8. Outbox' BY <1>1, <1>2, <1>6 DEF IInv, Outbox, NoRow
<1>9. \A w \in Windows : row'[w].state = "none" => row[w].state = "none" \/ w + 2 <= clock
  BY <1>6
<1>10. Exports'
  <2>1. \A w \in Windows : Final(w) /\ tally[w] = recorded[w] => tally'[w] = recorded'[w]
    BY <1>2 DEF store
  <2>2. ASSUME NEW y \in Exporters PROVE Exporting(y)'
    <3>1. CASE y = x BY <1>2, <1>4, <3>1 DEF Exporting, IInv, TypeOK
    <3>2. CASE y # x
      <4>1. ex'[y] = ex[y] BY <1>4, <3>2
      <4>2. QED BY <1>1, <1>2, <1>7, <1>9, <2>1, <4>1, ExportKept
    <3>3. QED BY <3>1, <3>2
  <2>3. QED BY <2>2 DEF Exports
<1>11. Requests'
  <2>1. ASSUME NEW r \in net', r.from # None PROVE ex'[r.from] = ex[r.from]
    <3>1. r \in net BY <1>2
    <3>2. ex[r.from].pc = "wait" BY <2>1, <3>1 DEF IInv, Requests, Sending
    <3>3. ex[x].pc = "idle" BY DEF ExportBegin
    <3>4. QED BY <1>4, <3>2, <3>3
  <2>2. QED BY <1>2, <1>7, <2>1, RequestsKept
<1>12. SentIsCounted' BY <1>2, <1>6 DEF IInv, SentIsCounted, store, NoRow
<1>13. QED BY <1>2, <1>5, <1>7, <1>8, <1>10, <1>11, <1>12, CollectorKept DEF IInv

\* A step of an export that waits for nobody and writes no row.
LEMMA ExportMoves ==
    ASSUME IInv, NEW x \in Exporters, NEW e, ex[x].pc # "wait",
           ex' = [ex EXCEPT ![x] = e],
           e \in [pc : {"idle", "select", "seal", "send", "wait", "acked"}, todo : SUBSET Windows],
           UNCHANGED <<clock, outbox, net, store, env>>, faults' \in 0..MaxFaults, Exporting(x)'
    PROVE IInv'
<1>1. clock \in Nat /\ clock' \in Nat /\ clock' = clock BY Times DEF IInv
<1>2. TypeOK' BY DEF IInv, TypeOK, outbox, store
<1>3. Stable BY <1>1 DEF Stable, Final, outbox
<1>4. Outbox' BY <1>1 DEF IInv, Outbox, outbox
<1>5. Exports'
  <2>1. ASSUME NEW y \in Exporters, y # x PROVE Exporting(y)'
    <3>1. ex'[y] = ex[y] BY <2>1
    <3>2. \A w \in Windows : /\ row'[w] = row[w] /\ tally'[w] = tally[w]
                             /\ recorded'[w] = recorded[w]
      BY DEF outbox, store
    <3>3. QED BY <1>1, <1>3, <3>1, <3>2, ExportKept
  <2>2. QED BY <2>1 DEF Exports
<1>6. Requests'
  <2>1. ASSUME NEW r \in net', r.from # None PROVE ex'[r.from] = ex[r.from]
    <3>1. ex[r.from].pc = "wait" BY <2>1 DEF IInv, Requests, Sending
    <3>2. QED BY <3>1
  <2>2. QED BY <1>3, <2>1, RequestsKept
<1>7. SentIsCounted' BY DEF IInv, SentIsCounted, outbox, store
<1>8. QED BY <1>2, <1>3, <1>4, <1>5, <1>6, <1>7, CollectorKept DEF IInv

\* Going on to windows that are closed, and missing only when pruned.
LEMMA GoesOn ==
    ASSUME TypeOK, NEW x \in Exporters, NEW todo, todo \subseteq Windows, Goes(x, todo),
           \A w \in todo : w + 1 <= clock' /\ (row'[w].state = "none" => w + 2 <= clock')
    PROVE /\ Exporting(x)'
          /\ \E e \in [pc : {"idle", "seal"}, todo : SUBSET Windows] : ex' = [ex EXCEPT ![x] = e]
<1>1. ex \in [Exporters -> [pc : {"idle", "select", "seal", "send", "wait", "acked"},
                            todo : SUBSET Windows]]
  BY DEF TypeOK
<1>2. CASE todo = {}
  <2>1. ex' = [ex EXCEPT ![x] = Idle] BY <1>2 DEF Goes
  <2>2. ex'[x].pc = "idle" BY <1>1, <2>1 DEF Idle
  <2>3. Idle \in [pc : {"idle", "seal"}, todo : SUBSET Windows] BY DEF Idle
  <2>4. QED BY <2>1, <2>2, <2>3 DEF Exporting
<1>3. CASE todo # {}
  <2>1. ex' = [ex EXCEPT ![x] = [pc |-> "seal", todo |-> todo]] BY <1>3 DEF Goes
  <2>2. ex'[x].pc = "seal" /\ ex'[x].todo = todo BY <1>1, <2>1
  <2>3. QED BY <1>3, <2>1, <2>2 DEF Exporting
<1>4. QED BY <1>2, <1>3

LEMMA ExportSelectKeeps ==
    ASSUME IInv, NEW x \in Exporters, ExportSelect(x)
    PROVE IInv'
<1> DEFINE todo == OldestOf(Unsent(x))
<1>1. /\ ex[x].pc = "select" /\ Goes(x, todo)
      /\ UNCHANGED <<clock, outbox, net, store, env, faults>>
  BY DEF ExportSelect
<1>2. ex[x].todo \subseteq Windows BY DEF IInv, TypeOK
<1>3. todo \subseteq Unsent(x) BY DEF OldestOf
<1>4. \A w \in todo : w \in ex[x].todo /\ row[w].state \in {"open", "sealed"}
  BY <1>3 DEF Unsent
<1>5. \A w \in todo : w + 1 <= clock BY <1>1, <1>4 DEF IInv, Exports, Exporting
<1> HIDE DEF todo
<1>6. Exporting(x)' /\ \E e \in [pc : {"idle", "seal"}, todo : SUBSET Windows] :
                           ex' = [ex EXCEPT ![x] = e]
  <2>1. TypeOK /\ todo \subseteq Windows BY <1>2, <1>4 DEF IInv
  <2>2. \A w \in todo : w + 1 <= clock' /\ (row'[w].state = "none" => w + 2 <= clock')
    BY <1>1, <1>4, <1>5 DEF outbox
  <2>3. QED BY <1>1, <2>1, <2>2, GoesOn
<1>7. PICK e \in [pc : {"idle", "seal"}, todo : SUBSET Windows] : ex' = [ex EXCEPT ![x] = e]
  BY <1>6
<1>8. faults' \in 0..MaxFaults BY <1>1 DEF IInv, TypeOK
<1>9. QED BY <1>1, <1>6, <1>7, <1>8, ExportMoves

\* A step of an export that moves the row of one window on, its content as it is.
LEMMA RowMoves ==
    ASSUME IInv, NEW x \in Exporters, NEW w \in Windows, NEW r, ex[x].pc # "wait",
           row' = [row EXCEPT ![w] = r],
           r \in [state : {"none", "open", "sealed", "sent"}, value : 0..MaxCount],
           r.value = row[w].value, r.state = "none" <=> row[w].state = "none",
           row[w].state \in {"sealed", "sent"} => r.state \in {"sealed", "sent"},
           r.state = "sent" => tally[w] = recorded[w],
           UNCHANGED <<clock, recorded, net, store, env, faults>>,
           ex' \in [Exporters -> [pc : {"idle", "select", "seal", "send", "wait", "acked"},
                                  todo : SUBSET Windows]],
           \A y \in Exporters : y # x => ex'[y] = ex[y], Exporting(x)'
    PROVE IInv'
<1>1. clock \in Nat /\ clock' \in Nat /\ clock' = clock /\ \A v \in Windows : v \in Nat
  BY Times DEF IInv
<1>2. row \in [Windows -> [state : {"none", "open", "sealed", "sent"}, value : 0..MaxCount]]
  BY DEF IInv, TypeOK
<1>3. row'[w] = r /\ \A v \in Windows : v # w => row'[v] = row[v] BY <1>2
<1>4. TypeOK'
  <2>1. row' \in [Windows -> [state : {"none", "open", "sealed", "sent"}, value : 0..MaxCount]]
    BY <1>2
  <2>2. QED BY <2>1 DEF IInv, TypeOK, store
<1>5. Stable BY <1>1, <1>3 DEF Stable, Final
<1>6. Outbox' BY <1>1, <1>3 DEF IInv, Outbox
<1>7. Exports'
  <2>1. \A v \in Windows : row'[v].state = "none" => row[v].state = "none" BY <1>3
  <2>2. \A v \in Windows : tally'[v] = tally[v] /\ recorded'[v] = recorded[v] BY DEF store
  <2>3. ASSUME NEW y \in Exporters, y # x PROVE Exporting(y)'
    <3>1. ex'[y] = ex[y] BY <2>3
    <3>2. QED BY <1>1, <1>5, <2>1, <2>2, <3>1, ExportKept
  <2>4. QED BY <2>3 DEF Exports
<1>8. Requests'
  <2>1. ASSUME NEW q \in net', q.from # None PROVE ex'[q.from] = ex[q.from]
    <3>1. q \in net /\ q.from \in Exporters BY <2>1 DEF IInv, TypeOK
    <3>2. ex[q.from].pc = "wait" BY <2>1, <3>1 DEF IInv, Requests, Sending
    <3>3. QED BY <3>1, <3>2
  <2>2. QED BY <1>5, <2>1, RequestsKept
<1>9. SentIsCounted' BY <1>3 DEF IInv, SentIsCounted, store
<1>10. QED BY <1>4, <1>5, <1>6, <1>7, <1>8, <1>9, CollectorKept DEF IInv

LEMMA ExportSealKeeps ==
    ASSUME IInv, NEW x \in Exporters, ExportSeal(x)
    PROVE IInv'
<1> DEFINE w == Window(x)
           r == Sealed(row[w])
<1>1. /\ ex[x].pc = "seal" /\ row' = [row EXCEPT ![w] = r] /\ ex' = [ex EXCEPT ![x].pc = "send"]
      /\ UNCHANGED <<clock, recorded, net, store, env, faults>>
  BY DEF ExportSeal
<1>2. w \in ex[x].todo /\ w \in Windows /\ Exporting(x) BY <1>1, WindowIn DEF IInv, Exports
<1>3. row[w] \in [state : {"none", "open", "sealed", "sent"}, value : 0..MaxCount]
  BY <1>2 DEF IInv, TypeOK
<1>4. /\ r \in [state : {"none", "open", "sealed", "sent"}, value : 0..MaxCount]
      /\ r.value = row[w].value /\ (r.state = "none" <=> row[w].state = "none")
      /\ row[w].state \in {"sealed", "sent"} => r.state = row[w].state
      /\ r.state = "sent" => row[w].state = "sent"
      /\ r.state # "open"
  BY <1>3 DEF Sealed
<1>5. r.state = "sent" => tally[w] = recorded[w] BY <1>2, <1>4 DEF IInv, SentIsCounted
<1>6. /\ ex'[x] = [pc |-> "send", todo |-> ex[x].todo]
      /\ \A y \in Exporters : y # x => ex'[y] = ex[y]
      /\ ex' \in [Exporters -> [pc : {"idle", "select", "seal", "send", "wait", "acked"},
                                todo : SUBSET Windows]]
  BY <1>1 DEF IInv, TypeOK
<1>7. Exporting(x)'
  <2>1. Window(x)' = w BY <1>6 DEF Window
  <2>2. \A v \in ex[x].todo : v + 1 <= clock /\ (row'[v].state = "none" => v + 2 <= clock)
    <3>1. \A v \in ex[x].todo : v \in Windows BY DEF IInv, TypeOK
    <3>2. \A v \in Windows : row'[v].state = "none" => row[v].state = "none"
      BY <1>1, <1>4, <1>2 DEF IInv, TypeOK
    <3>3. QED BY <1>1, <1>2, <3>1, <3>2 DEF Exporting
  <2>3. row'[w] = r BY <1>1, <1>2 DEF IInv, TypeOK
  <2>4. r.state \in {"sealed", "sent"} \/ w + 2 <= clock BY <1>2, <1>3, <1>4, <2>2, <2>3
  <2>5. row'[w].state \in {"sealed", "sent"} \/ (row'[w].state = "none" /\ w + 2 <= clock)
    BY <1>3, <1>4, <2>3, <2>4
  <2>6. Final(Window(x))' BY <1>1, <2>1, <2>5 DEF Final
  <2> HIDE DEF w, r
  <2>7. QED BY <1>1, <1>2, <1>6, <2>2, <2>6 DEF Exporting
<1>8. ex[x].pc # "wait" BY <1>1
<1> HIDE DEF w, r
<1>9. QED BY <1>1, <1>2, <1>4, <1>5, <1>6, <1>7, <1>8, RowMoves

LEMMA ExportAckedKeeps ==
    ASSUME IInv, NEW x \in Exporters, ExportAcked(x)
    PROVE IInv'
<1> DEFINE w == Window(x)
           r == SentRow(row[w])
           todo == ex[x].todo \ {w}
<1>1. /\ ex[x].pc = "acked" /\ row' = [row EXCEPT ![w] = r] /\ Goes(x, todo)
      /\ UNCHANGED <<clock, recorded, net, store, env, faults>>
  BY DEF ExportAcked
<1>2. w \in ex[x].todo /\ w \in Windows /\ Exporting(x) BY <1>1, WindowIn DEF IInv, Exports
<1>3. row[w] \in [state : {"none", "open", "sealed", "sent"}, value : 0..MaxCount]
  BY <1>2 DEF IInv, TypeOK
<1>4. /\ r \in [state : {"none", "open", "sealed", "sent"}, value : 0..MaxCount]
      /\ r.value = row[w].value /\ (r.state = "none" <=> row[w].state = "none")
      /\ row[w].state \in {"sealed", "sent"} => r.state \in {"sealed", "sent"}
  BY <1>3 DEF SentRow
<1>5. tally[w] = recorded[w] BY <1>1, <1>2 DEF Exporting
<1>6. todo \subseteq Windows BY DEF IInv, TypeOK
<1>7. \A v \in todo : v + 1 <= clock' /\ (row'[v].state = "none" => v + 2 <= clock')
  <2>1. \A v \in todo : v # w /\ v \in Windows /\ row'[v] = row[v] BY <1>1, <1>6 DEF IInv, TypeOK
  <2>2. QED BY <1>1, <1>2, <2>1 DEF Exporting
<1> HIDE DEF w, r, todo
<1>8. Exporting(x)' /\ \E e \in [pc : {"idle", "seal"}, todo : SUBSET Windows] :
                           ex' = [ex EXCEPT ![x] = e]
  BY <1>1, <1>6, <1>7, GoesOn DEF IInv
<1>9. /\ \A y \in Exporters : y # x => ex'[y] = ex[y]
      /\ ex' \in [Exporters -> [pc : {"idle", "select", "seal", "send", "wait", "acked"},
                                todo : SUBSET Windows]]
  BY <1>8 DEF IInv, TypeOK
<1>10. ex[x].pc # "wait" BY <1>1
<1>11. QED BY <1>1, <1>2, <1>4, <1>5, <1>8, <1>9, <1>10, RowMoves

LEMMA ExportSendKeeps ==
    ASSUME IInv, NEW x \in Exporters, ExportSend(x)
    PROVE IInv'
<1>1. ex[x].pc = "send" /\ UNCHANGED <<clock, outbox, store, env, faults>> BY DEF ExportSend
<1>a. PICK w \in Windows : w = Window(x) BY <1>1, WindowIn DEF IInv, Exports
<1>2. w \in ex[x].todo /\ Exporting(x) BY <1>1, <1>a, WindowIn DEF IInv, Exports
<1>3. Final(w) BY <1>1, <1>2, <1>a DEF Exporting
<1>4. clock \in Nat /\ clock' = clock /\ faults' \in 0..MaxFaults
  BY <1>1, Times DEF IInv, TypeOK
<1>5. CASE row[w].value = 0
  <2> DEFINE todo == ex[x].todo \ {w}
  <2>1. Goes(x, todo) /\ UNCHANGED net BY <1>5, <1>a DEF ExportSend
  <2>2. todo \subseteq Windows BY DEF IInv, TypeOK
  <2>3. \A v \in todo : v + 1 <= clock' /\ (row'[v].state = "none" => v + 2 <= clock')
    BY <1>1, <1>2 DEF Exporting, outbox
  <2> HIDE DEF todo
  <2>4. Exporting(x)' /\ \E e \in [pc : {"idle", "seal"}, todo : SUBSET Windows] :
                             ex' = [ex EXCEPT ![x] = e]
    BY <2>1, <2>2, <2>3, GoesOn DEF IInv
  <2>5. PICK e \in [pc : {"idle", "seal"}, todo : SUBSET Windows] : ex' = [ex EXCEPT ![x] = e]
    BY <2>4
  <2>6. QED BY <1>1, <1>4, <2>1, <2>4, <2>5, ExportMoves
<1>6. CASE row[w].value # 0
  <2>a. PICK q : q = Request(x, w, row[w].value) OBVIOUS
  <2>1. net' = net \cup {q} /\ ex' = [ex EXCEPT ![x].pc = "wait"]
    BY <1>6, <1>a, <2>a DEF ExportSend
  <2>2. /\ row[w].value \in Nat /\ row[w].value > 0 /\ row[w].value = recorded[w]
    BY <1>2, <1>6, TelemetryAssumption DEF IInv, TypeOK, Outbox
  <2>3. /\ ex'[x] = [pc |-> "wait", todo |-> ex[x].todo]
        /\ \A y \in Exporters : y # x => ex'[y] = ex[y]
        /\ ex' \in [Exporters -> [pc : {"idle", "select", "seal", "send", "wait", "acked"},
                                  todo : SUBSET Windows]]
    BY <2>1 DEF IInv, TypeOK
  <2>4. /\ q.from = x /\ q.batch = w /\ q.value = row[w].value /\ q.now = None /\ q.ttl = None
        /\ q \in [from : Exporters \cup {None}, batch : Batches, value : Nat,
                  now : 0..MaxTime \cup {None}, ttl : Retentions \cup {None}]
    BY <1>2, <2>2, <2>a DEF Request, Batches
  <2>5. TypeOK' BY <1>1, <1>4, <2>1, <2>3, <2>4 DEF IInv, TypeOK, outbox, store
  <2>6. Stable BY <1>1, <1>4 DEF Stable, Final, outbox
  <2>7. Window(x)' = w BY <1>a, <2>3 DEF Window
  <2>8. Exporting(x)'
    <3>1. Final(Window(x))' BY <1>1, <1>3, <2>7 DEF Final, outbox
    <3>2. QED BY <1>1, <1>2, <2>3, <3>1 DEF Exporting, outbox
  <2>9. Exports'
    <3>1. \A v \in Windows : /\ row'[v] = row[v] /\ tally'[v] = tally[v]
                             /\ recorded'[v] = recorded[v]
      BY <1>1 DEF outbox, store
    <3>2. ASSUME NEW y \in Exporters, y # x PROVE Exporting(y)'
      <4>1. ex'[y] = ex[y] BY <2>3, <3>2
      <4>2. QED BY <1>4, <2>6, <3>1, <4>1, ExportKept
    <3>3. QED BY <2>8, <3>2 DEF Exports
  <2>10. ASSUME NEW r \in net PROVE r.from # x
    BY <1>1, <2>10, TelemetryAssumption DEF IInv, Requests, Sending
  <2>11. ASSUME NEW r \in net PROVE Sending(r)'
    <3>1. r.from # None => ex'[r.from] = ex[r.from]
      BY <2>3, <2>10, <2>11 DEF IInv, TypeOK
    <3>2. QED BY <2>6, <3>1, RequestKept
  <2>12. Sending(q)'
    <3>1. Fixed(w)' /\ Truth(w)' = recorded[w] BY <1>1, <1>2, <1>3 DEF Fixed, Truth, Final, outbox
    <3>2. QED BY <2>2, <2>3, <2>4, <2>7, <3>1 DEF Sending
  <2>13. Requests' BY <2>1, <2>4, <2>10, <2>11, <2>12 DEF IInv, Requests, OneEach
  <2>14. Outbox' /\ SentIsCounted' BY <1>1 DEF IInv, Outbox, SentIsCounted, outbox, store
  <2>15. QED BY <1>1, <2>5, <2>6, <2>9, <2>13, <2>14, CollectorKept DEF IInv
<1>7. QED BY <1>5, <1>6

\* An export that dies leaves its request behind as nobody's.
LEMMA ExportDiesKeeps ==
    ASSUME IInv, NEW x \in Exporters, ExportDies(x)
    PROVE IInv'
<1>1. /\ ex' = [ex EXCEPT ![x] = Idle] /\ UNCHANGED <<clock, outbox, env, store>>
      /\ faults' \in 0..MaxFaults
      /\ net' = {IF r.from = x THEN [r EXCEPT !.from = None] ELSE r : r \in net}
  <2>1. faults < MaxFaults /\ faults' = faults + 1 /\ faults \in 0..MaxFaults
    BY DEF ExportDies, Fault, IInv, TypeOK
  <2>2. MaxFaults \in Nat BY TelemetryAssumption
  <2>3. faults' \in 0..MaxFaults BY <2>1, <2>2
  <2>4. QED BY <2>3 DEF ExportDies
<1>2. clock \in Nat /\ clock' = clock BY <1>1, Times DEF IInv
<1>3. Stable BY <1>1, <1>2 DEF Stable, Final, outbox
<1>4. ex'[x] = Idle /\ \A y \in Exporters : y # x => ex'[y] = ex[y]
  BY <1>1 DEF IInv, TypeOK
<1>5. \A q \in net' : \E r \in net :
        q = (IF r.from = x THEN [r EXCEPT !.from = None] ELSE r)
  BY <1>1
<1>6. TypeOK'
  <2> DEFINE NetType == [from : Exporters \cup {None}, batch : Batches, value : Nat,
                         now : 0..MaxTime \cup {None}, ttl : Retentions \cup {None}]
  <2>1. ASSUME NEW q \in net' PROVE q \in NetType
    <3>1. PICK r \in net : q = (IF r.from = x THEN [r EXCEPT !.from = None] ELSE r)
      BY <1>5
    <3>2. r \in NetType BY DEF IInv, TypeOK
    <3>3. QED BY <3>1, <3>2
  <2>2. ex' \in [Exporters -> [pc : {"idle", "select", "seal", "send", "wait", "acked"},
                               todo : SUBSET Windows]]
    BY <1>1 DEF IInv, TypeOK, Idle
  <2>3. QED BY <1>1, <1>2, <2>1, <2>2 DEF IInv, TypeOK, outbox, store
<1>7. Exports'
  <2>1. \A v \in Windows : /\ row'[v] = row[v] /\ tally'[v] = tally[v]
                           /\ recorded'[v] = recorded[v]
    BY <1>1 DEF outbox, store
  <2>2. ASSUME NEW y \in Exporters PROVE Exporting(y)'
    <3>1. CASE y = x BY <1>4, <3>1 DEF Exporting, Idle
    <3>2. CASE y # x BY <1>2, <1>3, <1>4, <2>1, <3>2, ExportKept
    <3>3. QED BY <3>1, <3>2
  <2>3. QED BY <2>2 DEF Exports
<1>8. Requests'
  <2>1. ASSUME NEW q \in net' PROVE Sending(q)' /\ (q.from # None => q \in net /\ q.from # x)
    <3>1. PICK r \in net : q = (IF r.from = x THEN [r EXCEPT !.from = None] ELSE r)
      BY <1>5
    <3>2. r.from \in Exporters \cup {None} /\ r.batch \in Batches BY DEF IInv, TypeOK
    <3>3. CASE r.from = x
      <4>1. /\ q.from = None /\ q.batch = r.batch /\ q.value = r.value
            /\ q.now = r.now /\ q.ttl = r.ttl
        BY <3>1, <3>3 DEF IInv, TypeOK
      <4>2. Sending(r) BY DEF IInv, Requests
      <4>3. Fixed(r.batch)' /\ Truth(r.batch)' = Truth(r.batch)
        BY <1>3, <3>2, <4>2 DEF Stable, Sending, Fixed, Truth
      <4>4. QED BY <4>1, <4>2, <4>3 DEF Sending
    <3>4. CASE r.from # x
      <4>1. q = r BY <3>1, <3>4
      <4>2. r.from # None => ex'[r.from] = ex[r.from] BY <1>4, <3>2, <3>4
      <4>3. Sending(r)' BY <1>3, <4>2, RequestKept
      <4>4. QED BY <3>4, <4>1, <4>3
    <3>5. QED BY <3>3, <3>4
  <2>2. OneEach' BY <2>1 DEF IInv, Requests, OneEach
  <2>3. QED BY <2>1, <2>2 DEF Requests
<1>9. Outbox' /\ SentIsCounted' BY <1>1, <1>2 DEF IInv, Outbox, SentIsCounted, outbox, store
<1>10. QED BY <1>1, <1>3, <1>6, <1>7, <1>8, <1>9, CollectorKept DEF IInv

-----------------------------------------------------------------------------
(* The collector. *)
LEMMA DeliverKeeps ==
    ASSUME IInv, NEW e \in Events, Deliver(e)
    PROVE IInv'
<1>1. PICK q : q = Request(None, e, 1) OBVIOUS
<1>2. net' = net \cup {q} /\ UNCHANGED <<clock, outbox, ex, store, env, faults>>
  BY <1>1 DEF Deliver
<1>3. /\ q.from = None /\ q.batch = e /\ q.value = 1 /\ q.now = None
      /\ q \in [from : Exporters \cup {None}, batch : Batches, value : Nat,
                now : 0..MaxTime \cup {None}, ttl : Retentions \cup {None}]
  BY <1>1 DEF Request, Batches
<1>4. TypeOK' BY <1>2, <1>3 DEF IInv, TypeOK, outbox, store
<1>5. clock \in Nat /\ clock' = clock BY <1>2, Times DEF IInv
<1>6. Stable BY <1>2, <1>5 DEF Stable, Final, outbox
<1>7. Exports'
  <2>1. ASSUME NEW y \in Exporters PROVE Exporting(y)'
    BY <1>2, <1>5, <1>6, ExportKept DEF outbox, store
  <2>2. QED BY <2>1 DEF Exports
<1>8. Requests'
  <2>1. ASSUME NEW r \in net PROVE Sending(r)' BY <1>2, <1>6, <2>1, RequestKept
  <2>2. Sending(q)' BY <1>3, TelemetryAssumption DEF Sending, Fixed, Truth
  <2>3. OneEach' BY <1>2, <1>3 DEF IInv, Requests, OneEach
  <2>4. QED BY <1>2, <2>1, <2>2, <2>3 DEF Requests
<1>9. Outbox' /\ SentIsCounted' BY <1>2, <1>5 DEF IInv, Outbox, SentIsCounted, outbox, store
<1>10. QED BY <1>2, <1>4, <1>6, <1>7, <1>8, <1>9, CollectorKept DEF IInv

LEMMA AdmitKeeps ==
    ASSUME IInv, NEW r \in net, Admit(r)
    PROVE IInv'
<1>1. PICK q : q = [r EXCEPT !.now = clock, !.ttl = env] OBVIOUS
<1>2. net' = (net \ {r}) \cup {q} /\ UNCHANGED <<clock, outbox, ex, store, env, faults>>
  BY <1>1 DEF Admit
<1>3. /\ q.from = r.from /\ q.batch = r.batch /\ q.value = r.value /\ q.ttl = env
      /\ q \in [from : Exporters \cup {None}, batch : Batches, value : Nat,
                now : 0..MaxTime \cup {None}, ttl : Retentions \cup {None}]
  BY <1>1 DEF IInv, TypeOK
<1>4. env # None BY TelemetryAssumption DEF IInv, TypeOK
<1>5. TypeOK' BY <1>2, <1>3 DEF IInv, TypeOK, outbox, store
<1>6. clock \in Nat /\ clock' = clock BY <1>2, Times DEF IInv
<1>7. Stable BY <1>2, <1>6 DEF Stable, Final, outbox
<1>8. Exports'
  <2>1. ASSUME NEW y \in Exporters PROVE Exporting(y)'
    BY <1>2, <1>6, <1>7, ExportKept DEF outbox, store
  <2>2. QED BY <2>1 DEF Exports
<1>9. Requests'
  <2>1. ASSUME NEW s \in net PROVE Sending(s)' BY <1>2, <1>7, <2>1, RequestKept
  <2>2. Sending(q)' BY <1>3, <1>4, <2>1 DEF Sending
  <2>3. OneEach' BY <1>2, <1>3 DEF IInv, Requests, OneEach
  <2>4. QED BY <1>2, <2>1, <2>2, <2>3 DEF Requests
<1>10. Outbox' /\ SentIsCounted' BY <1>2, <1>6 DEF IInv, Outbox, SentIsCounted, outbox, store
<1>11. QED BY <1>2, <1>5, <1>7, <1>8, <1>9, <1>10, CollectorKept DEF IInv

\* An answer moves the export that waits for it, and takes the request away.
LEMMA AnswerMoves ==
    ASSUME IInv, NEW r \in net, net' = net \ {r}, UNCHANGED <<clock, outbox>>,
           Refuse(r) \/ Accept(r),
           \A w \in Windows : Final(w) /\ tally[w] = recorded[w] => tally'[w] = recorded[w],
           Accept(r) /\ r.from # None => tally'[r.batch] = recorded[r.batch]
    PROVE /\ ex' \in [Exporters -> [pc : {"idle", "select", "seal", "send", "wait", "acked"},
                                    todo : SUBSET Windows]]
          /\ Exports' /\ Requests' /\ Stable
<1>1. clock \in Nat /\ clock' = clock BY Times DEF IInv
<1>2. Stable BY <1>1 DEF Stable, Final, outbox
<1>3. ex \in [Exporters -> [pc : {"idle", "select", "seal", "send", "wait", "acked"},
                            todo : SUBSET Windows]]
  BY DEF IInv, TypeOK
<1>4. r.from \in Exporters \cup {None} /\ Sending(r) BY DEF IInv, TypeOK, Requests
<1>5. \A y \in Exporters : y # r.from => ex'[y] = ex[y]
  BY <1>3, <1>4 DEF Refuse, Accept
<1>6. r.from # None => \/ ex' = [ex EXCEPT ![r.from] = Idle]
                       \/ Accept(r) /\ ex' = [ex EXCEPT ![r.from] = [ex[r.from] EXCEPT !.pc = "acked"]]
  BY DEF Refuse, Accept, Refused, Acked
<1>7. ex' \in [Exporters -> [pc : {"idle", "select", "seal", "send", "wait", "acked"},
                            todo : SUBSET Windows]]
  <2>1. CASE r.from = None BY <1>3, <2>1 DEF Refuse, Accept
  <2>2. CASE r.from # None BY <1>3, <1>4, <1>6, <2>2 DEF Idle
  <2>3. QED BY <2>1, <2>2
<1>8. ASSUME r.from # None PROVE Exporting(r.from)'
  <2>1. PICK x \in Exporters : x = r.from BY <1>4, <1>8
  <2>2. CASE ex' = [ex EXCEPT ![x] = Idle]
    <3>1. ex'[x].pc = "idle" BY <1>3, <2>1, <2>2 DEF Idle
    <3>2. Exporting(x)' BY <3>1 DEF Exporting
    <3>3. QED BY <2>1, <3>2
  <2>3. CASE Accept(r) /\ ex' = [ex EXCEPT ![x] = [ex[x] EXCEPT !.pc = "acked"]]
    <3>1. ex'[x] = [pc |-> "acked", todo |-> ex[x].todo] BY <1>3, <2>1, <2>3
    <3>2. Exporting(x) /\ ex[x].pc = "wait" /\ r.batch = Window(x)
      BY <1>4, <1>8, <2>1 DEF IInv, Exports, Sending
    <3>3. PICK w \in Windows : w = Window(x) BY <3>2, WindowIn DEF IInv
    <3>4. Window(x)' = w BY <3>1, <3>3 DEF Window
    <3>5. Final(w) /\ tally'[w] = recorded'[w] BY <1>8, <2>3, <3>2, <3>3 DEF Exporting, outbox
    <3>6. Final(w)' BY <1>2, <3>5 DEF Stable
    <3>7. \A v \in ex[x].todo : v + 1 <= clock' /\ (row'[v].state = "none" => v + 2 <= clock')
      BY <1>1, <3>2 DEF Exporting, outbox
    <3>8. Exporting(x)'
      BY <3>1, <3>2, <3>4, <3>5, <3>6, <3>7 DEF Exporting
    <3>9. QED BY <2>1, <3>8
  <2>4. QED BY <1>6, <1>8, <2>1, <2>2, <2>3
<1>9. Exports'
  <2>1. ASSUME NEW y \in Exporters, y # r.from PROVE Exporting(y)'
    <3>1. ex'[y] = ex[y] BY <1>5, <2>1
    <3>2. \A w \in Windows : Final(w) /\ tally[w] = recorded[w] => tally'[w] = recorded'[w]
      BY DEF outbox
    <3>3. \A w \in Windows : row'[w] = row[w] BY DEF outbox
    <3>4. QED BY <1>1, <1>2, <3>1, <3>2, <3>3, ExportKept
  <2>2. ASSUME NEW y \in Exporters, y = r.from PROVE Exporting(y)'
    <3>1. r.from # None BY <2>2, TelemetryAssumption
    <3>2. QED BY <1>8, <2>2, <3>1
  <2>3. QED BY <2>1, <2>2 DEF Exports
<1>10. Requests'
  <2>1. ASSUME NEW q \in net', q.from # None PROVE ex'[q.from] = ex[q.from]
    <3>1. q \in net /\ q # r /\ q.from \in Exporters BY <2>1 DEF IInv, TypeOK
    <3>2. q.from # r.from BY <2>1, <3>1 DEF IInv, Requests, OneEach
    <3>3. QED BY <1>5, <3>1, <3>2
  <2>2. QED BY <1>2, <2>1, RequestsKept
<1>11. QED BY <1>2, <1>7, <1>9, <1>10

LEMMA RefusedIsNotAccepted ==
    ASSUME TypeOK, NEW r \in net, Refuse(r), r.from # None
    PROVE ~Accept(r)
<1>1. r.from \in Exporters BY DEF TypeOK
<1>2. ex'[r.from].pc = "idle" BY <1>1 DEF TypeOK, Refuse, Refused, Idle
<1>3. Accept(r) => ex'[r.from].pc = "acked" BY <1>1 DEF TypeOK, Accept, Acked
<1>4. QED BY <1>2, <1>3

LEMMA RefusalKeeps ==
    ASSUME IInv, NEW r \in net, net' = net \ {r}, Refuse(r),
           UNCHANGED <<clock, outbox, store, env>>, faults' \in 0..MaxFaults
    PROVE IInv'
<1>1. ~Accept(r) \/ r.from = None BY RefusedIsNotAccepted DEF IInv
<1>2. ex' \in [Exporters -> [pc : {"idle", "select", "seal", "send", "wait", "acked"},
                             todo : SUBSET Windows]] /\ Exports' /\ Requests' /\ Stable
  BY <1>1, AnswerMoves DEF store
<1>3. TypeOK' BY <1>2 DEF IInv, TypeOK, outbox, store
<1>4. Outbox' /\ SentIsCounted' BY DEF IInv, Outbox, SentIsCounted, outbox, store
<1>5. QED BY <1>2, <1>3, <1>4, CollectorKept DEF IInv

LEMMA RejectKeeps ==
    ASSUME IInv, NEW r \in net, Reject(r)
    PROVE IInv'
<1>1. faults' \in 0..MaxFaults BY DEF Reject, IInv, TypeOK
<1>2. QED BY <1>1, RefusalKeeps DEF Reject

LEMMA FaultCounted ==
    ASSUME TypeOK, Fault
    PROVE faults' \in 0..MaxFaults
<1>1. faults \in 0..MaxFaults /\ MaxFaults \in Nat BY TelemetryAssumption DEF TypeOK
<1>2. QED BY <1>1 DEF Fault

LEMMA RequestFailsKeeps ==
    ASSUME IInv, NEW r \in net, RequestFails(r)
    PROVE IInv'
<1>1. faults' \in 0..MaxFaults BY FaultCounted DEF RequestFails, IInv
<1>2. QED BY <1>1, RefusalKeeps DEF RequestFails

\* What leaves the outbox, the exports and the requests alone.
LEMMA SenderKept ==
    ASSUME IInv, UNCHANGED <<clock, outbox, ex, net, tally>>
    PROVE Outbox' /\ Exports' /\ Requests' /\ SentIsCounted' /\ Stable
<1>1. clock \in Nat /\ clock' = clock BY Times DEF IInv
<1>2. Stable BY <1>1 DEF Stable, Final, outbox
<1>3. Exports'
  <2>1. ASSUME NEW y \in Exporters PROVE Exporting(y)'
    BY <1>1, <1>2, ExportKept DEF outbox
  <2>2. QED BY <2>1 DEF Exports
<1>4. Requests' BY <1>2, RequestsKept
<1>5. QED BY <1>1, <1>2, <1>3, <1>4 DEF IInv, Outbox, SentIsCounted, outbox

LEMMA ReconfigureKeeps ==
    ASSUME IInv, NEW ttl \in Retentions, Reconfigure(ttl)
    PROVE IInv'
<1>1. faults' \in 0..MaxFaults BY FaultCounted DEF Reconfigure, IInv
<1>2. env' = ttl /\ UNCHANGED <<clock, outbox, ex, net, store>> BY DEF Reconfigure
<1>3. TypeOK' BY <1>1, <1>2 DEF IInv, TypeOK, outbox, store
<1>4. Outbox' /\ Exports' /\ Requests' /\ SentIsCounted' /\ Stable
  BY <1>2, SenderKept DEF store
<1>5. QED BY <1>2, <1>3, <1>4, CollectorKept DEF IInv

\* Reading the policies of both classes tightens them.
LEMMA PoliciesTighten ==
    ASSUME TypeOK, policy' = PolicyNow
    PROVE /\ policy' \in [Classes -> [ttl : Retentions, cutoff : Int]]
          /\ \A c \in Classes :
                /\ policy'[c] # None
                /\ policy'[c].cutoff >= clock - policy'[c].ttl
                /\ policy[c] # None =>
                      /\ policy[c] \in [ttl : Retentions, cutoff : Int]
                      /\ policy'[c].ttl <= policy[c].ttl
                      /\ policy'[c].cutoff >= policy[c].cutoff
<1>1. clock \in Int /\ env \in Retentions BY Times DEF TypeOK
<1>2. \A c \in Classes : policy'[c] = Policy(c, env, clock) BY DEF PolicyNow
<1>3. policy' = [c \in Classes |-> policy'[c]] BY DEF PolicyNow
<1>4. ASSUME NEW c \in Classes
      PROVE /\ policy'[c] \in [ttl : Retentions, cutoff : Int]
            /\ policy'[c] # None
            /\ policy'[c].cutoff >= clock - policy'[c].ttl
            /\ policy[c] # None =>
                  /\ policy[c] \in [ttl : Retentions, cutoff : Int]
                  /\ policy'[c].ttl <= policy[c].ttl
                  /\ policy'[c].cutoff >= policy[c].cutoff
  BY <1>1, <1>2, PolicyTightens
<1>5. QED BY <1>3, <1>4

LEMMA ReadStatusKeeps ==
    ASSUME IInv, ReadStatus
    PROVE IInv'
<1>1. /\ policy' = PolicyNow
      /\ UNCHANGED <<clock, outbox, ex, net, receipt, data, status, tally, clashed, env, faults>>
  BY DEF ReadStatus
<1>2. policy' \in [Classes -> [ttl : Retentions, cutoff : Int]] BY <1>1, PoliciesTighten DEF IInv
<1>3. \A c \in Classes :
        /\ policy'[c] # None
        /\ policy[c] # None =>
              /\ policy[c] \in [ttl : Retentions, cutoff : Int]
              /\ policy'[c].ttl <= policy[c].ttl
              /\ policy'[c].cutoff >= policy[c].cutoff
  BY <1>1, PoliciesTighten DEF IInv
<1>4. TypeOK' BY <1>1, <1>2 DEF IInv, TypeOK, outbox
<1>5. Outbox' /\ Exports' /\ Requests' /\ SentIsCounted' /\ Stable BY <1>1, SenderKept
<1>6. Retentions \subseteq Nat /\ \A b \in Batches : Observed(b) \in Nat /\ Class(b) \in Classes
  BY BatchFacts, TelemetryAssumption
<1>7. \A b \in Batches : Fixed(b) => Fixed(b)' /\ Truth(b)' = Truth(b)
  BY <1>5 DEF Stable, Fixed, Truth
<1>8. Counting'
  <2>1. ASSUME NEW b \in Batches, tally[b] > 0, receipt[b] = None \/ data[b] = None
        PROVE Observed(b) <= policy'[Class(b)].cutoff
    <3>1. policy[Class(b)] # None /\ Observed(b) <= policy[Class(b)].cutoff
      BY <2>1 DEF IInv, Counting
    <3>2. policy'[Class(b)].cutoff \in Int /\ policy[Class(b)].cutoff \in Int
      BY <1>2, <1>3, <1>6, <3>1
    <3>3. QED BY <1>3, <1>6, <3>1, <3>2
  <2>2. QED BY <1>1, <1>3, <1>6, <1>7, <2>1 DEF IInv, Counting
<1>9. Expiring'
  <2>1. \A c \in Classes : policy[c] # None =>
            policy[c].ttl \in Nat /\ policy'[c].ttl \in Nat /\ policy'[c].ttl <= policy[c].ttl
    BY <1>2, <1>3, <1>6
  <2>2. ASSUME NEW b \in Batches, receipt[b] # None
        PROVE receipt[b].expires >= Observed(b) + policy'[Class(b)].ttl
    BY <1>6, <2>1, <2>2 DEF IInv, Expiring, TypeOK
  <2>3. ASSUME NEW b \in Batches, data[b] # None
        PROVE data[b] >= Observed(b) + policy'[Class(b)].ttl
    BY <1>6, <2>1, <2>3 DEF IInv, Expiring, TypeOK
  <2>4. ASSUME NEW c \in Classes, status[c] # None
        PROVE status[c].expires >= status[c].observed + policy'[c].ttl
    BY <2>1, <2>4 DEF IInv, Expiring, TypeOK
  <2>5. QED BY <1>1, <1>3, <1>6, <2>2, <2>3, <2>4 DEF Expiring
<1>10. StatusIsNewest'
  <2>1. ASSUME NEW c \in Classes, NEW b \in Batches, Class(b) = c, tally[b] > 0
        PROVE IF status[c] # None THEN Observed(b) <= status[c].observed
              ELSE Observed(b) <= policy'[c].cutoff
    <3>1. IF status[c] # None THEN Observed(b) <= status[c].observed
          ELSE Observed(b) <= policy[c].cutoff
      BY <2>1 DEF IInv, StatusIsNewest, Accepted
    <3>2. policy[c] # None BY <2>1 DEF IInv, Counting
    <3>3. policy'[c].cutoff \in Int /\ policy[c].cutoff \in Int /\ policy'[c].cutoff >= policy[c].cutoff
      BY <1>2, <1>3, <3>2
    <3>4. QED BY <1>6, <3>1, <3>3
  <2>2. QED BY <1>1, <2>1 DEF StatusIsNewest, Accepted
<1>11. NeverClashes' BY <1>1 DEF IInv, NeverClashes
<1>12. QED BY <1>4, <1>5, <1>8, <1>9, <1>10, <1>11 DEF IInv

\* What a purge may take is behind the cutoff.
LEMMA GoneIsBehind ==
    ASSUME TypeOK, policy' = PolicyNow, NEW c \in Classes, policy[c] # None,
           NEW at \in Nat, NEW expires \in Int, expires >= at + policy[c].ttl,
           Gone(expires, at, policy'[c])
    PROVE at <= policy'[c].cutoff
<1>1. /\ policy[c] \in [ttl : Retentions, cutoff : Int]
      /\ policy'[c] \in [ttl : Retentions, cutoff : Int]
      /\ policy'[c].ttl <= policy[c].ttl
      /\ policy'[c].cutoff >= clock - policy'[c].ttl
  BY PoliciesTighten
<1>2. Retentions \subseteq Nat /\ clock \in Nat BY Times, TelemetryAssumption
<1>3. policy[c].ttl \in Nat /\ policy'[c].ttl \in Nat /\ policy'[c].cutoff \in Int
  BY <1>1, <1>2
<1>4. CASE expires <= clock BY <1>1, <1>2, <1>3, <1>4
<1>5. CASE at <= policy'[c].cutoff BY <1>5
<1>6. QED BY <1>4, <1>5 DEF Gone

LEMMA PurgeKeeps ==
    ASSUME IInv, Purge
    PROVE IInv'
<1>1. /\ policy' = PolicyNow
      /\ UNCHANGED <<clock, outbox, ex, net, tally, clashed, env, faults>>
  BY DEF Purge
<1>2. /\ receipt' \in [Batches -> [value : Nat, expires : Int] \cup {None}]
      /\ \A b \in Batches : \/ receipt'[b] = receipt[b]
                            \/ receipt'[b] = None /\ receipt[b] # None
                                 /\ Gone(receipt[b].expires, Observed(b), policy'[Class(b)])
      /\ data' \in [Batches -> Int \cup {None}]
      /\ \A b \in Batches : \/ data'[b] = data[b]
                            \/ data'[b] = None /\ data[b] # None
                                 /\ Gone(data[b], Observed(b), policy'[Class(b)])
  <2> DEFINE gone == {b \in Batches : receipt[b] # None
                         /\ Gone(receipt[b].expires, Observed(b), PolicyNow[Class(b)])}
             old == {b \in Batches : data[b] # None /\ Gone(data[b], Observed(b), PolicyNow[Class(b)])}
  <2>1. PICK R \in Taken(gone, [b \in gone |-> receipt[b].expires]), D \in Taken(old, data) :
          /\ receipt' = [b \in Batches |-> IF b \in R THEN None ELSE receipt[b]]
          /\ data' = [b \in Batches |-> IF b \in D THEN None ELSE data[b]]
    BY DEF Purge
  <2>2. R \subseteq gone /\ D \subseteq old BY <2>1 DEF Taken, FirstExpired
  <2>3. /\ receipt \in [Batches -> [value : Nat, expires : Int] \cup {None}]
        /\ data \in [Batches -> Int \cup {None}]
    BY DEF IInv, TypeOK
  <2>4. \A b \in R : receipt[b] # None /\ Gone(receipt[b].expires, Observed(b), policy'[Class(b)])
    BY <1>1, <2>2
  <2>5. \A b \in D : data[b] # None /\ Gone(data[b], Observed(b), policy'[Class(b)])
    BY <1>1, <2>2
  <2> HIDE DEF gone, old
  <2>6. QED BY <2>1, <2>3, <2>4, <2>5
<1>3. /\ status' \in [Classes -> [observed : Nat, expires : Int] \cup {None}]
      /\ \A c \in Classes : \/ status'[c] = status[c]
                            \/ status'[c] = None /\ status[c] # None
                                 /\ Gone(status[c].expires, status[c].observed, policy'[c])
  <2>1. status' = [c \in Classes |->
                    IF status[c] # None /\ Gone(status[c].expires, status[c].observed, policy'[c])
                    THEN None ELSE status[c]]
    BY <1>1 DEF Purge
  <2>2. status \in [Classes -> [observed : Nat, expires : Int] \cup {None}] BY DEF IInv, TypeOK
  <2>3. QED BY <2>1, <2>2
<1>4. policy' \in [Classes -> [ttl : Retentions, cutoff : Int]] BY <1>1, PoliciesTighten DEF IInv
<1>5. \A c \in Classes :
        /\ policy'[c] # None
        /\ policy[c] # None =>
              /\ policy[c] \in [ttl : Retentions, cutoff : Int]
              /\ policy'[c].ttl <= policy[c].ttl
              /\ policy'[c].cutoff >= policy[c].cutoff
  BY <1>1, PoliciesTighten DEF IInv
<1>6. TypeOK' BY <1>1, <1>2, <1>3, <1>4 DEF IInv, TypeOK, outbox
<1>7. Outbox' /\ Exports' /\ Requests' /\ SentIsCounted' /\ Stable BY <1>1, SenderKept
<1>8. Retentions \subseteq Nat /\ \A b \in Batches : Observed(b) \in Nat /\ Class(b) \in Classes
  BY BatchFacts, TelemetryAssumption
<1>9. \A b \in Batches : Fixed(b) => Fixed(b)' /\ Truth(b)' = Truth(b)
  BY <1>7 DEF Stable, Fixed, Truth
<1>10. ASSUME NEW c \in Classes, policy[c] # None
       PROVE /\ policy'[c].cutoff \in Int /\ policy[c].cutoff \in Int
             /\ policy'[c].ttl \in Nat /\ policy[c].ttl \in Nat
             /\ policy'[c].ttl <= policy[c].ttl /\ policy'[c].cutoff >= policy[c].cutoff
  BY <1>4, <1>5, <1>8, <1>10
<1>11. ASSUME NEW b \in Batches, receipt[b] # None, receipt'[b] = None
       PROVE Observed(b) <= policy'[Class(b)].cutoff
  <2>1. /\ policy[Class(b)] # None /\ receipt[b].expires \in Int
        /\ receipt[b].expires >= Observed(b) + policy[Class(b)].ttl
    BY <1>11 DEF IInv, Expiring, TypeOK
  <2>2. Gone(receipt[b].expires, Observed(b), policy'[Class(b)]) BY <1>2, <1>11
  <2>3. QED BY <1>1, <1>8, <2>1, <2>2, GoneIsBehind DEF IInv
<1>12. ASSUME NEW b \in Batches, data[b] # None, data'[b] = None
       PROVE Observed(b) <= policy'[Class(b)].cutoff
  <2>1. /\ policy[Class(b)] # None /\ data[b] \in Int
        /\ data[b] >= Observed(b) + policy[Class(b)].ttl
    BY <1>12 DEF IInv, Expiring, TypeOK
  <2>2. Gone(data[b], Observed(b), policy'[Class(b)]) BY <1>2, <1>12
  <2>3. QED BY <1>1, <1>8, <2>1, <2>2, GoneIsBehind DEF IInv
<1>13. Counting'
  <2>1. ASSUME NEW b \in Batches, tally[b] > 0, receipt'[b] = None \/ data'[b] = None
        PROVE Observed(b) <= policy'[Class(b)].cutoff
    <3>1. CASE receipt[b] = None \/ data[b] = None
      <4>1. policy[Class(b)] # None /\ Observed(b) <= policy[Class(b)].cutoff
        BY <2>1, <3>1 DEF IInv, Counting
      <4>2. QED BY <1>8, <1>10, <4>1
    <3>2. CASE receipt[b] # None /\ data[b] # None BY <1>11, <1>12, <2>1, <3>2
    <3>3. QED BY <3>1, <3>2
  <2>2. \A b \in Batches : /\ receipt'[b] # None => receipt'[b] = receipt[b]
                           /\ data'[b] # None => data'[b] = data[b]
    BY <1>2
  <2>3. QED BY <1>1, <1>5, <1>8, <1>9, <2>1, <2>2 DEF IInv, Counting
<1>14. Expiring'
  <2>1. ASSUME NEW b \in Batches, receipt'[b] # None
        PROVE receipt'[b].expires >= Observed(b) + policy'[Class(b)].ttl
    <3>1. /\ receipt'[b] = receipt[b] /\ policy[Class(b)] # None /\ receipt[b].expires \in Int
          /\ receipt[b].expires >= Observed(b) + policy[Class(b)].ttl
      BY <1>2, <2>1 DEF IInv, Expiring, TypeOK
    <3>2. QED BY <1>8, <1>10, <3>1
  <2>2. ASSUME NEW b \in Batches, data'[b] # None
        PROVE data'[b] >= Observed(b) + policy'[Class(b)].ttl
    <3>1. /\ data'[b] = data[b] /\ policy[Class(b)] # None /\ data[b] \in Int
          /\ data[b] >= Observed(b) + policy[Class(b)].ttl
      BY <1>2, <2>2 DEF IInv, Expiring, TypeOK
    <3>2. QED BY <1>8, <1>10, <3>1
  <2>3. ASSUME NEW c \in Classes, status'[c] # None
        PROVE status'[c].expires >= status'[c].observed + policy'[c].ttl
    <3>1. /\ status'[c] = status[c] /\ policy[c] # None
          /\ status[c].expires \in Int /\ status[c].observed \in Nat
          /\ status[c].expires >= status[c].observed + policy[c].ttl
      BY <1>3, <2>3 DEF IInv, Expiring, TypeOK
    <3>2. QED BY <1>10, <3>1
  <2>4. QED BY <1>5, <1>8, <2>1, <2>2, <2>3 DEF Expiring
<1>15. StatusIsNewest'
  <2>1. ASSUME NEW c \in Classes, NEW b \in Batches, Class(b) = c, tally[b] > 0
        PROVE IF status'[c] # None THEN Observed(b) <= status'[c].observed
              ELSE Observed(b) <= policy'[c].cutoff
    <3>1. IF status[c] # None THEN Observed(b) <= status[c].observed
          ELSE Observed(b) <= policy[c].cutoff
      BY <2>1 DEF IInv, StatusIsNewest, Accepted
    <3>2. policy[c] # None BY <2>1 DEF IInv, Counting
    <3>3. CASE status'[c] = status[c] BY <1>8, <1>10, <3>1, <3>2, <3>3
    <3>4. CASE status'[c] = None /\ status[c] # None
               /\ Gone(status[c].expires, status[c].observed, policy'[c])
      <4>1. /\ status[c].expires \in Int /\ status[c].observed \in Nat
            /\ status[c].expires >= status[c].observed + policy[c].ttl
        BY <3>4 DEF IInv, Expiring, TypeOK
      <4>2. status[c].observed <= policy'[c].cutoff BY <1>1, <3>2, <3>4, <4>1, GoneIsBehind DEF IInv
      <4>3. QED BY <1>8, <1>10, <3>1, <3>2, <3>4, <4>1, <4>2
    <3>5. QED BY <1>3, <3>3, <3>4
  <2>2. QED BY <1>1, <2>1 DEF StatusIsNewest, Accepted
<1>16. NeverClashes' BY <1>1 DEF IInv, NeverClashes
<1>17. QED BY <1>6, <1>7, <1>13, <1>14, <1>15, <1>16 DEF IInv

LEMMA IngestKeeps ==
    ASSUME IInv, NEW r \in net, Ingest(r)
    PROVE IInv'
<1>1. PICK b \in Batches : b = r.batch BY DEF IInv, TypeOK
<1>2. PICK c \in Classes : c = Class(b) BY BatchFacts
<1>3. PICK p : p = Policy(c, r.ttl, r.now) OBVIOUS
<1>4. PICK rc : rc = Receipt(r, p) OBVIOUS
<1>5. PICK guard \in BOOLEAN : guard <=> Guard(r, p, rc) OBVIOUS
<1>6. PICK expires : expires = Observed(b) + Lesser(r.ttl, p.ttl) OBVIOUS
<1>7. /\ net' = net \ {r} /\ UNCHANGED <<clock, outbox, env, faults>> /\ r.now # None
      /\ policy' = [policy EXCEPT ![c] = p]
      /\ receipt' = [receipt EXCEPT ![b] = rc]
      /\ IF guard /\ IsNew(r)
         THEN data' = [data EXCEPT ![b] = expires] /\ tally' = [tally EXCEPT ![b] = tally[b] + r.value]
         ELSE UNCHANGED <<data, tally>>
      /\ status' = IF guard /\ Newer(c, b)
                   THEN [status EXCEPT ![c] = [observed |-> Observed(b), expires |-> expires]]
                   ELSE status
      /\ IF rc = None \/ Observed(b) <= p.cutoff \/ (rc # None /\ rc.expires <= r.now)
         THEN Refuse(r) /\ UNCHANGED clashed
         ELSE IF rc.value # r.value
         THEN Refuse(r) /\ clashed' = clashed \cup {b}
         ELSE Accept(r) /\ UNCHANGED clashed
  BY <1>1, <1>2, <1>3, <1>4, <1>5, <1>6 DEF Ingest
<1>8. /\ Retentions \subseteq Nat /\ Observed(b) \in Nat
      /\ \A a \in Batches : Observed(a) \in Nat /\ Class(a) \in Classes
      /\ None \notin Int /\ None \notin [value : Nat, expires : Int]
      /\ None \notin [observed : Nat, expires : Int]
  BY BatchFacts, TelemetryAssumption
<1>9. /\ r.now \in Nat /\ r.ttl \in Retentions /\ r.ttl \in Nat
      /\ Fixed(b) /\ r.value = Truth(b) /\ r.value \in Nat /\ r.value > 0
  <2>1. Sending(r) /\ r.now \in 0..MaxTime \cup {None} /\ r.ttl \in Retentions \cup {None}
        /\ r.value \in Nat
    BY DEF IInv, Requests, TypeOK
  <2>2. /\ r.ttl # None /\ Fixed(b) /\ r.value = Truth(b) /\ r.value > 0
    BY <1>1, <1>7, <2>1, Zenon DEF Sending
  <2>3. r.now \in 0..MaxTime /\ r.ttl \in Retentions BY <1>7, <2>1, <2>2
  <2>4. r.now \in Nat /\ r.ttl \in Nat 
    <3>1. MaxTime \in Nat BY Times DEF IInv
    <3>2. r.now \in Nat BY <2>3, <3>1
    <3>3. r.ttl \in Nat BY <1>8, <2>3, Zenon
    <3>4. QED BY <3>2, <3>3
  <2>5. QED BY <2>1, <2>2, <2>3, <2>4, Zenon
<1>10. /\ p \in [ttl : Retentions, cutoff : Int] /\ p # None
       /\ p.ttl \in Nat /\ p.ttl <= r.ttl /\ p.cutoff \in Int
       /\ policy[c] # None =>
             /\ policy[c].ttl \in Nat /\ policy[c].cutoff \in Int
             /\ p.ttl <= policy[c].ttl /\ p.cutoff >= policy[c].cutoff
  <2>1. /\ p \in [ttl : Retentions, cutoff : Int] /\ p # None /\ p.ttl <= r.ttl
        /\ policy[c] # None =>
              /\ policy[c] \in [ttl : Retentions, cutoff : Int]
              /\ p.ttl <= policy[c].ttl /\ p.cutoff >= policy[c].cutoff
    <3>1. TypeOK /\ r.now \in Int BY <1>9 DEF IInv
    <3>2. QED BY <1>3, <1>9, <3>1, PolicyTightens, Zenon
  <2>2. QED BY <1>8, <2>1
<1>11. expires = Observed(b) + p.ttl /\ expires \in Int
  BY <1>6, <1>8, <1>9, <1>10 DEF Lesser
<1>12. \/ rc = receipt[b]
       \/ /\ receipt[b] = None /\ rc = [value |-> r.value, expires |-> expires]
          /\ Observed(b) > p.cutoff
  BY <1>1, <1>4, <1>6 DEF Receipt, Admissible
<1>13. rc # None => /\ rc \in [value : Nat, expires : Int] /\ rc.value = r.value
                    /\ rc.expires >= Observed(b) + p.ttl
  <2>1. CASE rc = receipt[b] /\ rc # None
    <3>1. /\ rc \in [value : Nat, expires : Int] /\ rc.value = r.value /\ policy[c] # None
          /\ rc.expires >= Observed(b) + policy[c].ttl
      BY <1>2, <1>9, <2>1 DEF IInv, TypeOK, Counting, Expiring
    <3>2. QED BY <1>8, <1>10, <3>1
  <2>2. CASE rc = [value |-> r.value, expires |-> expires] BY <1>8, <1>9, <1>10, <1>11, <2>2
  <2>3. QED BY <1>12, <2>1, <2>2
<1>14. guard => rc # None /\ Observed(b) > p.cutoff
  BY <1>1, <1>5 DEF Guard, Admissible
<1>15. guard /\ IsNew(r) => tally[b] = 0
  <2>1. SUFFICES ASSUME guard, IsNew(r), tally[b] # 0 PROVE FALSE OBVIOUS
  <2>2. tally[b] > 0 BY <2>1 DEF IInv, TypeOK
  <2>3. receipt[b] = None \/ data[b] = None BY <1>1, <2>1 DEF IsNew
  <2>4. policy[c] # None /\ Observed(b) <= policy[c].cutoff BY <1>2, <2>2, <2>3 DEF IInv, Counting
  <2>5. QED BY <1>8, <1>10, <1>14, <2>1, <2>4
<1>16. /\ policy'[c] = p /\ receipt'[b] = rc
       /\ \A k \in Classes : k # c => policy'[k] = policy[k] /\ status'[k] = status[k]
       /\ \A a \in Batches : a # b =>
             receipt'[a] = receipt[a] /\ data'[a] = data[a] /\ tally'[a] = tally[a]
  BY <1>7 DEF IInv, TypeOK
<1>17. IF guard /\ IsNew(r) THEN data'[b] = expires /\ tally'[b] = r.value
       ELSE data'[b] = data[b] /\ tally'[b] = tally[b]
  BY <1>7, <1>9, <1>15 DEF IInv, TypeOK
<1>18. \A w \in Windows : Final(w) /\ tally[w] = recorded[w] => tally'[w] = recorded[w]
  <2>1. \A w \in Windows : w \in Batches BY DEF Batches
  <2>2. b \in Windows => r.value = recorded[b] BY <1>9 DEF Truth
  <2>3. QED BY <1>9, <1>15, <1>16, <1>17, <2>1, <2>2
<1>19. Refuse(r) \/ Accept(r) BY <1>7
<1>20. clashed' = clashed BY <1>7, <1>13
<1>21. Accept(r) /\ r.from # None => tally'[r.batch] = recorded[r.batch]
  <2>1. SUFFICES ASSUME Accept(r), r.from # None PROVE tally'[b] = recorded[b] BY <1>1
  <2>2. ~Refuse(r) BY <2>1, RefusedIsNotAccepted DEF IInv
  <2>3. rc # None /\ ~(Observed(b) <= p.cutoff) /\ ~(rc.expires <= r.now) BY <1>7, <2>2
  <2>4. guard
    <3>1. rc.expires > r.now /\ Observed(b) > p.cutoff BY <1>8, <1>9, <1>10, <1>13, <2>3
    <3>2. QED BY <1>1, <1>5, <1>13, <2>3, <3>1 DEF Guard, Admissible
  <2>5. b \in Windows
    <3>1. PICK x \in Exporters : x = r.from BY <2>1 DEF IInv, TypeOK
    <3>2. Exporting(x) /\ ex[x].pc = "wait" /\ b = Window(x)
      BY <1>1, <2>1, <3>1 DEF IInv, Exports, Requests, Sending
    <3>3. QED BY <3>2, WindowIn DEF IInv
  <2>6. r.value = recorded[b] BY <1>9, <2>5 DEF Truth
  <2>7. CASE IsNew(r) BY <1>17, <2>4, <2>6, <2>7
  <2>8. CASE ~IsNew(r)
    <3>1. Class(b) = "metrics" BY <2>5, BatchFacts
    <3>2. data[b] # None BY <1>1, <2>8, <3>1 DEF IsNew
    <3>3. tally[b] = recorded[b] BY <1>9, <2>5, <3>2 DEF IInv, Counting, Truth
    <3>4. QED BY <1>17, <2>8, <3>3
  <2>9. QED BY <2>7, <2>8
<1>22. ex' \in [Exporters -> [pc : {"idle", "select", "seal", "send", "wait", "acked"},
                             todo : SUBSET Windows]] /\ Exports' /\ Requests' /\ Stable
  BY <1>7, <1>18, <1>19, <1>21, AnswerMoves
<1>23. TypeOK'
  <2>1. policy' \in [Classes -> [ttl : Retentions, cutoff : Int] \cup {None}]
    BY <1>7, <1>10 DEF IInv, TypeOK
  <2>2. receipt' \in [Batches -> [value : Nat, expires : Int] \cup {None}]
    BY <1>7, <1>13 DEF IInv, TypeOK
  <2>3. data' \in [Batches -> Int \cup {None}] BY <1>7, <1>11 DEF IInv, TypeOK
  <2>4. tally' \in [Batches -> Nat] BY <1>7, <1>9 DEF IInv, TypeOK
  <2>5. status' \in [Classes -> [observed : Nat, expires : Int] \cup {None}]
    BY <1>7, <1>8, <1>11 DEF IInv, TypeOK
  <2>6. QED BY <1>7, <1>20, <1>22, <2>1, <2>2, <2>3, <2>4, <2>5 DEF IInv, TypeOK, outbox
<1>24. Outbox' BY <1>7 DEF IInv, Outbox, outbox
<1>25. SentIsCounted'
  <2>1. \A w \in Windows : row[w].state = "sent" => Final(w) /\ tally[w] = recorded[w]
    BY DEF IInv, SentIsCounted, Final
  <2>2. QED BY <1>7, <1>18, <2>1 DEF SentIsCounted, outbox
<1>26. \A a \in Batches : Fixed(a) => Fixed(a)' /\ Truth(a)' = Truth(a)
  BY <1>22 DEF Stable, Fixed, Truth
<1>27. \A k \in Classes : policy[k] # None =>
          /\ policy'[k] # None /\ policy[k].cutoff \in Int /\ policy'[k].cutoff \in Int
          /\ policy[k].ttl \in Nat /\ policy'[k].ttl \in Nat
          /\ policy'[k].ttl <= policy[k].ttl /\ policy'[k].cutoff >= policy[k].cutoff
  <2>1. ASSUME NEW k \in Classes, policy[k] # None
        PROVE policy[k].cutoff \in Int /\ policy[k].ttl \in Nat
    BY <1>8, <2>1 DEF IInv, TypeOK
  <2>2. QED BY <1>10, <1>16, <2>1
<1>28. Counting'
  <2>1. ASSUME NEW a \in Batches, receipt'[a] # None
        PROVE Fixed(a)' /\ receipt'[a].value = Truth(a)'
    BY <1>9, <1>13, <1>16, <1>26, <2>1 DEF IInv, Counting
  <2>2. ASSUME NEW a \in Batches, data'[a] # None PROVE tally'[a] > 0
    BY <1>9, <1>16, <1>17, <2>2 DEF IInv, Counting
  <2>3. ASSUME NEW a \in Batches, tally'[a] > 0
        PROVE /\ Fixed(a)' /\ tally'[a] = Truth(a)' /\ policy'[Class(a)] # None
              /\ receipt'[a] = None \/ data'[a] = None =>
                    Observed(a) <= policy'[Class(a)].cutoff
    <3>1. CASE a = b /\ guard /\ IsNew(r)
      BY <1>2, <1>8, <1>9, <1>10, <1>11, <1>14, <1>16, <1>17, <1>26, <3>1
    <3>2. CASE ~(a = b /\ guard /\ IsNew(r))
      <4>1. tally[a] > 0 /\ data'[a] = data[a] BY <1>16, <1>17, <2>3, <3>2
      <4>2. receipt'[a] = None => receipt[a] = None BY <1>8, <1>9, <1>11, <1>12, <1>16
      <4>3. Fixed(a) /\ tally[a] = Truth(a) /\ policy[Class(a)] # None
            /\ (receipt[a] = None \/ data[a] = None => Observed(a) <= policy[Class(a)].cutoff)
        BY <4>1 DEF IInv, Counting
      <4>4. tally'[a] = tally[a] BY <1>16, <1>17, <3>2
      <4>5. receipt'[a] = None \/ data'[a] = None => Observed(a) <= policy'[Class(a)].cutoff
        BY <1>8, <1>27, <4>1, <4>2, <4>3
      <4>6. QED BY <1>8, <1>26, <1>27, <4>3, <4>4, <4>5
    <3>3. QED BY <3>1, <3>2
  <2>4. QED BY <2>1, <2>2, <2>3 DEF Counting
<1>29. Expiring'
  <2>1. ASSUME NEW a \in Batches, receipt'[a] # None
        PROVE policy'[Class(a)] # None /\ receipt'[a].expires >= Observed(a) + policy'[Class(a)].ttl
    <3>1. CASE a = b BY <1>2, <1>10, <1>13, <1>16, <2>1, <3>1
    <3>2. CASE a # b
      <4>1. /\ receipt'[a] = receipt[a] /\ policy[Class(a)] # None /\ receipt[a].expires \in Int
            /\ receipt[a].expires >= Observed(a) + policy[Class(a)].ttl
        BY <1>16, <2>1, <3>2 DEF IInv, Expiring, TypeOK
      <4>2. QED BY <1>8, <1>27, <4>1
    <3>3. QED BY <3>1, <3>2
  <2>2. ASSUME NEW a \in Batches, data'[a] # None
        PROVE policy'[Class(a)] # None /\ data'[a] >= Observed(a) + policy'[Class(a)].ttl
    <3>1. CASE a = b /\ guard /\ IsNew(r) BY <1>2, <1>8, <1>10, <1>11, <1>16, <1>17, <3>1
    <3>2. CASE ~(a = b /\ guard /\ IsNew(r))
      <4>1. data'[a] = data[a] BY <1>16, <1>17, <3>2
      <4>2. /\ policy[Class(a)] # None /\ data[a] \in Int
            /\ data[a] >= Observed(a) + policy[Class(a)].ttl
        BY <2>2, <4>1 DEF IInv, Expiring, TypeOK
      <4>3. QED BY <1>8, <1>27, <4>1, <4>2
    <3>3. QED BY <3>1, <3>2
  <2>3. ASSUME NEW k \in Classes, status'[k] # None
        PROVE policy'[k] # None /\ status'[k].expires >= status'[k].observed + policy'[k].ttl
    <3>1. CASE k = c /\ guard /\ Newer(c, b)
      <4>1. status'[c] = [observed |-> Observed(b), expires |-> expires]
        BY <1>7, <3>1 DEF IInv, TypeOK
      <4>2. QED BY <1>8, <1>10, <1>11, <1>16, <3>1, <4>1
    <3>2. CASE ~(k = c /\ guard /\ Newer(c, b))
      <4>1. status'[k] = status[k] BY <1>7, <1>16, <3>2
      <4>2. /\ policy[k] # None /\ status[k].expires \in Int /\ status[k].observed \in Nat
            /\ status[k].expires >= status[k].observed + policy[k].ttl
        BY <2>3, <4>1 DEF IInv, Expiring, TypeOK
      <4>3. QED BY <1>27, <4>1, <4>2
    <3>3. QED BY <3>1, <3>2
  <2>4. QED BY <2>1, <2>2, <2>3 DEF Expiring
<1>30. StatusIsNewest'
  <2>1. ASSUME NEW k \in Classes, NEW a \in Batches, Class(a) = k, tally'[a] > 0
        PROVE IF status'[k] # None THEN Observed(a) <= status'[k].observed
              ELSE Observed(a) <= policy'[k].cutoff
    <3>1. tally[a] > 0 =>
            /\ policy[k] # None
            /\ IF status[k] # None THEN Observed(a) <= status[k].observed
               ELSE Observed(a) <= policy[k].cutoff
      BY <2>1 DEF IInv, StatusIsNewest, Accepted, Counting
    <3>2. CASE tally[a] > 0 /\ ~(k = c /\ guard /\ Newer(c, b))
      <4>1. status'[k] = status[k] BY <1>7, <1>16, <3>2
      <4>2. QED BY <1>8, <1>27, <3>1, <3>2, <4>1
    <3>3. CASE k = c /\ guard /\ Newer(c, b)
      <4>1. status'[k] = [observed |-> Observed(b), expires |-> expires]
        BY <1>7, <3>3 DEF IInv, TypeOK
      <4>2. status'[k] # None /\ status'[k].observed = Observed(b) BY <1>8, <1>11, <4>1
      <4>3. Observed(a) <= Observed(b)
        <5>1. CASE a = b BY <1>8, <5>1
        <5>2. CASE a # b
          <6>1. tally[a] > 0 BY <1>16, <2>1, <5>2
          <6>2. status[c] # None => status[c].observed \in Nat /\ Observed(b) > status[c].observed
            BY <3>3 DEF Newer, IInv, TypeOK
          <6>3. policy[c] # None /\ policy[c].cutoff < Observed(b)
            BY <1>8, <1>10, <1>14, <3>1, <3>3, <6>1
          <6>4. QED BY <1>8, <1>10, <3>1, <3>3, <6>1, <6>2, <6>3
        <5>3. QED BY <5>1, <5>2
      <4>4. QED BY <4>2, <4>3
    <3>4. CASE ~(tally[a] > 0) /\ ~(k = c /\ guard /\ Newer(c, b))
      <4>1. a = b /\ guard /\ IsNew(r) BY <1>16, <1>17, <2>1, <3>4
      <4>2. k = c /\ ~Newer(c, b) BY <1>2, <2>1, <3>4, <4>1
      <4>3. status[c] # None /\ ~(Observed(b) > status[c].observed) BY <4>2 DEF Newer
      <4>4. status'[c] = status[c] /\ status[c].observed \in Nat
        BY <1>7, <4>2, <4>3 DEF IInv, TypeOK
      <4>5. QED BY <1>8, <4>1, <4>2, <4>3, <4>4
    <3>5. QED BY <3>2, <3>3, <3>4
  <2>2. QED BY <2>1 DEF StatusIsNewest, Accepted
<1>31. NeverClashes' BY <1>20 DEF IInv, NeverClashes
<1>32. QED BY <1>22, <1>23, <1>24, <1>25, <1>28, <1>29, <1>30, <1>31 DEF IInv

-----------------------------------------------------------------------------
(* The theorems. *)
LEMMA InitHolds ==
    ASSUME Init
    PROVE IInv
<1>1. 0 \in 0..MaxTime /\ 0 \in 0..MaxCount /\ 0 \in 0..MaxFaults /\ 0 \in Nat
      /\ Deployed \in Retentions /\ Windows \subseteq Nat
  BY TelemetryAssumption DEF Windows
<1>2. TypeOK BY <1>1 DEF Init, TypeOK, NoRow, Idle
<1>3. Outbox BY <1>1 DEF Init, Outbox, NoRow
<1>4. Exports /\ Requests
  <2>1. ASSUME NEW x \in Exporters PROVE Exporting(x) BY DEF Init, Exporting, Idle
  <2>2. QED BY <2>1 DEF Init, Exports, Requests, OneEach
<1>5. Counting /\ Expiring BY DEF Init, Counting, Expiring
<1>6. NeverClashes /\ SentIsCounted /\ StatusIsNewest
  BY <1>1 DEF Init, NeverClashes, SentIsCounted, StatusIsNewest, Accepted, NoRow
<1>7. QED BY <1>2, <1>3, <1>4, <1>5, <1>6 DEF IInv

LEMMA NextKeeps ==
    ASSUME IInv, Next
    PROVE IInv'
<1>1. CASE Tick BY <1>1, TickKeeps
<1>2. CASE \E w \in Windows : Count(w) BY <1>2, CountKeeps
<1>3. CASE \E x \in Exporters : Export(x) \/ ExportDies(x)
  <2>1. PICK x \in Exporters : Export(x) \/ ExportDies(x) BY <1>3
  <2>2. QED BY <2>1, ExportBeginKeeps, ExportSelectKeeps, ExportSealKeeps, ExportSendKeeps,
               ExportAckedKeeps, ExportDiesKeeps DEF Export
<1>4. CASE \E e \in Events : Deliver(e) BY <1>4, DeliverKeeps
<1>5. CASE \E r \in net : Admit(r) \/ Reject(r) \/ Ingest(r) \/ RequestFails(r)
  BY <1>5, AdmitKeeps, RejectKeeps, IngestKeeps, RequestFailsKeeps
<1>6. CASE \E ttl \in Retentions : Reconfigure(ttl) BY <1>6, ReconfigureKeeps
<1>7. CASE ReadStatus \/ Purge BY <1>7, ReadStatusKeeps, PurgeKeeps
<1>8. QED BY <1>1, <1>2, <1>3, <1>4, <1>5, <1>6, <1>7 DEF Next

LEMMA StutterKeeps ==
    ASSUME IInv, UNCHANGED vars
    PROVE IInv'
<1>1. UNCHANGED <<clock, outbox, ex, net, store, env, faults>>
  BY DEF vars, outbox, store
<1>2. TypeOK' BY <1>1 DEF IInv, TypeOK, outbox, store
<1>3. Outbox' /\ Exports' /\ Requests' /\ SentIsCounted' /\ Stable
  BY <1>1, SenderKept DEF store
<1>4. QED BY <1>1, <1>2, <1>3, CollectorKept DEF IInv

\* The invariant of the outbox, the requests on their way and the collector
\* (countTelemetry, exportTelemetry, ingest, purge), for every instance.
THEOREM TelemetryInvariantHolds == Spec => []IInv
<1>1. Init => IInv BY InitHolds
<1>2. IInv /\ [Next]_vars => IInv' BY NextKeeps, StutterKeeps
<1>3. QED BY <1>1, <1>2, PTL DEF Spec

\* The tables, the exports and the requests keep their types; a counter stays
\* within its saturation.
THEOREM TelemetryTypeCorrect == Spec => []TypeOK
<1>1. IInv => TypeOK BY DEF IInv
<1>2. QED BY <1>1, TelemetryInvariantHolds, PTL

\* The collector never answers 409 to an export: what a batch id stands for is
\* final from its first request on.
THEOREM BatchesNeverClash == Spec => []NeverClashes
<1>1. IInv => NeverClashes BY DEF IInv
<1>2. QED BY <1>1, TelemetryInvariantHolds, PTL

\* A window marked sent was counted by the collector with exactly its content.
THEOREM SentWindowsAreCounted == Spec => []SentIsCounted
<1>1. IInv => SentIsCounted BY DEF IInv
<1>2. QED BY <1>1, TelemetryInvariantHolds, PTL

\* source_status is the newest accepted observation of its class, and one that
\* was purged is not brought back by an older observation.
THEOREM StatusStaysNewest == Spec => []StatusIsNewest
<1>1. IInv => StatusIsNewest BY DEF IInv
<1>2. QED BY <1>1, TelemetryInvariantHolds, PTL

-----------------------------------------------------------------------------
(* The implementation of DeliveryLedger. *)
LEMMA LedgerStarts ==
    ASSUME Init
    PROVE Ledger!Init
<1>1. recorded \in [Windows -> 0..MaxCount] BY InitHolds DEF IInv, TypeOK
<1>2. Content \in [Batches -> Nat] BY <1>1, TelemetryAssumption DEF Content, Batches
<1>3. QED BY <1>2 DEF Init, Ledger!Init

LEMMA ContentTyped ==
    ASSUME TypeOK
    PROVE Content \in [Batches -> Nat] /\ \A b \in Batches : Content[b] = Truth(b)
<1>1. recorded \in [Windows -> 0..MaxCount] BY DEF TypeOK
<1>2. QED BY <1>1, TelemetryAssumption DEF Content, Batches, Truth

LEMMA CountRecords ==
    ASSUME IInv, NEW w \in Windows, Count(w)
    PROVE Ledger!Record(w)
<1>1. w \in Batches BY DEF Batches
<1>2. clock \in Nat /\ w \in Nat BY Times DEF IInv
<1>3. ~Final(w) BY <1>2 DEF Count, TakesCounts, Final
<1>4. tally[w] = 0 BY <1>1, <1>3 DEF IInv, TypeOK, Counting, Fixed
<1>5. Content' \in [Batches -> Nat]
  <2>1. IInv' BY CountKeeps
  <2>2. recorded' \in [Windows -> 0..MaxCount] BY <2>1 DEF IInv, TypeOK
  <2>3. QED BY <2>2, TelemetryAssumption DEF Content, Batches
<1>6. \A v \in Windows : v # w => recorded'[v] = recorded[v] BY DEF Count, IInv, TypeOK
<1>7. \A b \in Batches \ {w} : Content'[b] = Content[b] BY <1>6 DEF Content, Batches
<1>8. tally' = tally BY DEF Count, store
<1>9. QED BY <1>4, <1>5, <1>7, <1>8 DEF Ledger!Record

LEMMA IngestDelivers ==
    ASSUME IInv, NEW r \in net, Ingest(r)
    PROVE (\E b \in Batches : Ledger!Deliver(b)) \/ UNCHANGED <<Content, tally>>
<1>1. PICK b \in Batches : b = r.batch BY DEF IInv, TypeOK
<1>2. recorded' = recorded /\ Content' = Content BY DEF Ingest, outbox, Content
<1>3. CASE tally' = tally BY <1>2, <1>3
<1>4. CASE tally' # tally
  <2>1. tally' = [tally EXCEPT ![b] = tally[b] + r.value] BY <1>1, <1>4 DEF Ingest
  <2>2. IInv' BY IngestKeeps
  <2>3. r.value = Truth(b) /\ r.value \in Nat /\ r.value > 0
    BY <1>1 DEF IInv, Requests, Sending, TypeOK
  <2>4. tally[b] \in Nat /\ tally'[b] = tally[b] + r.value BY <2>1 DEF IInv, TypeOK
  <2>5. tally'[b] = Truth(b)'
    <3>1. tally'[b] > 0 BY <2>3, <2>4
    <3>2. QED BY <2>2, <3>1 DEF IInv, Counting
  <2>6. Truth(b)' = Truth(b) BY <1>2 DEF Truth
  <2>7. tally[b] = 0 BY <2>3, <2>4, <2>5, <2>6
  <2>8. Content[b] = r.value BY <2>3, ContentTyped DEF IInv
  <2>9. Ledger!Deliver(b)
    <3>1. tally[b] + r.value = Content[b] BY <2>3, <2>7, <2>8
    <3>2. tally' = [tally EXCEPT ![b] = Content[b]] BY <2>1, <3>1
    <3>3. QED BY <1>2, <2>7, <3>2 DEF Ledger!Deliver
  <2>10. QED BY <2>9
<1>5. QED BY <1>3, <1>4

\* The outbox and the collector implement the ledger: every batch is delivered
\* at most once, whole, and records nothing more once it is.
THEOREM BatchesAreCountedOnce == Spec => CountedOnce
<1>1. Init => Ledger!Init BY LedgerStarts
<1>2. IInv /\ [Next]_vars
        => [\E b \in Batches : Ledger!Record(b) \/ Ledger!Deliver(b)]_<<Content, tally>>
  <2>1. SUFFICES ASSUME IInv, [Next]_vars
                 PROVE \/ \E b \in Batches : Ledger!Record(b) \/ Ledger!Deliver(b)
                       \/ UNCHANGED <<Content, tally>>
    OBVIOUS
  <2>2. CASE \E w \in Windows : Count(w)
    <3>1. PICK w \in Windows : Count(w) BY <2>2
    <3>2. Ledger!Record(w) /\ w \in Batches BY <2>1, <3>1, CountRecords DEF Batches
    <3>3. QED BY <3>2
  <2>3. CASE \E r \in net : Ingest(r)
    <3>1. PICK r \in net : Ingest(r) BY <2>3
    <3>2. (\E b \in Batches : Ledger!Deliver(b)) \/ UNCHANGED <<Content, tally>>
      BY <2>1, <3>1, IngestDelivers
    <3>3. QED BY <3>2
  <2>4. CASE UNCHANGED <<recorded, tally>> BY <2>4 DEF Content
  <2>5. CASE \E r \in net : Admit(r) \/ Reject(r) \/ RequestFails(r)
    BY <2>4, <2>5 DEF Admit, Reject, RequestFails, outbox, store
  <2>6. CASE \E x \in Exporters : Export(x) \/ ExportDies(x)
    BY <2>4, <2>6 DEF Export, ExportBegin, ExportSelect, ExportSeal, ExportSend, ExportAcked,
                      ExportDies, outbox, store
  <2>7. CASE Tick \/ (\E e \in Events : Deliver(e)) \/ (\E ttl \in Retentions : Reconfigure(ttl))
             \/ ReadStatus \/ Purge \/ UNCHANGED vars
    BY <2>4, <2>7 DEF Tick, Deliver, Reconfigure, ReadStatus, Purge, vars, outbox, store
  <2>8. QED BY <2>1, <2>2, <2>3, <2>5, <2>6, <2>7 DEF Next
<1>3. QED BY <1>1, <1>2, TelemetryInvariantHolds, PTL DEF Spec, CountedOnce, Ledger!Spec
=============================================================================
