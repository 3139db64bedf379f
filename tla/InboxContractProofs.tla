------------------------ MODULE InboxContractProofs ------------------------
(***************************************************************************)
(* InboxStore implements ReceiptContract, for every number of owners,      *)
(* inboxes, receptions and overlapping sweeps.                             *)
(*                                                                         *)
(* The argument: seen from outside, all but six actions are one thing,     *)
(* endpoints that close together with what they hold (ClosingStep), and a  *)
(* step that changes nothing visible is that with nothing closed.          *)
(*                                                                         *)
(* And no quota is overshot: what a row reserves is decided on counters    *)
(* that are exact, an owner's sum over its rows included.                  *)
(***************************************************************************)
EXTENDS InboxRefinement, InboxSafetyProofs

\* The abstract states, case by case.
LEMMA EndpointCases ==
    ASSUME NEW i \in Inboxes, inbox[i].state \in InboxStates
    PROVE /\ inbox[i].state = "none" => EndpointOf(i) = "unborn"
          /\ inbox[i].state = "gone" => EndpointOf(i) = "erased"
          /\ inbox[i].state = "destroying" => EndpointOf(i) = "closed"
          /\ Live(i) => EndpointOf(i) = "open"
          /\ inbox[i].state = "active" /\ ~Live(i) => EndpointOf(i) = "closed"
          /\ EndpointOf(i) = "open" => Live(i)
  BY DEF EndpointOf, Live, InboxStates

LEMMA ReceiptCases ==
    ASSUME NEW m \in Messages, message[m].state \in MessageStates
    PROVE /\ message[m].state = "none" => ReceiptOf(m) = "none"
          /\ message[m].state = "pending" => ReceiptOf(m) = "offered"
          /\ message[m].state = "deleting" => ReceiptOf(m) = "withdrawn"
          /\ message[m].state = "gone" => ReceiptOf(m) = "erased"
          /\ message[m].state = "stored" => ReceiptOf(m) \in {"held", "withdrawn"}
          /\ ReceiptOf(m) = "held" =>
               /\ message[m].state = "stored"
               /\ EndpointOf(target[m]) = "open"
               /\ message[m].received_at + Retention > now
          /\ /\ message[m].state = "stored"
             /\ EndpointOf(target[m]) = "open"
             /\ message[m].received_at + Retention > now
             => ReceiptOf(m) = "held"
  BY DEF ReceiptOf, MessageStates

LEMMA ContractInitHolds == Init => Contract!ContractInit
  BY DEF Init, Contract!ContractInit, EndpointOf, ReceiptOf, NoInbox

-----------------------------------------------------------------------------
(* Closing *)

EndpointCloses(i) ==
    \/ EndpointOf(i)' = EndpointOf(i)
    \/ EndpointOf(i) = "open" /\ EndpointOf(i)' = "closed"
ReceiptCloses(m) ==
    \/ ReceiptOf(m)' = ReceiptOf(m)
    \/ ReceiptOf(m) \in {"offered", "held"} /\ ReceiptOf(m)' = "withdrawn"

\* Endpoints that only close and receipts that only end are a step of the
\* contract: a receipt that stays held stays at an open endpoint.
LEMMA ClosingStep ==
    ASSUME TypeOK, TypeOK', target' = target,
           \A i \in Inboxes : EndpointCloses(i),
           \A m \in Messages : ReceiptCloses(m)
    PROVE Contract!ContractNext
<1> DEFINE is == {i \in Inboxes : EndpointOf(i)' # EndpointOf(i)}
           ms == {m \in Messages : ReceiptOf(m)' # ReceiptOf(m)}
<1>1. ASSUME NEW m \in Messages, ReceiptOf(m) = "held", target[m] \in is
      PROVE m \in ms
  <2>1. EndpointOf(target[m])' = "closed"
    BY <1>1 DEF EndpointCloses, TypeOK
  <2>2. SUFFICES ASSUME ReceiptOf(m)' = "held" PROVE FALSE
    BY <1>1
  <2>3. message'[m].state \in MessageStates
    BY DEF TypeOK, MessageRow
  <2>4. EndpointOf(target[m])' = "open"
    BY <2>2, <2>3 DEF ReceiptOf, MessageStates
  <2>5. QED BY <2>1, <2>4
<1>2. \A i \in is : EndpointOf(i) = "open" /\ EndpointOf(i)' = "closed"
  BY DEF EndpointCloses
<1>3. \A m \in ms : ReceiptOf(m) \in {"offered", "held"}
                    /\ ReceiptOf(m)' = "withdrawn"
  BY DEF ReceiptCloses
<1>4. [i \in Inboxes |-> EndpointOf(i)]'
        = [i \in Inboxes |-> IF i \in is THEN "closed" ELSE EndpointOf(i)]
  BY <1>2
<1>5. [m \in Messages |-> ReceiptOf(m)]'
        = [m \in Messages |-> IF m \in ms THEN "withdrawn" ELSE ReceiptOf(m)]
  BY <1>3
<1>6. Contract!Close(is, ms)
  BY <1>1, <1>2, <1>3, <1>4, <1>5 DEF Contract!Close
<1>7. QED BY <1>6 DEF Contract!ContractNext

-----------------------------------------------------------------------------
(* What a step may do to one endpoint and to one receipt *)

LEMMA EndpointSame ==
    ASSUME NEW i \in Inboxes, now' = now, retired' = retired,
           inbox'[i].state = inbox[i].state, inbox'[i].owner = inbox[i].owner,
           inbox'[i].expires_at = inbox[i].expires_at
    PROVE EndpointOf(i)' = EndpointOf(i)
  BY DEF EndpointOf

LEMMA ReceiptSame ==
    ASSUME NEW m \in Messages, now' = now, target' = target,
           message'[m] = message[m],
           EndpointOf(target[m])' = EndpointOf(target[m])
    PROVE ReceiptOf(m)' = ReceiptOf(m)
  BY DEF ReceiptOf

\* No step reopens an endpoint (LiveStays).
LEMMA EndpointAhead ==
    ASSUME IInv, IInv', [Next]_vars, NEW i \in Inboxes,
           inbox[i].state = "none" => inbox'[i].state = "none",
           inbox'[i].state = "gone" => inbox[i].state = "gone"
    PROVE EndpointCloses(i)
<1>1. inbox[i].state \in InboxStates /\ inbox'[i].state \in InboxStates
  BY DEF IInv, TypeOK, InboxRow
<1>2. InboxForward(i) /\ (inbox[i].state # "none" /\ Live(i)' => Live(i))
  BY ForwardStep, LiveStays DEF IInv, Forward
<1>3. CASE inbox[i].state = "active" /\ inbox'[i].state = "active"
  BY <1>2, <1>3 DEF EndpointCloses, EndpointOf, Live
<1>4. CASE inbox[i].state = "active" /\ inbox'[i].state = "destroying"
  BY <1>4 DEF EndpointCloses, EndpointOf
<1>5. CASE inbox[i].state # "active"
  <2>1. inbox'[i].state = inbox[i].state
    BY <1>1, <1>2, <1>5 DEF InboxForward, InboxStates
  <2>2. QED BY <1>1, <1>5, <2>1 DEF EndpointCloses, EndpointOf, InboxStates
<1>6. QED
  BY <1>1, <1>2, <1>3, <1>4, <1>5 DEF InboxForward, InboxStates

\* The clock reading of a row never changes.
LEMMA ReceivedFixed ==
    ASSUME TypeOK, [Next]_vars, NEW m \in Messages, ~Reserve(m)
    PROVE message'[m].received_at = message[m].received_at
<1>0. message \in [Messages -> MessageRow]
  BY DEF TypeOK
<1> USE <1>0 DEF MessageRow
<1>1. ASSUME NEW x \in Messages, Reserve(x) \/ Store(x)
      PROVE message'[m].received_at = message[m].received_at
  <2>1. CASE x = m
    BY <1>1, <2>1 DEF Store
  <2>2. CASE x # m
    BY <1>1, <2>2 DEF Reserve, Store
  <2>3. QED BY <2>1, <2>2
<1>2. ASSUME NEW t \in Tasks, RemoveMark(t) \/ RemoveRows(t)
      PROVE message'[m].received_at = message[m].received_at
  <2>1. \/ message'[m] = message[m]
        \/ message'[m] = [message[m] EXCEPT !.state = "deleting"]
        \/ message'[m] = [message[m] EXCEPT !.state = "gone", !.seq = 0]
    BY <1>2 DEF RemoveMark, RemoveRows
  <2>2. QED BY <2>1
<1>3. CASE message' = message
  BY <1>3
<1>4. QED
  BY Frame, <1>1, <1>2, <1>3
  DEF D1Step, d1, CreateInbox, UpdateInbox, RetireOwner, DestroyInbox, EraseInbox,
      AdmitOne

\* A receipt an owner stopped seeing is not seen again.
LEMMA ReceiptAhead ==
    ASSUME IInv, IInv', [Next]_vars, NEW m \in Messages,
           EndpointCloses(target[m]),
           ~Reserve(m), ~Store(m), message'[m].state = "gone" => message[m].state = "gone"
    PROVE ReceiptCloses(m)
<1>1. message[m].state \in MessageStates /\ message'[m].state \in MessageStates
  BY DEF IInv, TypeOK, MessageRow
<1>2. /\ MessageForward(m) /\ target'[m] = target[m]
      /\ message'[m].received_at = message[m].received_at
  BY ForwardStep, TargetFixed, ReceivedFixed DEF IInv, Forward
<1>3. CASE message[m].state = "stored" /\ message'[m].state = "stored"
  <2>1. /\ now' = now \/ now' = now + 1
        /\ now \in Nat /\ message[m].received_at \in Nat /\ Retention \in Nat
    BY ClockForward, LimitsAssumption DEF IInv, TypeOK, MessageRow
  <2>2. message'[m].received_at + Retention > now'
          => message[m].received_at + Retention > now
    BY <1>2, <2>1
  <2>3. EndpointOf(target[m])' = "open" => EndpointOf(target[m]) = "open"
    BY DEF EndpointCloses
  <2>4. QED BY <1>2, <1>3, <2>2, <2>3 DEF ReceiptCloses, ReceiptOf
<1>4. CASE /\ message[m].state \in {"pending", "stored"}
           /\ message'[m].state = "deleting"
  <2>1. ReceiptOf(m)' = "withdrawn"
    BY <1>4 DEF ReceiptOf
  <2>2. ReceiptOf(m) \in {"offered", "held", "withdrawn"}
    BY <1>4 DEF ReceiptOf
  <2>3. QED BY <2>1, <2>2 DEF ReceiptCloses
<1>5. CASE /\ message'[m].state = message[m].state
           /\ message[m].state # "stored"
  BY <1>1, <1>5 DEF ReceiptCloses, ReceiptOf, MessageStates
<1>6. QED
  BY <1>1, <1>2, <1>3, <1>4, <1>5
  DEF MessageForward, MessageStates, Ending

-----------------------------------------------------------------------------
(* The steps *)

LEMMA ReserveOffers ==
    ASSUME IInv, IInv', [Next]_vars, NEW m \in Messages, Reserve(m)
    PROVE Contract!Offer(m)
<1>0. /\ inbox \in [Inboxes -> InboxRow] /\ message \in [Messages -> MessageRow]
      /\ target \in [Messages -> Inboxes] /\ target' = target
  BY TargetFixed DEF IInv, TypeOK
<1>1. ASSUME NEW i \in Inboxes PROVE EndpointOf(i)' = EndpointOf(i)
  <2>1. /\ inbox'[i].state = inbox[i].state /\ inbox'[i].owner = inbox[i].owner
        /\ inbox'[i].expires_at = inbox[i].expires_at
        /\ now' = now /\ retired' = retired
    BY <1>0 DEF Reserve, InboxRow
  <2>2. QED BY <2>1, EndpointSame
<1>2. message[m].state = "none"
  BY DEF Reserve, IInv, ReceiveInv, Early
<1>3. ReceiptOf(m) = "none"
  BY <1>2 DEF ReceiptOf
<1>4. ReceiptOf(m)' = "offered"
  <2>1. message'[m].state = "pending"
    BY <1>0 DEF Reserve
  <2>2. QED BY <2>1 DEF ReceiptOf
<1>5. ASSUME NEW x \in Messages, x # m PROVE ReceiptOf(x)' = ReceiptOf(x)
  <2>1. message'[x] = message[x] /\ now' = now
    BY <1>0, <1>5 DEF Reserve
  <2>2. QED BY <1>0, <1>1, <2>1, ReceiptSame
<1>6. EndpointOf(target[m]) = "open"
  <2>1. Live(target[m])
    BY DEF Reserve
  <2>2. QED BY <2>1 DEF Live, EndpointOf
<1>7. QED BY <1>0, <1>1, <1>3, <1>4, <1>5, <1>6 DEF Contract!Offer

\* A receipt is stored while its endpoint is open: it is held, or its retention
\* has already ended.
LEMMA StoreHolds ==
    ASSUME IInv, IInv', [Next]_vars, NEW m \in Messages, Store(m)
    PROVE Contract!ContractNext
<1>0. /\ inbox \in [Inboxes -> InboxRow] /\ message \in [Messages -> MessageRow]
      /\ target \in [Messages -> Inboxes] /\ target' = target
      /\ TypeOK /\ TypeOK'
  BY TargetFixed DEF IInv, TypeOK
<1>1. ASSUME NEW i \in Inboxes PROVE EndpointOf(i)' = EndpointOf(i)
  <2>1. /\ inbox'[i].state = inbox[i].state /\ inbox'[i].owner = inbox[i].owner
        /\ inbox'[i].expires_at = inbox[i].expires_at
        /\ now' = now /\ retired' = retired
    BY <1>0 DEF Store, InboxRow
  <2>2. QED BY <2>1, EndpointSame
<1>2. message[m].state = "pending" /\ Live(target[m])
  BY DEF Store, Storable
<1>3. ReceiptOf(m) = "offered" /\ EndpointOf(target[m]) = "open"
  BY <1>2 DEF ReceiptOf, EndpointOf, Live
<1>4. ReceiptOf(m)' \in {"held", "withdrawn"}
  <2>1. message'[m].state = "stored"
    BY <1>0 DEF Store
  <2>2. QED BY <2>1 DEF ReceiptOf
<1>5. ASSUME NEW x \in Messages, x # m PROVE ReceiptOf(x)' = ReceiptOf(x)
  <2>1. message'[x] = message[x] /\ now' = now
    BY <1>0, <1>5 DEF Store
  <2>2. QED BY <1>0, <1>1, <2>1, ReceiptSame
<1>6. CASE ReceiptOf(m)' = "held"
  <2>1. Contract!Hold(m)
    BY <1>0, <1>1, <1>3, <1>5, <1>6 DEF Contract!Hold
  <2>2. QED BY <2>1 DEF Contract!ContractNext
<1>7. CASE ReceiptOf(m)' = "withdrawn"
  BY <1>0, <1>1, <1>3, <1>5, <1>7, ClosingStep DEF EndpointCloses, ReceiptCloses
<1>8. QED BY <1>4, <1>6, <1>7

LEMMA CreateOpens ==
    ASSUME IInv, IInv', [Next]_vars, NEW o \in Owners, NEW i \in Inboxes,
           NEW ttl \in Lifetimes \cup {Never}, CreateInbox(o, i, ttl)
    PROVE Contract!Open(i)
<1>0. /\ inbox \in [Inboxes -> InboxRow] /\ message \in [Messages -> MessageRow]
      /\ target \in [Messages -> Inboxes] /\ target' = target
      /\ now' = now /\ retired' = retired /\ message' = message /\ now \in Nat
  BY TargetFixed DEF IInv, TypeOK, CreateInbox
<1>1. inbox[i].state = "none" /\ EndpointOf(i) = "unborn"
  BY DEF CreateInbox, EndpointOf
<1>2. EndpointOf(i)' = "open"
  <2>1. /\ inbox'[i].state = "active" /\ inbox'[i].owner = o /\ o \notin retired
        /\ inbox'[i].expires_at = IF ttl = Never THEN Never ELSE now + ttl
    BY <1>0 DEF CreateInbox, MayCreate, NoInbox
  <2>2. Outlives(inbox'[i].expires_at, now)
    <3>1. CASE ttl = Never
      BY <2>1, <3>1 DEF Outlives
    <3>2. CASE ttl \in Lifetimes
      <4>1. ttl \in Nat \ {0} /\ Never \notin Int
        BY <3>2, LimitsAssumption
      <4>2. inbox'[i].expires_at = now + ttl /\ now + ttl # Never /\ now + ttl > now
        BY <1>0, <2>1, <4>1
      <4>3. QED BY <4>2 DEF Outlives
    <3>3. QED BY <3>1, <3>2
  <2>3. QED BY <1>0, <2>1, <2>2 DEF EndpointOf
<1>3. ASSUME NEW j \in Inboxes, j # i PROVE EndpointOf(j)' = EndpointOf(j)
  <2>1. inbox'[j] = inbox[j]
    BY <1>0, <1>3 DEF CreateInbox
  <2>2. QED BY <1>0, <2>1, EndpointSame
<1>4. ASSUME NEW m \in Messages PROVE ReceiptOf(m)' = ReceiptOf(m)
  <2>1. CASE target[m] = i
    BY <1>0, <1>1, <2>1 DEF IInv, RowsInv, ReceiptOf
  <2>2. CASE target[m] # i
    BY <1>0, <1>3, <2>2, ReceiptSame
  <2>3. QED BY <2>1, <2>2
<1>5. QED BY <1>0, <1>1, <1>2, <1>3, <1>4 DEF Contract!Open

LEMMA RowsErase ==
    ASSUME IInv, IInv', [Next]_vars, NEW t \in Tasks, RemoveRows(t)
    PROVE Contract!Erase(Doomed(t))
<1>0. /\ inbox \in [Inboxes -> InboxRow] /\ message \in [Messages -> MessageRow]
      /\ target \in [Messages -> Inboxes] /\ target' = target
      /\ now' = now /\ retired' = retired
      /\ rm[t].ids \subseteq Messages
  BY TargetFixed DEF IInv, TypeOK, RemoveRows, RmRow
<1>1. ASSUME NEW i \in Inboxes PROVE EndpointOf(i)' = EndpointOf(i)
  <2>1. /\ inbox'[i].state = inbox[i].state /\ inbox'[i].owner = inbox[i].owner
        /\ inbox'[i].expires_at = inbox[i].expires_at
    BY <1>0 DEF RemoveRows, InboxRow
  <2>2. QED BY <1>0, <2>1, EndpointSame
<1>2. ASSUME NEW m \in Doomed(t)
      PROVE ReceiptOf(m) = "withdrawn" /\ ReceiptOf(m)' = "erased"
  <2>1. m \in Messages /\ message[m].state = "deleting"
    BY <1>0 DEF Doomed
  <2>2. message'[m].state = "gone"
    BY <1>0, <2>1 DEF RemoveRows, MessageRow
  <2>3. QED BY <2>1, <2>2 DEF ReceiptOf
<1>3. ASSUME NEW m \in Messages, m \notin Doomed(t)
      PROVE ReceiptOf(m)' = ReceiptOf(m)
  <2>1. message'[m] = message[m]
    BY <1>3 DEF RemoveRows
  <2>2. QED BY <1>0, <1>1, <2>1, ReceiptSame
<1>4. [m \in Messages |-> ReceiptOf(m)]'
        = [m \in Messages |-> IF m \in Doomed(t) THEN "erased" ELSE ReceiptOf(m)]
  BY <1>2, <1>3
<1>5. Doomed(t) \subseteq Messages
  BY <1>0 DEF Doomed
<1>6. QED BY <1>0, <1>1, <1>2, <1>4, <1>5 DEF Contract!Erase

LEMMA FinalizeErases ==
    ASSUME IInv, IInv', [Next]_vars, NEW s \in Sweepers, EraseInbox(s),
           NEW i \in Inboxes, i = sw[s].at, inbox'[i] # inbox[i]
    PROVE Contract!EraseEndpoint(i)
<1>0. /\ inbox \in [Inboxes -> InboxRow] /\ message \in [Messages -> MessageRow]
      /\ target \in [Messages -> Inboxes] /\ target' = target
      /\ now' = now /\ retired' = retired /\ message' = message
  BY TargetFixed DEF IInv, TypeOK, EraseInbox
<1>1. inbox[i].state = "destroying" /\ Rows(i) = {} /\ inbox'[i].state = "gone"
  BY <1>0 DEF EraseInbox, NoInbox
<1>2. EndpointOf(i) = "closed" /\ EndpointOf(i)' = "erased"
  BY <1>1 DEF EndpointOf
<1>3. ASSUME NEW j \in Inboxes, j # i PROVE EndpointOf(j)' = EndpointOf(j)
  <2>1. inbox'[j] = inbox[j]
    BY <1>0, <1>3 DEF EraseInbox
  <2>2. QED BY <1>0, <2>1, EndpointSame
<1>4. ASSUME NEW m \in Messages, target[m] = i
      PROVE ReceiptOf(m) \in {"none", "erased"} /\ ReceiptOf(m)' = ReceiptOf(m)
  <2>1. message[m].state \in {"none", "gone"}
    BY <1>0, <1>1, <1>4 DEF Rows, Present, MessageRow, MessageStates
  <2>2. QED BY <1>0, <2>1 DEF ReceiptOf
<1>5. ASSUME NEW m \in Messages, target[m] # i PROVE ReceiptOf(m)' = ReceiptOf(m)
  BY <1>0, <1>3, <1>5, ReceiptSame
<1>6. QED BY <1>0, <1>2, <1>3, <1>4, <1>5 DEF Contract!EraseEndpoint

LEMMA IsContractStep ==
    ASSUME IInv, IInv', [Next]_vars PROVE [Contract!ContractNext]_(Contract!cvars)
<1> DEFINE Simulated == Contract!ContractNext
<1>0. /\ inbox \in [Inboxes -> InboxRow] /\ message \in [Messages -> MessageRow]
      /\ target \in [Messages -> Inboxes] /\ target' = target
      /\ TypeOK /\ TypeOK'
  BY TargetFixed DEF IInv, TypeOK
\* What closes only: no row is inserted, stored or deleted.
<1>1. ASSUME \A i \in Inboxes : /\ inbox[i].state = "none" => inbox'[i].state = "none"
                                /\ inbox'[i].state = "gone" => inbox[i].state = "gone",
             \A m \in Messages :
                /\ ~Reserve(m) /\ ~Store(m)
                /\ message'[m].state = "gone" => message[m].state = "gone"
      PROVE Simulated
  <2>1. \A i \in Inboxes : EndpointCloses(i)
    BY <1>1, EndpointAhead
  <2>2. \A m \in Messages : ReceiptCloses(m)
    BY <1>0, <1>1, <2>1, ReceiptAhead
  <2>3. QED BY <1>0, <2>1, <2>2, ClosingStep
<1>2. ASSUME NEW m \in Messages, Reserve(m) PROVE Simulated
  BY <1>2, ReserveOffers DEF Contract!ContractNext
<1>3. ASSUME NEW m \in Messages, Store(m) PROVE Simulated
  BY <1>3, StoreHolds
<1>4. ASSUME NEW o \in Owners, NEW i \in Inboxes,
             NEW ttl \in Lifetimes \cup {Never}, CreateInbox(o, i, ttl)
      PROVE Simulated
  BY <1>4, CreateOpens DEF Contract!ContractNext
<1>5. ASSUME NEW t \in Tasks, RemoveRows(t) PROVE Simulated
  <2>1. Doomed(t) \in SUBSET Messages
    BY DEF Doomed, IInv, TypeOK, RmRow
  <2>2. QED BY <1>5, <2>1, RowsErase DEF Contract!ContractNext
<1>6. SUFFICES ASSUME \A m \in Messages : ~Reserve(m) /\ ~Store(m)
               PROVE [Contract!ContractNext]_(Contract!cvars)
  BY <1>2, <1>3
<1>7. ASSUME message' = message,
             \A i \in Inboxes : /\ inbox[i].state = "none" => inbox'[i].state = "none"
                                /\ inbox'[i].state = "gone" => inbox[i].state = "gone"
      PROVE Simulated
  BY <1>1, <1>6, <1>7
<1>8. ASSUME NEW i \in Inboxes, NEW ttl \in Lifetimes, UpdateInbox(i, ttl)
      PROVE Simulated
  BY <1>0, <1>7, <1>8 DEF UpdateInbox, InboxRow
<1>9. ASSUME NEW o \in Owners, RetireOwner(o) PROVE Simulated
  BY <1>0, <1>7, <1>9 DEF RetireOwner, InboxRow
<1>10. ASSUME NEW i \in Inboxes, NEW at \in Nat, BeginDestroy(i, at),
              InboxExists(i), message' = message
       PROVE Simulated
  <2>1. \A j \in Inboxes :
           \/ inbox'[j].state = inbox[j].state
           \/ inbox[j].state # "none" /\ inbox'[j].state # "gone"
    <3>1. inbox[i].state # "none" /\ inbox'[i].state = "destroying"
      BY <1>0, <1>10, DestroyForward DEF InboxExists
    <3>2. \A j \in Inboxes : j # i => inbox'[j] = inbox[j]
      BY <1>0, <1>10, DestroyForward
    <3>3. QED BY <3>1, <3>2
  <2>2. QED BY <1>7, <1>10, <2>1
<1>11. ASSUME NEW t \in OwnerTasks, NEW i \in Inboxes, DestroyInbox(t, i)
       PROVE Simulated
  BY <1>0, <1>10, <1>11 DEF DestroyInbox, TypeOK
<1>12. ASSUME NEW t \in Tasks, RemoveMark(t) PROVE Simulated
  <2>1. inbox' = inbox
    BY <1>12 DEF RemoveMark
  <2>2. \A m \in Messages : message'[m] = message[m] \/ message'[m].state = "deleting"
    BY <1>0, <1>12 DEF RemoveMark, MessageRow
  <2>3. QED BY <1>1, <1>6, <2>1, <2>2
<1>13. ASSUME NEW s \in Sweepers, EraseInbox(s)
       PROVE Simulated
  <2>1. sw[s].at \in Inboxes /\ message' = message
    BY <1>0, <1>13 DEF TypeOK, SwRow, EraseInbox
  <2>2. CASE inbox'[sw[s].at] # inbox[sw[s].at]
    BY <1>13, <2>1, <2>2, FinalizeErases DEF Contract!ContractNext
  <2>3. CASE inbox'[sw[s].at] = inbox[sw[s].at]
    <3>1. \A i \in Inboxes : inbox'[i] = inbox[i]
      BY <1>0, <1>13, <2>3 DEF EraseInbox
    <3>2. QED BY <1>7, <2>1, <3>1
  <2>4. QED BY <2>2, <2>3
<1>14. ASSUME NEW s \in Sweepers, AdmitOne(s) PROVE Simulated
  <2>1. PICK i \in sw[s].todo :
           IF InboxExists(i) THEN BeginDestroy(i, sw[s].now)
           ELSE UNCHANGED <<prefixes, inbox>>
    BY <1>14 DEF AdmitOne
  <2>2. i \in Inboxes /\ sw[s].now \in Nat /\ message' = message
    BY <1>0, <1>14 DEF TypeOK, SwRow, AdmitOne
  <2>3. CASE InboxExists(i)
    BY <1>10, <2>1, <2>2, <2>3
  <2>4. CASE ~InboxExists(i)
    BY <1>7, <2>1, <2>2, <2>4
  <2>5. QED BY <2>3, <2>4
<1>15. ASSUME UNCHANGED d1 PROVE Simulated
  BY <1>7, <1>15 DEF d1
<1>16. Simulated
  <2>1. D1Step \/ UNCHANGED d1
    BY Frame
  <2>2. QED
    BY <2>1, <1>4, <1>5, <1>6, <1>8, <1>9, <1>11, <1>12, <1>13, <1>14, <1>15
    DEF D1Step
<1>17. QED BY <1>16

\* The whole of reception, removal and destruction keeps the receipt contract:
\* an ended endpoint never reopens, a receipt an owner stopped seeing never
\* reappears, and an erased endpoint has nothing left (worker.js visibleMessage,
\* removeMessages, tryFinalize).
THEOREM ReceptionKeepsItsContract == Spec => ImplementsContract
<1>1. Init => Contract!ContractInit
  BY ContractInitHolds
<1>2. IInv /\ IInv' /\ [Next]_vars => [Contract!ContractNext]_(Contract!cvars)
  BY IsContractStep
<1>3. QED
  BY <1>1, <1>2, InvariantHolds, PTL
  DEF Spec, ImplementsContract, Contract!ContractSpec

-----------------------------------------------------------------------------
(* Quotas.  The INSERT of a reservation compares sums that SQL takes over the *)
(* owner's rows; with exact counters that sum is the size of what is held.    *)

\* A function that is defined by taking the elements of a set one by one is
\* determined by its equation: the smallest set on which two of them differ
\* would have a smaller one.
LEMMA FoldUnique ==
    ASSUME NEW S, IsFiniteSet(S), NEW w, NEW g, NEW h,
           g = [s \in SUBSET S |-> IF s = {} THEN 0
                  ELSE w[CHOOSE y \in s : TRUE] + g[s \ {CHOOSE y \in s : TRUE}]],
           h = [s \in SUBSET S |-> IF s = {} THEN 0
                  ELSE w[CHOOSE y \in s : TRUE] + h[s \ {CHOOSE y \in s : TRUE}]]
    PROVE g = h
<1> DEFINE pick(s) == CHOOSE y \in s : TRUE
           T == {A \in SUBSET S : g[A] # h[A]}
           R == StrictSubsetOrdering(S)
<1>1. SUFFICES ASSUME T # {} PROVE FALSE
  OBVIOUS
<1>2. IsWellFoundedOn(R, SUBSET S)
  BY FS_StrictSubsetOrderingWellFounded, FS_FiniteSubsetsOfFinite
<1>3. PICK A \in T : \A B \in T : ~(<<B, A>> \in R)
  <2> HIDE DEF T, R
  <2>1. T \subseteq SUBSET S
    BY DEF T
  <2>2. QED BY <1>1, <1>2, <2>1, WFMin
<1>4. A # {}
  BY <1>3
<1>5. pick(A) \in A
  BY <1>4
<1>6. A \ {pick(A)} \in SUBSET S /\ <<A \ {pick(A)}, A>> \in R
  BY <1>5 DEF StrictSubsetOrdering
<1>7. g[A \ {pick(A)}] = h[A \ {pick(A)}]
  BY <1>3, <1>6
<1>8. /\ g[A] = w[pick(A)] + g[A \ {pick(A)}]
      /\ h[A] = w[pick(A)] + h[A \ {pick(A)}]
  BY <1>4
<1>9. QED BY <1>7, <1>8

\* The sum of a counter over a finite set of inboxes is any function of the set
\* that grows by the counter with every inbox.
LEMMA SumOfCounters ==
    ASSUME NEW S, IsFiniteSet(S), NEW g, g[{}] = 0,
           g = [s \in SUBSET S |-> g[s]],
           \A A \in SUBSET S : \A i \in A :
              g[A] = inbox[i].bytes_stored + g[A \ {i}]
    PROVE MapThenSumSet(LAMBDA i : inbox[i].bytes_stored, S) = g[S]
<1> DEFINE w == [i \in S |-> inbox[i].bytes_stored]
           pick(s) == CHOOSE y \in s : TRUE
           Fold(h) == h = [s \in SUBSET S |-> IF s = {} THEN 0
                             ELSE inbox[CHOOSE y \in s : TRUE].bytes_stored
                                  + h[s \ {CHOOSE y \in s : TRUE}]]
           sum == CHOOSE h : Fold(h)
<1>1. MapThenSumSet(LAMBDA i : inbox[i].bytes_stored, S) = sum[S]
  BY Zenon DEF MapThenSumSet, MapThenFoldSet
<1>2. \A s \in SUBSET S : s # {} => pick(s) \in s
  OBVIOUS
<1>3. \A s \in SUBSET S :
         g[s] = IF s = {} THEN 0
                ELSE inbox[pick(s)].bytes_stored + g[s \ {pick(s)}]
  BY <1>2
<1>4. Fold(g)
  BY <1>3
<1>5. Fold(sum)
  <2> HIDE DEF Fold
  <2>1. QED BY <1>4
<1>6. ASSUME NEW h, Fold(h)
      PROVE h = [s \in SUBSET S |-> IF s = {} THEN 0
                   ELSE w[CHOOSE y \in s : TRUE] + h[s \ {CHOOSE y \in s : TRUE}]]
  <2>1. \A s \in SUBSET S : s # {} =>
           w[CHOOSE y \in s : TRUE] = inbox[CHOOSE y \in s : TRUE].bytes_stored
    BY <1>2
  <2>2. QED BY <1>6, <2>1
<1>7. sum = g
  <2> DEFINE OverW(h) ==
               h = [s \in SUBSET S |-> IF s = {} THEN 0
                      ELSE w[CHOOSE y \in s : TRUE] + h[s \ {CHOOSE y \in s : TRUE}]]
  <2>1. OverW(g)
    BY <1>4, <1>6
  <2>2. OverW(sum)
    <3> HIDE DEF sum, w, Fold
    <3>1. QED BY <1>5, <1>6
  <2>3. QED
    <3> HIDE DEF sum, w, Fold
    <3>1. QED BY <2>1, <2>2, FoldUnique
<1>8. QED BY <1>1, <1>7

\* What is held in the inboxes of owner o.
Held(o) == UNION {Rows(i) : i \in OwnedBy(o)}

LEMMA RowsType == /\ \A i \in Inboxes : Rows(i) \in SUBSET Messages
                  /\ \A o \in Owners : Held(o) \in SUBSET Messages
                  /\ \A o \in Owners : OwnedBy(o) \in SUBSET Inboxes
  BY DEF Rows, Held, OwnedBy

\* The sum the INSERT takes is the size of what the owner holds.
LEMMA OwnerBytesExact ==
    ASSUME IInv, NEW o \in Owners PROVE OwnerBytes(o) = TotalSize[Held(o)]
<1> DEFINE S == OwnedBy(o)
           g == [A \in SUBSET S |-> TotalSize[UNION {Rows(i) : i \in A}]]
<1>1. IsFiniteSet(S)
  BY IdAssumption, FS_Subset DEF OwnedBy
<1>2. g[{}] = 0
  <2>1. UNION {Rows(i) : i \in {}} = {}
    OBVIOUS
  <2>2. g[{}] = TotalSize[UNION {Rows(i) : i \in {}}]
    OBVIOUS
  <2>3. QED BY <2>1, <2>2, Measure
<1>3. ASSUME NEW A \in SUBSET S, NEW i \in A
      PROVE g[A] = inbox[i].bytes_stored + g[A \ {i}]
  <2> DEFINE rest == UNION {Rows(j) : j \in A \ {i}}
  <2>1. /\ rest \cap Rows(i) = {} /\ rest \cup Rows(i) = UNION {Rows(j) : j \in A}
        /\ rest \in SUBSET Messages /\ Rows(i) \in SUBSET Messages
    BY DEF Rows
  <2>2. TotalSize[UNION {Rows(j) : j \in A}] = TotalSize[rest] + TotalSize[Rows(i)]
    <3> HIDE DEF rest
    <3>1. QED BY <2>1, SizeAssumption
  <2>3. TotalSize[rest] \in Int /\ TotalSize[Rows(i)] \in Int
    <3> HIDE DEF rest
    <3>1. QED BY <2>1, SizeAssumption
  <2>4. inbox[i].bytes_stored = TotalSize[Rows(i)]
    BY DEF IInv, CountersExact, OwnedBy
  <2>5. A \ {i} \in SUBSET S
    OBVIOUS
  <2>6. g[A] = TotalSize[UNION {Rows(j) : j \in A}] /\ g[A \ {i}] = TotalSize[rest]
    BY <2>5
  <2>7. QED
    <3> HIDE DEF rest, g
    <3>1. QED BY <2>2, <2>3, <2>4, <2>6
<1>4. g = [A \in SUBSET S |-> g[A]]
  OBVIOUS
<1>5. g[S] = TotalSize[Held(o)]
  BY DEF Held
<1>6. OwnerBytes(o) = MapThenSumSet(LAMBDA i : inbox[i].bytes_stored, S)
  BY Zenon DEF OwnerBytes
<1>7. MapThenSumSet(LAMBDA i : inbox[i].bytes_stored, S) = g[S]
  <2> HIDE DEF g, S
  <2>1. QED BY <1>1, <1>2, <1>3, <1>4, SumOfCounters
<1>8. QED BY <1>5, <1>6, <1>7

\* An inbox keeps its owner as long as it exists.
LEMMA OwnerFixed ==
    ASSUME TypeOK, [Next]_vars, NEW i \in Inboxes, InboxExists(i), InboxExists(i)'
    PROVE inbox'[i].owner = inbox[i].owner
<1>0. inbox \in [Inboxes -> InboxRow] /\ target \in [Messages -> Inboxes]
  BY DEF TypeOK
<1> USE <1>0 DEF InboxRow
<1>1. ASSUME NEW m \in Messages, Reserve(m) \/ Store(m)
      PROVE inbox'[i].owner = inbox[i].owner
  BY <1>1 DEF Reserve, Store
<1>2. ASSUME NEW o \in Owners, NEW j \in Inboxes,
             NEW ttl \in Lifetimes \cup {Never}, CreateInbox(o, j, ttl)
      PROVE inbox'[i].owner = inbox[i].owner
  <2>1. j # i
    BY <1>2 DEF CreateInbox, InboxExists
  <2>2. QED BY <1>2, <2>1 DEF CreateInbox
<1>3. ASSUME NEW j \in Inboxes, NEW ttl \in Lifetimes, UpdateInbox(j, ttl)
      PROVE inbox'[i].owner = inbox[i].owner
  BY <1>3 DEF UpdateInbox
<1>4. ASSUME NEW o \in Owners, RetireOwner(o)
      PROVE inbox'[i].owner = inbox[i].owner
  BY <1>4 DEF RetireOwner
<1>5. ASSUME NEW j \in Inboxes, NEW at, BeginDestroy(j, at)
      PROVE inbox'[i].owner = inbox[i].owner
  BY <1>5 DEF BeginDestroy, Destroyed
<1>6. ASSUME NEW t \in OwnerTasks, NEW j \in Inboxes, DestroyInbox(t, j)
      PROVE inbox'[i].owner = inbox[i].owner
  BY <1>5, <1>6 DEF DestroyInbox
<1>7. ASSUME NEW t \in Tasks, RemoveMark(t) \/ RemoveRows(t)
      PROVE inbox'[i].owner = inbox[i].owner
  BY <1>7 DEF RemoveMark, RemoveRows
<1>8. ASSUME NEW s \in Sweepers, EraseInbox(s)
      PROVE inbox'[i].owner = inbox[i].owner
  BY <1>8 DEF EraseInbox, NoInbox, InboxExists
<1>9. ASSUME NEW s \in Sweepers, AdmitOne(s)
      PROVE inbox'[i].owner = inbox[i].owner
  <2>1. PICK j \in sw[s].todo :
           IF InboxExists(j) THEN BeginDestroy(j, sw[s].now)
           ELSE UNCHANGED <<prefixes, inbox>>
    BY <1>9 DEF AdmitOne
  <2>2. j \in Inboxes
    BY DEF TypeOK, SwRow
  <2>3. QED BY <1>5, <2>1, <2>2
<1>10. ASSUME UNCHANGED d1 PROVE inbox'[i].owner = inbox[i].owner
  BY <1>10 DEF d1
<1> QED BY Frame, <1>1, <1>2, <1>3, <1>4, <1>6, <1>7, <1>8, <1>9, <1>10 DEF D1Step

\* Only a reservation adds to what an inbox, or an owner, holds.
LEMMA RowsGrow ==
    ASSUME IInv, [Next]_vars, NEW i \in Inboxes, NEW m \in Rows(i)'
    PROVE m \in Messages /\ (m \in Rows(i) \/ (Reserve(m) /\ target[m] = i))
<1>1. m \in Messages /\ target[m] = i /\ MessageForward(m)
  BY ForwardStep, TargetFixed DEF Rows, IInv, Forward
<1>2. /\ message'[m].state \in {"pending", "stored", "deleting"}
      /\ message[m].state \in MessageStates
  BY <1>1 DEF Rows, Present, IInv, TypeOK, MessageRow
<1>3. QED
  BY <1>1, <1>2 DEF MessageForward, Rows, Present, MessageStates

LEMMA HeldGrow ==
    ASSUME IInv, IInv', [Next]_vars, NEW o \in Owners, NEW m \in Held(o)'
    PROVE /\ m \in Messages
          /\ m \in Held(o) \/ (Reserve(m) /\ target[m] \in OwnedBy(o))
<1>1. PICK i \in Inboxes : InboxExists(i)' /\ inbox'[i].owner = o /\ m \in Rows(i)'
  BY DEF Held, OwnedBy
<1>2. m \in Messages /\ (m \in Rows(i) \/ (Reserve(m) /\ target[m] = i))
  BY <1>1, RowsGrow
<1>3. CASE InboxExists(i)
  <2>1. i \in OwnedBy(o)
    BY <1>1, <1>3, OwnerFixed DEF IInv, OwnedBy
  <2>2. QED BY <1>2, <2>1 DEF Held
<1>4. CASE ~InboxExists(i)
  <2>1. inbox[i].state \in {"none", "gone"}
    BY <1>4 DEF InboxExists, IInv, TypeOK, InboxRow, InboxStates
  <2>2. Rows(i) = {}
    BY <2>1 DEF IInv, RowsInv, EndedInv, Rows, Present
  <2>3. QED BY <1>2, <2>1, <2>2 DEF Reserve, Live
<1>5. QED BY <1>3, <1>4

\* A part is no larger than the whole.
LEMMA Monotone ==
    ASSUME NEW S \in SUBSET Messages, NEW T \in SUBSET S
    PROVE TotalSize[T] <= TotalSize[S] /\ Cardinality(T) <= Cardinality(S)
<1>1. /\ TotalSize[S \ T] = TotalSize[S] - TotalSize[T]
      /\ Cardinality(S \ T) = Cardinality(S) - Cardinality(T)
  BY Measure
<1>2. /\ TotalSize[S \ T] \in Nat /\ TotalSize[S] \in Nat /\ TotalSize[T] \in Nat
      /\ Cardinality(S \ T) \in Nat /\ Cardinality(S) \in Nat
      /\ Cardinality(T) \in Nat
  BY SetType
<1>3. QED BY <1>1, <1>2

LEMMA QuotaStep == IInv /\ IInv' /\ QuotaHeld /\ [Next]_vars => QuotaHeld'
<1> SUFFICES ASSUME IInv, IInv', QuotaHeld, [Next]_vars PROVE QuotaHeld'
  OBVIOUS
<1>0. /\ {MaxInboxBytes, MaxInboxMessages, MaxOwnerBytes} \subseteq Int
      /\ \A S \in SUBSET Messages : TotalSize[S] \in Int /\ Cardinality(S) \in Int
  BY LimitsAssumption, SetType
<1>1. ASSUME NEW m \in Messages, Reserve(m)
      PROVE /\ \A x \in Messages : Reserve(x) => x = m
            /\ InboxExists(target[m]) /\ target[m] \in Inboxes
            /\ TotalSize[Rows(target[m])] + TotalSize[{m}] <= MaxInboxBytes
            /\ Cardinality(Rows(target[m])) + 1 <= MaxInboxMessages
            /\ \A o \in Owners : target[m] \in OwnedBy(o) =>
                  TotalSize[Held(o)] + TotalSize[{m}] <= MaxOwnerBytes
  <2>1. target[m] \in Inboxes /\ InboxExists(target[m])
    BY <1>1 DEF Reserve, Live, InboxExists, IInv, TypeOK
  <2>2. \A x \in Messages : Reserve(x) => x = m
    <3>1. ASSUME NEW x \in Messages, Reserve(x), x # m PROVE FALSE
      <4>1. message'[x] = message[x] /\ message[x].state = "none"
        BY <1>1, <3>1 DEF Reserve, IInv, TypeOK, ReceiveInv, Early
      <4>2. message'[x].state = "pending"
        BY <3>1 DEF Reserve, IInv, TypeOK
      <4>3. QED BY <4>1, <4>2
    <3>2. QED BY <3>1
  <2>3. Fits(m, target[m])
    BY <1>1 DEF Reserve
  <2>4. /\ TotalSize[Rows(target[m])] + TotalSize[{m}] <= MaxInboxBytes
        /\ Cardinality(Rows(target[m])) + 1 <= MaxInboxMessages
    BY <2>1, <2>3 DEF Fits, Size, IInv, CountersExact
  <2>5. ASSUME NEW o \in Owners, target[m] \in OwnedBy(o)
        PROVE TotalSize[Held(o)] + TotalSize[{m}] <= MaxOwnerBytes
    BY <2>3, <2>5, OwnerBytesExact DEF Fits, Size, OwnedBy
  <2>6. QED BY <2>1, <2>2, <2>4, <2>5
<1>2. ASSUME NEW S \in SUBSET Messages, NEW T \in SUBSET Messages,
             NEW m \in Messages, T \subseteq S \cup {m}
      PROVE /\ TotalSize[T] <= TotalSize[S] + TotalSize[{m}]
            /\ Cardinality(T) <= Cardinality(S) + 1
  <2>1. CASE m \in S
    <3>1. T \in SUBSET S /\ {m} \in SUBSET Messages
      BY <1>2, <2>1
    <3>2. TotalSize[T] <= TotalSize[S] /\ Cardinality(T) <= Cardinality(S)
      BY <3>1, Monotone
    <3>3. TotalSize[{m}] \in Nat
      BY <3>1, SetType
    <3>4. QED BY <1>0, <3>2, <3>3
  <2>2. CASE m \notin S
    <3>1. S \cup {m} \in SUBSET Messages /\ T \in SUBSET (S \cup {m})
      BY <1>2
    <3>2. /\ TotalSize[S \cup {m}] = TotalSize[S] + TotalSize[{m}]
          /\ Cardinality(S \cup {m}) = Cardinality(S) + 1
      BY <2>2, Measure
    <3>3. QED BY <3>1, <3>2, Monotone
  <2>3. QED BY <2>1, <2>2
<1>3. ASSUME NEW i \in Inboxes
      PROVE /\ TotalSize[Rows(i)'] <= MaxInboxBytes
            /\ Cardinality(Rows(i)') <= MaxInboxMessages
  <2>1. /\ Rows(i) \in SUBSET Messages /\ Rows(i)' \in SUBSET Messages
        /\ TotalSize[Rows(i)] <= MaxInboxBytes
        /\ Cardinality(Rows(i)) <= MaxInboxMessages
    BY <1>3, RowsType, RowsGrow DEF QuotaHeld
  <2>2. CASE Rows(i)' \subseteq Rows(i)
    BY <1>0, <2>1, <2>2, Monotone
  <2>3. CASE ~(Rows(i)' \subseteq Rows(i))
    <3>1. PICK m \in Messages : Reserve(m) /\ target[m] = i
      BY <2>3, RowsGrow
    <3>2. Rows(i)' \subseteq Rows(i) \cup {m}
      BY <1>1, <3>1, RowsGrow
    <3>3. {m} \in SUBSET Messages
      OBVIOUS
    <3>4. /\ TotalSize[Rows(i)'] <= TotalSize[Rows(i)] + TotalSize[{m}]
          /\ Cardinality(Rows(i)') <= Cardinality(Rows(i)) + 1
      BY <1>2, <2>1, <3>2
    <3>5. /\ TotalSize[Rows(i)] + TotalSize[{m}] <= MaxInboxBytes
          /\ Cardinality(Rows(i)) + 1 <= MaxInboxMessages
      BY <1>1, <3>1
    <3>6. QED BY <1>0, <2>1, <3>3, <3>4, <3>5
  <2>4. QED BY <2>2, <2>3
<1>4. ASSUME NEW o \in Owners PROVE TotalSize[Held(o)'] <= MaxOwnerBytes
  <2>1. /\ Held(o) \in SUBSET Messages /\ Held(o)' \in SUBSET Messages
        /\ TotalSize[Held(o)] <= MaxOwnerBytes
    BY <1>4, RowsType, HeldGrow DEF QuotaHeld, Held
  <2>2. CASE Held(o)' \subseteq Held(o)
    BY <1>0, <2>1, <2>2, Monotone
  <2>3. CASE ~(Held(o)' \subseteq Held(o))
    <3>1. PICK m \in Messages : Reserve(m) /\ target[m] \in OwnedBy(o)
      BY <2>3, HeldGrow
    <3>2. Held(o)' \subseteq Held(o) \cup {m}
      BY <1>1, <3>1, HeldGrow
    <3>3. {m} \in SUBSET Messages
      OBVIOUS
    <3>4. TotalSize[Held(o)'] <= TotalSize[Held(o)] + TotalSize[{m}]
      BY <1>2, <2>1, <3>2
    <3>5. TotalSize[Held(o)] + TotalSize[{m}] <= MaxOwnerBytes
      BY <1>1, <3>1
    <3>6. QED BY <1>0, <2>1, <3>3, <3>4, <3>5
  <2>4. QED BY <2>2, <2>3
<1>5. QED BY <1>3, <1>4 DEF QuotaHeld, Held

LEMMA QuotaInit == Init => QuotaHeld
<1> SUFFICES ASSUME Init PROVE QuotaHeld
  OBVIOUS
<1>1. \A i \in Inboxes : Rows(i) = {} /\ ~InboxExists(i)
  BY DEF Init, Rows, Present, InboxExists, NoInbox
<1>2. \A o \in Owners : UNION {Rows(i) : i \in OwnedBy(o)} = {}
  BY <1>1 DEF OwnedBy
<1>3. QED BY <1>1, <1>2, Measure, LimitsAssumption DEF QuotaHeld

\* However many receivers run at once, what an inbox or an account holds, pending
\* rows included, stays within every limit (the quota conjuncts of reserve's
\* INSERT ... SELECT).
THEOREM QuotasAreHeld == Spec => []QuotaHeld
  BY QuotaInit, QuotaStep, InvariantHolds, PTL DEF Spec
=============================================================================
