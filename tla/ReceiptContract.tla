-------------------------- MODULE ReceiptContract --------------------------
(***************************************************************************)
(* What reception promises, without its steps (inbox/DESIGN.md "Lifecycle  *)
(* and cleanup", as worker.js realises it).  An endpoint opens once, closes *)
(* for ever and is erased when nothing addressed to it is left.  A receipt  *)
(* is offered to an open endpoint, may come to be held there, and once it   *)
(* is withdrawn it never shows again.                                       *)
(***************************************************************************)
CONSTANTS Inboxes, Messages

VARIABLES
    endpoint,   \* "unborn", "open", "closed" or "erased"
    receipt,    \* "none", "offered", "held", "withdrawn" or "erased"
    target      \* the endpoint a receipt is addressed to

cvars == <<endpoint, receipt, target>>

ContractInit ==
    /\ endpoint = [i \in Inboxes |-> "unborn"]
    /\ receipt = [m \in Messages |-> "none"]
    /\ target \in [Messages -> Inboxes]

Open(i) ==
    /\ endpoint[i] = "unborn"
    /\ endpoint' = [endpoint EXCEPT ![i] = "open"]
    /\ UNCHANGED <<receipt, target>>

Offer(m) ==
    /\ receipt[m] = "none" /\ endpoint[target[m]] = "open"
    /\ receipt' = [receipt EXCEPT ![m] = "offered"]
    /\ UNCHANGED <<endpoint, target>>

Hold(m) ==
    /\ receipt[m] = "offered" /\ endpoint[target[m]] = "open"
    /\ receipt' = [receipt EXCEPT ![m] = "held"]
    /\ UNCHANGED <<endpoint, target>>

\* Endpoints close together with all they hold; retention may end anywhere.
Close(is, ms) ==
    /\ \A i \in is : endpoint[i] = "open"
    /\ \A m \in ms : receipt[m] \in {"offered", "held"}
    /\ \A m \in Messages : receipt[m] = "held" /\ target[m] \in is => m \in ms
    /\ endpoint' = [i \in Inboxes |-> IF i \in is THEN "closed" ELSE endpoint[i]]
    /\ receipt' = [m \in Messages |-> IF m \in ms THEN "withdrawn" ELSE receipt[m]]
    /\ UNCHANGED target

Erase(ms) ==
    /\ \A m \in ms : receipt[m] = "withdrawn"
    /\ receipt' = [m \in Messages |-> IF m \in ms THEN "erased" ELSE receipt[m]]
    /\ UNCHANGED <<endpoint, target>>

EraseEndpoint(i) ==
    /\ endpoint[i] = "closed"
    /\ \A m \in Messages : target[m] = i => receipt[m] \in {"none", "erased"}
    /\ endpoint' = [endpoint EXCEPT ![i] = "erased"]
    /\ UNCHANGED <<receipt, target>>

ContractNext ==
    \/ \E i \in Inboxes : Open(i) \/ EraseEndpoint(i)
    \/ \E m \in Messages : Offer(m) \/ Hold(m)
    \/ \E is \in SUBSET Inboxes, ms \in SUBSET Messages : Close(is, ms)
    \/ \E ms \in SUBSET Messages : Erase(ms)

ContractSpec == ContractInit /\ [][ContractNext]_cvars
=============================================================================
