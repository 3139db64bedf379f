-------------------------- MODULE InboxRefinement --------------------------
(***************************************************************************)
(* InboxStore implements ReceiptContract.  An endpoint is open exactly when *)
(* its row is active, inside its lifetime and not fenced; a receipt is held *)
(* exactly when its owner can see it.                                       *)
(***************************************************************************)
EXTENDS InboxStore

EndpointOf(i) ==
    CASE inbox[i].state = "none" -> "unborn"
      [] inbox[i].state = "gone" -> "erased"
      [] inbox[i].state = "destroying" -> "closed"
      [] OTHER -> IF /\ Outlives(inbox[i].expires_at, now)
                     /\ inbox[i].owner \notin retired
                  THEN "open" ELSE "closed"

ReceiptOf(m) ==
    CASE message[m].state = "none" -> "none"
      [] message[m].state = "pending" -> "offered"
      [] message[m].state = "gone" -> "erased"
      [] message[m].state = "deleting" -> "withdrawn"
      [] OTHER -> IF /\ EndpointOf(target[m]) = "open"
                     /\ message[m].received_at + Retention > now
                  THEN "held" ELSE "withdrawn"

Contract == INSTANCE ReceiptContract WITH
    endpoint <- [i \in Inboxes |-> EndpointOf(i)],
    receipt <- [m \in Messages |-> ReceiptOf(m)]

\* Every behaviour of reception, removal and destruction keeps the contract:
\* an ended endpoint never reopens, a receipt an owner stopped seeing never
\* reappears, and an erased endpoint has nothing left.
ImplementsContract == Contract!ContractSpec
=============================================================================
