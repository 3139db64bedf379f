--------------------------- MODULE DeliveryLedger ---------------------------
(* What the counting pipeline promises: content is recorded for a batch until *)
(* it is delivered, it is delivered whole, and it is delivered at most once.  *)
EXTENDS Naturals

CONSTANTS Batches
VARIABLES content, ledger

Init == /\ content \in [Batches -> Nat]
        /\ ledger = [b \in Batches |-> 0]

Record(b) == /\ ledger[b] = 0
             /\ content' \in [Batches -> Nat]
             /\ \A a \in Batches \ {b} : content'[a] = content[a]
             /\ UNCHANGED ledger

Deliver(b) == /\ ledger[b] = 0
              /\ ledger' = [ledger EXCEPT ![b] = content[b]]
              /\ UNCHANGED content

Spec == Init /\ [][\E b \in Batches : Record(b) \/ Deliver(b)]_<<content, ledger>>
=============================================================================
