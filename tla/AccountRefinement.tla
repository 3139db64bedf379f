-------------------------- MODULE AccountRefinement --------------------------
(***************************************************************************)
(* AccountKeys implements KeyCustody.  A generation is ended once it is in  *)
(* the retirement ledger; a key is in the custody of whatever row names it, *)
(* and where none does it is still in its minter's hands.                   *)
(***************************************************************************)
EXTENDS AccountKeys

CustodyOf(k) ==
    IF k > keys THEN "unborn"
    ELSE IF k \notin live THEN "dead"
    ELSE IF account.key["openrouter"] = k THEN "openrouter"
    ELSE IF account.key["tinfoil"] = k THEN "tinfoil"
    ELSE IF Outboxed(k) THEN "owed" ELSE "minted"

Custody == INSTANCE KeyCustody WITH
    Generations <- 1 .. MaxTokens,
    Keys <- 1 .. MaxKeys,
    current <- account.gen,
    ended <- ledger,
    custody <- [k \in 1 .. MaxKeys |-> CustodyOf(k)],
    owner <- lineage,
    mishaps <- faults

\* Keys only go forward, from the request that minted them to the row of the
\* generation they were made for, to the outbox when it is retired, and to their
\* end; the code itself never deletes a key that serves.
KeepsCustody == Custody!Spec
=============================================================================
