--------------------------- MODULE AccountInvariant ---------------------------
(***************************************************************************)
(* The inductive invariant of AccountKeys: what every await of a request or *)
(* of a scheduled invocation leaves true for the others.                    *)
(***************************************************************************)
EXTENDS AccountKeys

\* A row is a generation with a token of its own, a token belongs to one
\* generation, and no fence of the current one was ever recorded.
TokenInv ==
    /\ account.present => account.gen # 0 /\ account.token # 0
    /\ \A r \in Requests :
          account.present /\ req[r].token = account.token
            => req[r].gen = account.gen
    /\ \A c \in Crons : cron[c].pc = "record" => cron[c].at \in ledger

\* Whatever names a key names it for the generation that it was minted for.
LineageInv ==
    /\ KeyLineage
    /\ \A r \in Requests :
          req[r].minted # 0 => lineage[req[r].minted] = req[r].gen

\* A key is in one place: with its minter, in the row, or in the outbox.
PlaceInv ==
    /\ RetirementSparesCurrent
    /\ \A r \in Requests :
          LET k == req[r].minted IN
          k # 0 => /\ req[r].pc \in {"swap", "destroy"}
                   /\ ~Stored(k) /\ ~Outboxed(k)
                   /\ \A s \in Requests : s # r => req[s].minted # k

\* The outbox rows a scheduled invocation has read.
Read(c) == cron[c].rows \cup {cron[c].row}

\* y is what an overlapping invocation may have left of row x.
Copies(x, y) == x.id = y.id => \A b \in Backends : x.key[b] \in {0, y.key[b]}

\* A row read earlier is never another row of the same id, and an overlapping
\* invocation has done nothing to it but null its keys.
OutboxInv ==
    /\ \A x, y \in outbox : x.id = y.id => x = y
    /\ \A x \in outbox : x.id # NoRow.id
    /\ \A x \in outbox, c \in Crons : \A y \in Read(c) : Copies(x, y)

\* What an invocation knows to be dead: the key a request replaces, the key
\* whose deletion the provider confirmed.
DeadInv ==
    /\ \A r \in Requests :
          req[r].pc \in {"mint", "swap"} => req[r].key \notin live
    /\ \A c \in Crons :
          cron[c].pc = "null" => cron[c].row.key[cron[c].b] \notin live

\* Where there is no row there is no key.
EmptyInv == ~account.present => account.key = NoKeys

\* A request past its authentication carries a generation that had the address,
\* and one that lost it is in the ledger.
LetIn == {"activity", "send", "mint", "swap", "destroy", "adopt"}
BornInv ==
    /\ ~account.present => account.gen = 0
    /\ \A r \in Requests : req[r].pc \in LetIn =>
          req[r].gen # 0 /\ req[r].gen \in ledger \cup {account.gen}

\* A key that an invocation is going to delete, and that still lives, is in the
\* outbox still: whoever took it out of there had confirmed its deletion.
OwedInv ==
    \A c \in Crons : \A y \in Read(c) : \A b \in Backends :
        y.key[b] \in live => Outboxed(y.key[b])

\* Nothing is assumed of failures here ...
IInv == TypeOK /\ TokenInv /\ LineageInv /\ PlaceInv

\* ... here a failed lookup is not taken for an answer ...
Trusted == "lookup_fails" \notin FaultKinds
LifeInv == OutboxInv /\ DeadInv /\ EmptyInv /\ BornInv /\ OwedInv

\* ... and here no key is lost by a failure the code has no record of.
Recorded ==
    FaultKinds \cap {"mint_lost", "destroy_fails", "request_dies",
                     "lookup_fails"} = {}
KInv == LifeInv /\ KeysAccountedFor
===============================================================================
