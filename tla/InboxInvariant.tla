--------------------------- MODULE InboxInvariant ---------------------------
(***************************************************************************)
(* The inductive invariant of InboxStore: what the awaits between two D1 or *)
(* R2 calls of one invocation leave true for all the others.                *)
(***************************************************************************)
EXTENDS InboxStore

Early == {"new", "looked_up", "clocked"}
BeforeStore == Early \cup {"reserved", "putting"}
Ending == {"deleting", "gone"}

\* No put of m is running or can still be issued.
Settled(m) ==
    \/ message[m].state = "stored"
    \/ message[m].state \in Ending /\ target[m] \notin prefixes

RowsInv ==
    \A m \in Messages :
        inbox[target[m]].state = "none" => message[m].state = "none"

\* What destruction has promised about an inbox.
EndedInv ==
    \A i \in Inboxes :
        /\ inbox[i].state \in {"destroying", "gone"} => i \in prefixes
        /\ inbox[i].state = "gone" => Rows(i) = {}
        /\ inbox[i].state = "active" => inbox[i].owner \notin retired

\* What a reception invocation knows of its row and its object.
ReceiveInv ==
    \A m \in Messages :
        /\ rx[m].pc \in Early => message[m].state = "none"
        /\ message[m].state = "none" => m \notin blobs \cup inflight
        /\ rx[m].pc \in {"reserved", "putting", "recheck", "drop_object"}
             => message[m].state # "none"
        /\ rx[m].pc = "reserved" => m \notin blobs \cup inflight
        /\ rx[m].pc = "putting" /\ message[m].state = "pending"
             => m \in blobs \cup inflight
        /\ rx[m].pc = "drop_object" /\ message[m].state = "stored"
             => ~Live(target[m])
        /\ Settled(m) => m \notin inflight /\ rx[m].pc \notin BeforeStore

\* What removeMessages knows of the rows it has selected.
RemoveInv ==
    \A t \in Tasks :
        /\ rm[t].stage \in {"objects", "rows"}
             => \A m \in rm[t].ids : message[m].state \in Ending
        /\ rm[t].stage = "rows"
             => \A m \in rm[t].ids :
                   target[m] \in prefixes \/ m \notin blobs \cup inflight

\* What a sweep knows of the inbox or the objects it holds.
SweepInv ==
    \A s \in Sweepers :
        /\ sw[s].pc \in {"list", "purge", "relist", "erase"}
             => /\ inbox[sw[s].at].state \in {"destroying", "gone"}
                /\ Rows(sw[s].at) = {}
        /\ sw[s].pc = "purge" => \A m \in sw[s].objs : target[m] = sw[s].at
        /\ sw[s].pc = "check" => \A m \in sw[s].objs : message[m].state # "none"
        /\ sw[s].pc = "orphans"
             => \A m \in sw[s].objs : message[m].state \in Ending

IInv ==
    /\ TypeOK
    /\ RowsInv /\ EndedInv
    /\ ReceiveInv /\ RemoveInv /\ SweepInv
    /\ CountersExact /\ ObjectsTracked /\ VisibleHasObject
=============================================================================
