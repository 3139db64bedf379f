----------------------------- MODULE AgentGraph -----------------------------
(* graph.ts: the blocking calls of one session's agents, and the marks that   *)
(* make a join wait for a result newer than the joiner's last message.        *)
EXTENDS Integers, FiniteSets, Sequences

CONSTANTS Main, Children, User, None

Agents == Children \cup {Main}

VARIABLES
    calls,      \* the calls under way, each at the await it stands at
    sent        \* markSent: the target's result number at the last message

Call == [pc |-> "joined", from |-> None, to |-> None, ids |-> {}, sub |-> 0, fg |-> FALSE]
Unmarked == [w \in Agents |-> [t \in Children |-> -1]]

GraphInit == calls = {} /\ sent = Unmarked

\* A hold, by a join or a foreground spawn.
Held(a) == {c \in calls : c.pc \in {"spawned", "joined"} /\ c.from = a}
Joining(a) == {c \in Held(a) : c.pc = "joined"}
Waits(a) == UNION {c.ids : c \in Held(a)}

\* cycle: following the holds from ids leads back to the waiter, that is, no set
\* of agents has ids and all they wait for but not the waiter.
MutantClosesCycle(w, ids) == w \in ids
ClosesCycle(w, ids) ==
    \A C \in SUBSET Agents :
        ids \subseteq C /\ (\A a \in C : Waits(a) \subseteq C) => w \in C
=============================================================================
