----------------------------- MODULE KeyCustody -----------------------------
(***************************************************************************)
(* Who answers for a provider key.  A key is made for one generation of an  *)
(* account, comes perhaps to serve it, is owed to its provider when the     *)
(* generation ends, and dies; it never goes back.                          *)
(***************************************************************************)
EXTENDS Naturals

CONSTANTS Generations, Keys, Backends

VARIABLES
    current,    \* the generation that has the address, or 0
    ended,      \* the generations retired
    custody,    \* "unborn", "minted", the backend it serves, "owed" or "dead"
    owner,      \* the generation a key was made for
    mishaps     \* failures so far

Init ==
    /\ current = 0 /\ ended = {} /\ mishaps = 0
    /\ custody = [k \in Keys |-> "unborn"]
    /\ owner = [k \in Keys |-> 0]

Grant ==
    /\ current = 0 /\ current' \in Generations \ ended
    /\ UNCHANGED <<ended, custody, owner, mishaps>>

\* A generation ends for good, together with the service of its keys.
End ==
    /\ current # 0 /\ current' = 0
    /\ ended' = ended \cup {current}
    /\ custody' = [k \in Keys |-> IF custody[k] \in Backends THEN "owed" ELSE custody[k]]
    /\ UNCHANGED <<owner, mishaps>>

\* A request may have been let in by a generation that has ended since.
Make(k) ==
    /\ \E g \in ended \cup {current} : g # 0 /\ owner' = [owner EXCEPT ![k] = g]
    /\ custody[k] = "unborn"
    /\ custody' = [custody EXCEPT ![k] = "minted"]
    /\ mishaps' \in {mishaps, mishaps + 1}
    /\ UNCHANGED <<current, ended>>

\* One living key for each backend, of the generation it was made for.
Serve(k) ==
    /\ owner[k] = current /\ custody[k] = "minted"
    /\ \E b \in Backends :
          /\ \A j \in Keys : custody[j] # b
          /\ custody' = [custody EXCEPT ![k] = b]
    /\ UNCHANGED <<current, ended, owner, mishaps>>

\* Only a key that serves nobody is deleted ...
Delete(k) ==
    /\ custody[k] \in {"minted", "owed"}
    /\ custody' = [custody EXCEPT ![k] = "dead"]
    /\ UNCHANGED <<current, ended, owner, mishaps>>

\* ... any other end of a key is somebody else's doing.
Vanish(k) ==
    /\ mishaps' = mishaps + 1
    /\ custody[k] \notin {"unborn", "dead"}
    /\ custody' = [custody EXCEPT ![k] = "dead"]
    /\ UNCHANGED <<current, ended, owner>>

Mishap == mishaps' = mishaps + 1 /\ UNCHANGED <<current, ended, custody, owner>>

Next ==
    \/ Grant \/ End \/ Mishap
    \/ \E k \in Keys : Make(k) \/ Serve(k) \/ Delete(k) \/ Vanish(k)

Spec == Init /\ [][Next]_<<current, ended, custody, owner, mishaps>>
=============================================================================
