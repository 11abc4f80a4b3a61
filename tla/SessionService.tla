--------------------------- MODULE SessionService ---------------------------
(***************************************************************************)
(* What the session store promises to the rest of the program, without     *)
(* caches, rows, instances or calls that fail: sessions belong to a user,  *)
(* are ended once, and a request runs as the user of its session unless    *)
(* the session was ended longer than a grace period ago.                   *)
(***************************************************************************)
EXTENDS Naturals

CONSTANTS SessionIDs, Users, Requests, None

VARIABLES
    now,
    grace,     \* how long an ended session may still be admitted
    strict,    \* the deployment keeps the grace period (SQLite)
    owner,     \* the user of a session
    ended,     \* when a session was ended
    serving    \* the session and the user that a request runs with

vars == <<now, grace, strict, owner, ended, serving>>

Init ==
    /\ now = 0
    /\ grace \in Nat
    /\ strict \in BOOLEAN
    /\ owner = [s \in SessionIDs |-> None]
    /\ ended = [s \in SessionIDs |-> None]
    /\ serving = [r \in Requests |-> None]

Create(s, u) ==
    /\ owner[s] = None
    /\ owner' = [owner EXCEPT ![s] = u]
    /\ UNCHANGED <<now, grace, strict, ended, serving>>

\* Logout, a login that replaces a session, and the clean-up, which ends many at once.
End(S) ==
    /\ \A s \in S : owner[s] # None /\ ended[s] = None
    /\ ended' = [s \in SessionIDs |-> IF s \in S THEN now ELSE ended[s]]
    /\ UNCHANGED <<now, grace, strict, owner, serving>>

Over(s) == ended[s] # None /\ now >= ended[s] + grace

Admit(r, s) ==
    /\ serving[r] = None
    /\ owner[s] # None
    /\ strict => ~Over(s)
    /\ serving' = [serving EXCEPT ![r] = [sid |-> s, user |-> owner[s]]]
    /\ UNCHANGED <<now, grace, strict, owner, ended>>

\* Requests are answered, or lost together with their instance.
Finish(R) ==
    /\ serving' = [r \in Requests |-> IF r \in R THEN None ELSE serving[r]]
    /\ UNCHANGED <<now, grace, strict, owner, ended>>

Tick == now' = now + 1 /\ UNCHANGED <<grace, strict, owner, ended, serving>>

Next ==
    \/ \E s \in SessionIDs, u \in Users : Create(s, u)
    \/ \E S \in SUBSET SessionIDs : End(S)
    \/ \E r \in Requests, s \in SessionIDs : Admit(r, s)
    \/ \E R \in SUBSET Requests : Finish(R)
    \/ Tick

Spec == Init /\ [][Next]_vars
=============================================================================
