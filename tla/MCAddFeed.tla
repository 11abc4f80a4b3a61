------------------------------ MODULE MCAddFeed -----------------------------
(* Workloads of AddFeed for TLC.                                             *)
EXTENDS AddFeed

CONSTANTS h1, h2, u1, u2, w1, w2, x1, x2, x3

\* SQLite: two users add the same site at the same time.
SameSiteEnv == [datastore |-> FALSE, handlers |-> {h1, h2}, workers |-> {w1, w2},
                users |-> {u1, u2}, urls |-> {x1}]
\* Datastore: imports of one user whose goroutines outlive their requests.
ImportEnv == [datastore |-> TRUE, handlers |-> {h1}, workers |-> {w1, w2},
              users |-> {u1}, urls |-> {x1, x2}]
\* SQLite: one request beside one goroutine that its request has left behind.
LimitEnv == [ImportEnv EXCEPT !.datastore = FALSE, !.workers = {w1}, !.urls = {x1, x2, x3}]
\* SQLite: an import and an addition at the same time.
TwoEnv == [datastore |-> FALSE, handlers |-> {h1, h2}, workers |-> {w1, w2},
           users |-> {u1}, urls |-> {x1, x2}]

AllEnvs == {SameSiteEnv, ImportEnv, LimitEnv, TwoEnv}
=============================================================================
