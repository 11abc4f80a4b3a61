--------------------------- MODULE MCUnreadCounts ---------------------------
(* Deployments and workloads of UnreadCounts for TLC.                        *)
EXTENDS UnreadCounts, TLC

CONSTANTS a1, a2, f1, i1, i2, r1, r2, u1, u2

OneFeed == [a \in Articles |-> f1]

\* SQLite: every operation of one user while requests take time.
SqliteEnv == [datastore |-> FALSE, instances |-> {i1}, maxUsers |-> 0, latency |-> 1,
              kinds |-> AllKinds, requests |-> {r1, r2}, users |-> {u1}, maxTime |-> 4]
\* Datastore and two instances.
DatastoreEnv == [SqliteEnv EXCEPT !.datastore = TRUE, !.instances = {i1, i2},
                   !.maxUsers = 1, !.latency = 0, !.maxTime = 2]
\* More users than the cache holds.
FullEnv == [SqliteEnv EXCEPT !.maxUsers = 1, !.latency = 0, !.users = {u1, u2},
              !.kinds = {"counts", "markAll"}, !.maxTime = 2]

AllEnvs == {SqliteEnv, DatastoreEnv, FullEnv}

Symmetry == Permutations(Requests)
=============================================================================
