-------------------------- MODULE MCArticleStatus ---------------------------
(* Deployments and workloads of ArticleStatus for TLC.                       *)
EXTENDS ArticleStatus

CONSTANTS a1, f1, r1, r2, u1, u2

OneFeed == [a \in Articles |-> f1]

\* SQLite: marks, stars, marks of all articles and re-added feeds of one user.
MarksEnv == [datastore |-> FALSE,
             kinds |-> {"mark", "star", "markAll", "subscribe"},
             requests |-> {r1, r2}, users |-> {u1}, faults |-> FALSE]
\* SQLite: a user who leaves and retakes a feed while the cleanup runs; two users, of
\* whom one may leave the feed that the other has marked.
LeavingEnv == [MarksEnv EXCEPT !.kinds = {"mark", "star", "subscribe", "unsubscribe", "cleanup"}]
CleanupEnv == [MarksEnv EXCEPT !.kinds = {"markAll", "unsubscribe", "cleanup"}, !.users = {u1, u2}]
\* Datastore: marks of one user; a feed left and retaken while the cleanup runs, with
\* and without articles that fail to load.
DatastoreMarksEnv == [MarksEnv EXCEPT !.datastore = TRUE, !.kinds = @ \ {"subscribe"}]
DatastoreCleanupEnvs ==
    {[datastore |-> TRUE, kinds |-> {"mark", "subscribe", "unsubscribe", "cleanup"},
      requests |-> {r1, r2}, users |-> {u1}, faults |-> b] : b \in BOOLEAN}

AllEnvs == {MarksEnv, LeavingEnv, CleanupEnv, DatastoreMarksEnv} \cup DatastoreCleanupEnvs
\* SQLite: one request at a time.
SequentialEnvs == {[MarksEnv EXCEPT !.requests = {r1}]}
=============================================================================
