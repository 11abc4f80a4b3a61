--------------------------- MODULE MCFeedRefresh ----------------------------
(* Deployments and workloads of FeedRefresh for TLC.                         *)
EXTENDS FeedRefresh

CONSTANTS a1, a2, f1, f2, r1, r2

\* SQLite, the scheduler, one refresh after the other, calls that fail.
OneRun == [datastore |-> FALSE, scheduler |-> TRUE, maxConcurrent |-> 1, runs |-> {r1},
           adders |-> {}, feeds |-> {f1}, fresh |-> {}, articles |-> {a1, a2}, aging |-> FALSE, faults |-> TRUE]
\* Two refreshes at the same time.
OverlapEnv == [OneRun EXCEPT !.runs = {r1, r2}, !.articles = {a1}, !.faults = FALSE]
\* Two sites that list the same article.
SharedEnv  == [OneRun EXCEPT !.feeds = {f1, f2}, !.maxConcurrent = 2,
                             !.articles = {a1}, !.faults = FALSE]
\* Without a scheduler: conditional requests and a cached feed list.
ServiceEnv == [OneRun EXCEPT !.scheduler = FALSE, !.articles = {a1}]
\* Datastore, and articles that were stored more than 90 days ago.
DatastoreEnv == [OneRun EXCEPT !.datastore = TRUE, !.aging = TRUE]
\* The same without failing calls.
AgingEnv == [DatastoreEnv EXCEPT !.faults = FALSE]
\* Two sites that list the same article, on Datastore, one feed at a time; the second
\* feed is added between refreshes.
TurnsEnv == [SharedEnv EXCEPT !.datastore = TRUE, !.maxConcurrent = 1,
                              !.adders = {r1}, !.fresh = {f2}]
\* A feed is added while refreshes run, with and without the scheduler.
AddingEnv        == [OneRun EXCEPT !.adders = {r2}, !.fresh = {f1}, !.faults = FALSE]
AddingServiceEnv == [AddingEnv EXCEPT !.scheduler = FALSE, !.articles = {a1}]
\* The same with calls and instances that fail.
AddingFaultsEnv  == [AddingEnv EXCEPT !.articles = {a1}, !.faults = TRUE]

AllEnvs == {OneRun, OverlapEnv, SharedEnv, ServiceEnv, DatastoreEnv, AgingEnv, TurnsEnv,
            AddingEnv, AddingServiceEnv, AddingFaultsEnv}
=============================================================================
