------------------------------ MODULE MCPaging ------------------------------
(* Workloads of Paging for TLC.                                              *)
EXTENDS Paging

\* SQLite, pages of one article, everything else changing.
OneEnv == [datastore |-> FALSE, limit |-> 1, unread |-> BOOLEAN, zones |-> FALSE,
           eras |-> FALSE, churn |-> TRUE, faults |-> FALSE]
TwoEnv == [OneEnv EXCEPT !.limit = 2, !.churn = FALSE]
\* Datastore within its window.
StoreEnv == [OneEnv EXCEPT !.datastore = TRUE, !.limit = 2, !.unread = {FALSE}, !.churn = FALSE]

\* Datastore with failing queries and filtered lists, where only the types are promised.
FaultEnv == [StoreEnv EXCEPT !.limit = 1, !.unread = {TRUE}, !.faults = TRUE]

\* Dates of year 1: what is promised holds until one arrives.
ErasEnv == [OneEnv EXCEPT !.unread = {FALSE}, !.eras = TRUE, !.churn = FALSE]

AllEnvs == {OneEnv, TwoEnv, StoreEnv, FaultEnv, ErasEnv}

\* Publishers in other zones (SQLite).
ZoneEnvs == {[OneEnv EXCEPT !.zones = TRUE, !.churn = FALSE]}
\* Unread articles only (Datastore).
UnreadEnvs == {[FaultEnv EXCEPT !.faults = FALSE]}
=============================================================================
