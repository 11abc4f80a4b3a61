---------------------------- MODULE MCLoginFlow ----------------------------
(* Workloads of LoginFlow for TLC.                                          *)
EXTENDS LoginFlow

CONSTANTS b1, b2, i1, i2

\* Two browsers and overlapping callbacks of the web client on SQLite.
WebEnv == [datastore |-> FALSE, insts |-> {i1}, browsers |-> {b1, b2}, mobile |-> {FALSE},
           clock |-> FALSE, crashes |-> FALSE, faults |-> TRUE]
\* The app, two instances that restart, time passing.
AppEnv == [WebEnv EXCEPT !.insts = {i1, i2}, !.browsers = {b1}, !.mobile = {TRUE},
                         !.clock = TRUE, !.crashes = TRUE, !.faults = FALSE]
\* One instance of Datastore, both clients.
OneEnv == [WebEnv EXCEPT !.datastore = TRUE, !.browsers = {b1}, !.mobile = BOOLEAN,
                         !.clock = TRUE, !.faults = FALSE]

AllEnvs == {WebEnv, AppEnv, OneEnv}
=============================================================================
