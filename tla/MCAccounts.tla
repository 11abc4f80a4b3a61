---------------------------- MODULE MCAccounts ----------------------------
(* Workloads of Accounts for TLC.                                            *)
EXTENDS Accounts

CONSTANTS u1, u2, s1, s2, p1, p2, t1, t2

\* One user who may pay twice; events that fail, repeat and overlap.
PayEnv == [datastore |-> FALSE, kinds |-> {"checkout"}, users |-> {u1}, subs |-> {s1, s2},
           shells |-> {}, tokens |-> {}, initial |-> <<>>, ops |-> 2, changes |-> 1, faults |-> 1]
\* Datastore, and the user changes a setting meanwhile: whole entities collide.
CollideEnv == [PayEnv EXCEPT !.datastore = TRUE, !.kinds = {"checkout", "max"}, !.subs = {s1}]
\* Two admins, one of whom is configured after an email nobody has.
AdminEnv == [datastore |-> FALSE, kinds |-> {"admin", "grant", "startup"}, users |-> {u1, u2},
             subs |-> {}, shells |-> {}, tokens |-> {}, initial |-> <<u2, u1>>, ops |-> 3, changes |-> 0, faults |-> 0]
AdminStoreEnv == [AdminEnv EXCEPT !.datastore = TRUE, !.kinds = {"admin", "grant", "startup"},
                                  !.ops = 2, !.faults = 1]
\* The command line: tokens, and the commands that repair a subscription.
TokenEnv == [datastore |-> FALSE, kinds |-> {"startup"}, users |-> {u1}, subs |-> {},
             shells |-> {p1, p2}, tokens |-> {t1, t2}, initial |-> <<u1>>, ops |-> 0, changes |-> 0, faults |-> 0]
TokenStoreEnv == [TokenEnv EXCEPT !.datastore = TRUE]
RepairEnv == [datastore |-> FALSE, kinds |-> {"checkout", "fix", "setid", "startup"},
              users |-> {u1}, subs |-> {s1}, shells |-> {p1}, tokens |-> {t1}, initial |-> <<u1>>, ops |-> 2,
              changes |-> 0, faults |-> 0]

AllEnvs == {PayEnv, CollideEnv, AdminEnv, AdminStoreEnv, TokenEnv, TokenStoreEnv, RepairEnv}
=============================================================================
