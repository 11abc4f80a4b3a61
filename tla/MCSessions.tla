----------------------------- MODULE MCSessions -----------------------------
(* Deployments and workloads of Sessions for TLC.                            *)
EXTENDS Sessions

CONSTANTS i1, i2, r1, r2, s1, s2, u1, u2

\* One session of one user, served by one instance.
OneSession == [datastore |-> FALSE, instances |-> {i1}, fillTime |-> 0,
               kinds |-> {"auth", "logout"}, requests |-> {r1, r2},
               sids |-> {s1}, users |-> {u1}, admins |-> {u1}, managed |-> {},
               maxTime |-> 3]

\* SQLite: every kind of request while a lookup takes time.
SqliteEnv == [OneSession EXCEPT !.fillTime = 1,
                !.kinds = {"auth", "admin", "logout", "login"}]

\* Datastore and two instances: a user who gains and loses admin rights.
AdminEnv == [OneSession EXCEPT !.datastore = TRUE, !.instances = {i1, i2}, !.fillTime = 1,
               !.kinds = {"admin"}, !.requests = {r1}, !.managed = {u1}]

\* Two users and two sessions: logins that replace a session, requests of both.
TwoUsersEnv == [OneSession EXCEPT !.kinds = {"auth", "login"},
                  !.sids = {s1, s2}, !.users = {u1, u2}, !.maxTime = 0]

\* The cleanup cron on Datastore against requests that renew the session.
CronEnv == [OneSession EXCEPT !.datastore = TRUE, !.requests = {r1}, !.maxTime = 4]

AllEnvs    == {SqliteEnv, AdminEnv, TwoUsersEnv, CronEnv}
LogoutEnvs == {[OneSession EXCEPT !.datastore = TRUE]}
=============================================================================
