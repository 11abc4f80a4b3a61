------------------------------ MODULE Sessions ------------------------------
(***************************************************************************)
(* The session store of internal/auth: session rows in the database, one   *)
(* in-memory cache of sessions per running instance (App Engine runs up to *)
(* ten), and the requests that look sessions up, refresh and delete them.  *)
(*                                                                         *)
(* A request is a goroutine.  SessionManager holds no lock across a        *)
(* database call, so one step of the model is one database call or one     *)
(* critical section of cacheMu, and any other request, on this instance or *)
(* on another, may run in between.                                         *)
(***************************************************************************)
EXTENDS Naturals

CONSTANTS
    SessionIDs,   \* ids generateSessionID can return; an id is never drawn twice
    Users,
    Instances,    \* server processes, each with a SessionManager of its own
    Requests,     \* request goroutines
    SessionTTL,   \* life of a session row (7 days)
    CacheTTL,     \* life of a cache entry (SESSION_CACHE_TTL, 10 minutes)
    Envs,         \* the deployments and workloads considered
    None          \* nil

ASSUME TimeAssumption ==
    /\ SessionTTL \in Nat \ {0}
    /\ CacheTTL \in Nat \ {0}

\* A deployment: the backend InitDB opened, the instances that run, and the longest
\* time from reading a row to caching it (two Datastore calls); and its workload:
\* the kinds of request and how many at a time, the ids and users they may draw on,
\* the admins at the start (InitializeAdminUsers) and the users whose admin rights
\* change later, and the bound of the clock.
Env == [datastore: BOOLEAN, instances: SUBSET Instances, fillTime: Nat,
        kinds: SUBSET {"auth", "admin", "logout", "login"}, requests: SUBSET Requests,
        sids: SUBSET SessionIDs, users: SUBSET Users, admins: SUBSET Users,
        managed: SUBSET Users, maxTime: Nat]

ASSUME EnvsAssumption == Envs \subseteq Env

Row   == [user: Users, exp: Nat]
\* CachedSession and the Session it points to.  The copy of ExpiresAt in it is
\* left out: no code reads it.
Entry == [user: Users, admin: BOOLEAN, until: Nat]

ASSUME NoneAssumption ==
    None \notin Row \cup Entry \cup SessionIDs \cup Users \cup Instances \cup Nat

VARIABLES
    env,         \* chosen when the server starts
    now,         \* time.Now()
    row,         \* the sessions table
    isAdmin,     \* users.is_admin
    cache,       \* SessionManager.cache of every instance
    rq,          \* the requests in flight
    cron,        \* the /cron/cleanup-sessions handler
    owner,       \* history: the user a session was created for
    deletedAt,   \* history: when the row was first deleted
    demotedAt    \* history: when the user last lost admin rights

vars == <<env, now, row, isAdmin, cache, rq, cron, owner, deletedAt, demotedAt>>

-----------------------------------------------------------------------------
(* "auth" is RequireAuth, RequireAuthPage or OptionalAuth in front of any    *)
(* handler, "admin" is RequireAdmin, "logout" and "login" (the OAuth         *)
(* callback) are handlers that look the session up themselves, and "me" is   *)
(* the handler behind OptionalAuth that looks it up once more.               *)

PCs == {"idle", "lookup", "read", "loadUser", "fill", "refresh", "put", "touch",
        "serve", "dropRow", "dropCache", "create"}

\* The local variables of a request.  "loaded" is when it read the row; "entity"
\* is the user id in the Datastore entity UpdateSessionExpiry has read.
Req == [pc: PCs, kind: {"auth", "admin", "me", "logout", "login"}, inst: Instances \cup {None},
        sid: SessionIDs \cup {None}, user: Users \cup {None}, admin: BOOLEAN,
        exp: Nat, loaded: Nat, csrf: BOOLEAN, entity: Users \cup {None}]

\* A request at pc whose other locals hold nothing.
Request(pc, kind, i, s, csrf) ==
    [pc |-> pc, kind |-> kind, inst |-> i, sid |-> s, csrf |-> csrf, user |-> None,
     admin |-> FALSE, exp |-> 0, loaded |-> 0, entity |-> None]

Idle == Request("idle", "auth", None, None, FALSE)

\* Request q moves on to pc and forgets the locals it no longer needs.
At(q, pc) == Request(pc, q.kind, q.inst, q.sid, q.csrf)

CronIdle == [pc |-> "idle", keys |-> {}]

\* A request in the middle of SessionManager has the locals its next step reads.
LocalsOK(q) ==
    /\ q.pc \notin {"idle", "create"} => q.sid # None /\ q.inst # None
    /\ q.pc \in {"loadUser", "fill", "refresh", "put", "touch", "serve"} => q.user # None
    /\ q.pc = "put" => q.entity # None

TypeOK ==
    /\ env \in Envs
    /\ now \in Nat
    /\ row \in [SessionIDs -> Row \cup {None}]
    /\ isAdmin \in [Users -> BOOLEAN]
    /\ cache \in [Instances -> [SessionIDs -> Entry \cup {None}]]
    /\ rq \in [Requests -> Req]
    /\ \A r \in Requests : LocalsOK(rq[r])
    /\ cron \in [pc: {"idle", "delete", "cache"}, keys: SUBSET SessionIDs]
    /\ owner \in [SessionIDs -> Users \cup {None}]
    /\ deletedAt \in [SessionIDs -> Nat \cup {None}]
    /\ demotedAt \in [Users -> Nat \cup {None}]

Init ==
    /\ env \in Envs
    /\ now = 0
    /\ row = [s \in SessionIDs |-> None]
    /\ isAdmin = [u \in Users |-> u \in env.admins]
    /\ cache = [i \in Instances |-> [s \in SessionIDs |-> None]]
    /\ rq = [r \in Requests |-> Idle]
    /\ cron = CronIdle
    /\ owner = [s \in SessionIDs |-> None]
    /\ deletedAt = [s \in SessionIDs |-> None]
    /\ demotedAt = [u \in Users |-> None]

history == <<owner, deletedAt, demotedAt>>

\* The row of every session in S is deleted from the table.
DeleteRows(S) ==
    /\ row' = [s \in SessionIDs |-> IF s \in S THEN None ELSE row[s]]
    /\ deletedAt' = [s \in SessionIDs |->
                       IF s \in S /\ row[s] # None /\ deletedAt[s] = None
                         THEN now ELSE deletedAt[s]]

Expired(s) == row[s] # None /\ now > row[s].exp

Goto(r, pc) == rq' = [rq EXCEPT ![r].pc = pc]
ToServe(r)  == rq' = [rq EXCEPT ![r] = [At(rq[r], "serve") EXCEPT !.user = rq[r].user]]

-----------------------------------------------------------------------------
(* A request arrives with a cookie that was once issued, at any instance.    *)
Begin(r, kind, i, s) ==
    /\ rq[r].pc = "idle"
    /\ owner[s] # None
    /\ rq' = [rq EXCEPT ![r] = Request("lookup", kind, i, s, FALSE)]
    /\ UNCHANGED <<env, now, row, isAdmin, cache, cron, history>>

\* The OAuth callback of a browser that has no session cookie.  env.sids bounds the
\* sessions ever created.
BeginLogin(r, i) ==
    /\ rq[r].pc = "idle"
    /\ \E s \in env.sids : owner[s] = None
    /\ rq' = [rq EXCEPT ![r] = Request("create", "login", i, None, FALSE)]
    /\ UNCHANGED <<env, now, row, isAdmin, cache, cron, history>>

(* What the caller does once GetSession has returned a session of user u.    *)
\* The middleware lets the request through and calls RefreshSession.
Admit(r, u, adm) ==
    /\ rq[r].kind = "auth" \/ (rq[r].kind = "admin" /\ adm)
    /\ rq' = [rq EXCEPT ![r] = [At(rq[r], "refresh") EXCEPT !.user = u,
                                  !.exp = now + SessionTTL]]

\* RequireAdmin answers 403; Me has its session id; the CSRF check of Logout fails.
Stop(r, adm) ==
    /\ \/ rq[r].kind = "admin" /\ ~adm
       \/ rq[r].kind = "me"
       \/ rq[r].kind = "logout" /\ ~rq[r].csrf
    /\ rq' = [rq EXCEPT ![r] = Idle]

\* The CSRF middleware of /auth/logout passes; Logout looks the session up again.
PassCSRF(r) ==
    /\ rq[r].kind = "logout" /\ ~rq[r].csrf
    /\ rq' = [rq EXCEPT ![r] = Request("lookup", "logout", rq[r].inst, rq[r].sid, TRUE)]

\* Logout, and Callback for the previous session, call DeleteSession.
EndSession(r) ==
    /\ rq[r].kind = "login" \/ (rq[r].kind = "logout" /\ rq[r].csrf)
    /\ rq' = [rq EXCEPT ![r] = At(rq[r], "dropRow")]

Found(r, u, adm) == Admit(r, u, adm) \/ Stop(r, adm) \/ PassCSRF(r) \/ EndSession(r)

\* GetSession returned no session: every caller but the callback gives up.
NotFound(r) ==
    rq' = [rq EXCEPT ![r] = IF rq[r].kind = "login"
                              THEN At(rq[r], "create") ELSE Idle]

-----------------------------------------------------------------------------
(* GetSession                                                                *)

\* Mutant of Lookup: the entry is still used at the instant it expires.
LookupLate(r) ==
    LET c == cache[rq[r].inst][rq[r].sid]
    IN  /\ rq[r].pc = "lookup"
        /\ \/ c # None /\ now <= c.until /\ Found(r, c.user, c.admin)
           \/ ~(c # None /\ now <= c.until) /\ Goto(r, "read")
        /\ UNCHANGED <<env, now, row, isAdmin, cache, cron, history>>

\* The read lock of cacheMu.  A hit does not look at Session.ExpiresAt.
Lookup(r) ==
    LET c == cache[rq[r].inst][rq[r].sid]
    IN  /\ rq[r].pc = "lookup"
        /\ \/ c # None /\ now < c.until /\ Found(r, c.user, c.admin)
           \/ ~(c # None /\ now < c.until) /\ Goto(r, "read")
        /\ UNCHANGED <<env, now, row, isAdmin, cache, cron, history>>

\* db.GetSession: no row or an error, an expired row, a live row.
ReadRow(r) ==
    LET s == rq[r].sid
    IN  /\ rq[r].pc = "read"
        /\ \/ NotFound(r)
           \/ Expired(s) /\ Goto(r, "dropRow")
           \/ /\ row[s] # None /\ ~Expired(s)
              /\ rq' = [rq EXCEPT ![r].pc = "loadUser", ![r].user = row[s].user,
                                  ![r].loaded = now]
        /\ UNCHANGED <<env, now, row, isAdmin, cache, cron, history>>

\* Mutant of LoadUser: a missing user is not an error and leaves a nil user.
LoadNilUser(r) ==
    /\ rq[r].pc = "loadUser"
    /\ rq' = [rq EXCEPT ![r].pc = "fill", ![r].user = None]
    /\ UNCHANGED <<env, now, row, isAdmin, cache, cron, history>>

\* db.GetUserByID.
LoadUser(r) ==
    /\ rq[r].pc = "loadUser"
    /\ \/ NotFound(r)
       \/ rq' = [rq EXCEPT ![r].pc = "fill", ![r].admin = isAdmin[rq[r].user]]
    /\ UNCHANGED <<env, now, row, isAdmin, cache, cron, history>>

\* Mutant of Fill: the cache is not keyed by the session.
FillAll(r) ==
    /\ rq[r].pc = "fill"
    /\ cache' = [cache EXCEPT ![rq[r].inst] = [s \in SessionIDs |->
                   [user |-> rq[r].user, admin |-> rq[r].admin, until |-> now + CacheTTL]]]
    /\ Found(r, rq[r].user, rq[r].admin)
    /\ UNCHANGED <<env, now, row, isAdmin, cron, history>>

\* The write lock of cacheMu.  Nothing checks that the row is still there.
Fill(r) ==
    /\ rq[r].pc = "fill"
    /\ cache' = [cache EXCEPT ![rq[r].inst][rq[r].sid] =
                   [user |-> rq[r].user, admin |-> rq[r].admin,
                    until |-> now + CacheTTL]]
    /\ Found(r, rq[r].user, rq[r].admin)
    /\ UNCHANGED <<env, now, row, isAdmin, cron, history>>

-----------------------------------------------------------------------------
(* RefreshSession                                                            *)

\* Mutant of Refresh: an upsert in place of the UPDATE.
RefreshUpsert(r) ==
    /\ rq[r].pc = "refresh"
    /\ row' = [row EXCEPT ![rq[r].sid] = [user |-> rq[r].user, exp |-> rq[r].exp]]
    /\ Goto(r, "touch")
    /\ UNCHANGED <<env, now, isAdmin, cache, cron, history>>

\* db.UpdateSessionExpiry.  SQLite updates the row where it is, if it is there;
\* Datastore reads the entity (an error if it is gone) and writes it back later.
\* The middleware ignores the error.
Refresh(r) ==
    LET s == rq[r].sid
    IN  /\ rq[r].pc = "refresh"
        /\ \/ ToServe(r) /\ UNCHANGED row
           \/ /\ ~env.datastore
              /\ row' = [row EXCEPT ![s] = IF row[s] = None THEN None
                                             ELSE [row[s] EXCEPT !.exp = rq[r].exp]]
              /\ Goto(r, "touch")
           \/ /\ env.datastore /\ row[s] # None
              /\ rq' = [rq EXCEPT ![r].pc = "put", ![r].entity = row[s].user]
              /\ UNCHANGED row
        /\ UNCHANGED <<env, now, isAdmin, cache, cron, history>>

\* The second half of the Datastore update: Put of the whole entity.
Put(r) ==
    /\ rq[r].pc = "put"
    /\ \/ ToServe(r) /\ UNCHANGED row
       \/ /\ row' = [row EXCEPT ![rq[r].sid] =
                                [user |-> rq[r].entity, exp |-> rq[r].exp]]
          /\ Goto(r, "touch")
    /\ UNCHANGED <<env, now, isAdmin, cache, cron, history>>

\* Mutant of Touch: refreshing the session also prolongs its cache entry.
TouchProlongs(r) ==
    LET c == cache[rq[r].inst][rq[r].sid]
    IN  /\ rq[r].pc = "touch"
        /\ cache' = [cache EXCEPT ![rq[r].inst][rq[r].sid] =
                       IF c = None THEN None ELSE [c EXCEPT !.until = now + CacheTTL]]
        /\ ToServe(r)
        /\ UNCHANGED <<env, now, row, isAdmin, cron, history>>

\* The write lock of cacheMu: the cached copy, if there is one, gets the new
\* ExpiresAt, and keeps its CacheExpires.
Touch(r) ==
    /\ rq[r].pc = "touch"
    /\ ToServe(r)
    /\ UNCHANGED <<env, now, row, isAdmin, cache, cron, history>>

\* The handler runs and the request ends; Me first looks the session up again.
Serve(r) ==
    /\ rq[r].pc = "serve"
    /\ \/ rq' = [rq EXCEPT ![r] = Idle]
       \/ /\ rq[r].kind = "auth"
          /\ rq' = [rq EXCEPT ![r] = Request("lookup", "me", rq[r].inst, rq[r].sid, FALSE)]
    /\ UNCHANGED <<env, now, row, isAdmin, cache, cron, history>>

-----------------------------------------------------------------------------
(* DeleteSession: the row first (an error is only logged), then the entry of *)
(* this instance.                                                            *)
DropRow(r) ==
    /\ rq[r].pc = "dropRow"
    /\ \/ DeleteRows({rq[r].sid})
       \/ UNCHANGED <<row, deletedAt>>
    /\ Goto(r, "dropCache")
    /\ UNCHANGED <<env, now, isAdmin, cache, cron, owner, demotedAt>>

DropCache(r) ==
    /\ rq[r].pc = "dropCache"
    /\ cache' = [cache EXCEPT ![rq[r].inst][rq[r].sid] = None]
    /\ NotFound(r)
    /\ UNCHANGED <<env, now, row, isAdmin, cron, history>>

(* CreateSession: a new id, a row, nothing in the cache.                     *)
CreateSession(r, s, u) ==
    /\ rq[r].pc = "create"
    /\ owner[s] = None
    /\ row' = [row EXCEPT ![s] = [user |-> u, exp |-> now + SessionTTL]]
    /\ owner' = [owner EXCEPT ![s] = u]
    /\ rq' = [rq EXCEPT ![r] = Idle]
    /\ UNCHANGED <<env, now, isAdmin, cache, cron, deletedAt, demotedAt>>

CreateFails(r) ==
    /\ rq[r].pc = "create"
    /\ rq' = [rq EXCEPT ![r] = Idle]
    /\ UNCHANGED <<env, now, row, isAdmin, cache, cron, history>>

-----------------------------------------------------------------------------
(* The cron handler CleanupExpiredSessions.                                  *)

\* Mutant of CronRows: the query asks for the sessions that have not expired.
CronLiveRows ==
    /\ cron.pc = "idle"
    /\ cron' = [pc |-> "delete", keys |-> {s \in SessionIDs : row[s] # None /\ ~Expired(s)}]
    /\ UNCHANGED <<env, now, row, isAdmin, cache, rq, history>>

\* db.DeleteExpiredSessions.  SQLite deletes in one statement; Datastore queries
\* the keys and deletes them in a second call.  An error ends the handler.
CronRows ==
    /\ cron.pc = "idle"
    /\ \/ /\ ~env.datastore
          /\ DeleteRows({s \in SessionIDs : Expired(s)})
          /\ cron' = [cron EXCEPT !.pc = "cache"]
       \/ /\ env.datastore
          /\ cron' = [pc |-> "delete", keys |-> {s \in SessionIDs : Expired(s)}]
          /\ UNCHANGED <<row, deletedAt>>
    /\ UNCHANGED <<env, now, isAdmin, cache, rq, owner, demotedAt>>

CronDelete ==
    /\ cron.pc = "delete"
    /\ DeleteRows(cron.keys)
    /\ cron' = [pc |-> "cache", keys |-> {}]
    /\ UNCHANGED <<env, now, isAdmin, cache, rq, owner, demotedAt>>

CronFails ==
    /\ cron.pc = "delete"
    /\ cron' = CronIdle
    /\ UNCHANGED <<env, now, row, isAdmin, cache, rq, history>>

\* CleanupExpiredCache of the instance that runs the handler.
CronCache(i) ==
    /\ cron.pc = "cache"
    /\ cache' = [cache EXCEPT ![i] =
                   [s \in SessionIDs |->
                      IF cache[i][s] # None /\ now > cache[i][s].until
                        THEN None ELSE cache[i][s]]]
    /\ cron' = CronIdle
    /\ UNCHANGED <<env, now, row, isAdmin, rq, history>>

-----------------------------------------------------------------------------
(* SetUserAdmin from the admin API or the command line changes the users     *)
(* table and no cached session.                                              *)
SetUserAdmin(u, b) ==
    /\ isAdmin' = [isAdmin EXCEPT ![u] = b]
    /\ demotedAt' = [demotedAt EXCEPT ![u] = IF isAdmin[u] /\ ~b THEN now ELSE @]
    /\ UNCHANGED <<env, now, row, cache, rq, cron, owner, deletedAt>>

\* App Engine stops and starts instances: the cache and the requests are lost.
Restart(i) ==
    /\ cache' = [cache EXCEPT ![i] = [s \in SessionIDs |-> None]]
    /\ rq' = [r \in Requests |-> IF rq[r].inst = i THEN Idle ELSE rq[r]]
    /\ UNCHANGED <<env, now, row, isAdmin, cron, history>>

\* Time passes; a fill takes at most env.fillTime.
Tick ==
    /\ now < env.maxTime
    /\ \A r \in Requests : rq[r].pc \in {"loadUser", "fill"} => now < rq[r].loaded + env.fillTime
    /\ now' = now + 1
    /\ UNCHANGED <<env, row, isAdmin, cache, rq, cron, history>>

Step(r) ==
    \/ Lookup(r) \/ ReadRow(r) \/ LoadUser(r) \/ Fill(r)
    \/ Refresh(r) \/ Put(r) \/ Touch(r) \/ Serve(r)
    \/ DropRow(r) \/ DropCache(r) \/ CreateFails(r)
    \/ \E s \in env.sids, u \in env.users : CreateSession(r, s, u)

Cron == CronRows \/ CronDelete \/ CronFails \/ \E i \in env.instances : CronCache(i)

Next ==
    \/ \E r \in env.requests, i \in env.instances :
          \/ BeginLogin(r, i)
          \/ \E k \in env.kinds, s \in SessionIDs : Begin(r, k, i, s)
    \/ \E r \in Requests : Step(r)
    \/ Cron
    \/ \E u \in env.managed, b \in BOOLEAN : SetUserAdmin(u, b)
    \/ \E i \in env.instances : Restart(i)
    \/ Tick

Spec == Init /\ [][Next]_vars

\* Cron calls the cleanup again and again, and the deletion does not fail forever.
FairSpec == Spec /\ WF_vars(Cron) /\ SF_vars(CronDelete)

-----------------------------------------------------------------------------
(* Correctness.                                                              *)

\* A middleware has let the request through and its handler will run.
Admitted(r) == rq[r].pc \in {"refresh", "put", "touch", "serve"}

\* A request runs as the user its session was created for, whichever of the
\* row, the cache entry and the in-flight copy the user was taken from
\* (GetSession, RequireAuth).
SessionIdentity ==
    \A r \in Requests : Admitted(r) => rq[r].user = owner[rq[r].sid]

\* The step lets request r through.
Admits(r) == ~Admitted(r) /\ Admitted(r)'

\* Session s was deleted a fill and a cache lifetime ago, or earlier.
DeadLongAgo(s) ==
    deletedAt[s] # None /\ now >= deletedAt[s] + env.fillTime + CacheTTL

\* A deleted session stops working: once a fill and a cache lifetime have passed no
\* instance admits it, although a lookup in flight may put the session back in a
\* cache after DeleteSession cleared it.  This holds on SQLite (session.go
\* GetSession against DeleteSession).
RevocationBound ==
    [][\A r \in Requests :
         ~env.datastore /\ Admits(r) => ~DeadLongAgo(rq[r].sid)]_vars

\* docs/authentication.md says of /auth/logout "End session": the same on Datastore.
LogoutEnds ==
    [][\A r \in Requests : Admits(r) => ~DeadLongAgo(rq[r].sid)]_vars

\* RequireAdmin trusts the cached user: on every instance and either backend admin
\* rights outlive their removal by less than a fill and a cache lifetime.
AdminBound ==
    [][\A r \in Requests :
         Admits(r) /\ rq[r].kind = "admin"
           => LET u == rq'[r].user
              IN  \/ isAdmin[u]
                  \/ demotedAt[u] # None /\ now < demotedAt[u] + env.fillTime + CacheTTL]_vars

\* On SQLite a deleted row never comes back (UpdateSessionExpiry against
\* DeleteSession).
NoResurrection ==
    [][\A s \in SessionIDs :
         ~env.datastore /\ owner[s] # None /\ row[s] = None => row'[s] = None]_vars

\* docs/authentication.md: expired sessions are removed by the cron job, unless a
\* request renews them first.
ExpiredRowsRemoved == \A s \in SessionIDs : Expired(s) ~> ~Expired(s)

-----------------------------------------------------------------------------
(* The service that the store implements.                                    *)

\* The session and the user that a request was let through with.
Serving == [r \in Requests |-> IF Admitted(r) THEN [sid |-> rq[r].sid, user |-> rq[r].user]
                                             ELSE None]

Service == INSTANCE SessionService WITH
    grace   <- env.fillTime + CacheTTL,
    strict  <- ~env.datastore,
    ended   <- deletedAt,
    serving <- Serving

\* Rows, caches and requests that fail half-way, are lost and overlap look from outside
\* like a single store: every step is one of SessionService's or changes nothing there.
ImplementsService == Service!Spec
=============================================================================
