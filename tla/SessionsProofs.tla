--------------------------- MODULE SessionsProofs ---------------------------
(***************************************************************************)
(* Theorems about Sessions, for any numbers of sessions, users, instances  *)
(* and requests and for any lifetimes: its types, who is admitted and for  *)
(* how long, and that it implements SessionService.                        *)
(***************************************************************************)
EXTENDS Sessions, TLAPS

USE TimeAssumption, EnvsAssumption, NoneAssumption

-----------------------------------------------------------------------------
(* What the helpers return.                                                  *)

\* A new request is well typed.
LEMMA RequestType ==
  ASSUME NEW pc \in PCs, NEW kind \in {"auth", "admin", "me", "logout", "login"},
         NEW i \in Instances \cup {None}, NEW s \in SessionIDs \cup {None},
         NEW csrf \in BOOLEAN
  PROVE  Request(pc, kind, i, s, csrf) \in Req
  BY DEF Request, Req

\* So is a request that has ended.
LEMMA IdleType == Idle \in Req /\ Idle.pc = "idle"
  <1>1. Idle \in Req
    BY RequestType DEF Idle, PCs
  <1> QED
    BY <1>1 DEF Idle, Request

\* At keeps the kind, the instance and the session of a request.
LEMMA AtType ==
  ASSUME NEW q \in Req, NEW pc \in PCs
  PROVE  /\ At(q, pc) \in Req
         /\ At(q, pc).pc = pc
         /\ At(q, pc).kind = q.kind
         /\ At(q, pc).inst = q.inst
         /\ At(q, pc).sid = q.sid
  <1>1. At(q, pc) \in Req
    <2>1. /\ q.kind \in {"auth", "admin", "me", "logout", "login"}
          /\ q.inst \in Instances \cup {None}
          /\ q.sid \in SessionIDs \cup {None}
          /\ q.csrf \in BOOLEAN
      BY DEF Req
    <2> QED
      BY <2>1, RequestType DEF At
  <1> QED
    BY <1>1 DEF At, Request

\* Deleting rows keeps the types of the table and of its history.
LEMMA DeleteRowsType ==
  ASSUME TypeOK, NEW S, DeleteRows(S)
  PROVE  /\ row' \in [SessionIDs -> Row \cup {None}]
         /\ deletedAt' \in [SessionIDs -> Nat \cup {None}]
  BY DEF TypeOK, DeleteRows

\* The server starts well typed.
LEMMA InitType == Init => TypeOK
  <1> SUFFICES ASSUME Init PROVE TypeOK
    OBVIOUS
  <1>1. rq \in [Requests -> Req] /\ \A r \in Requests : rq[r].pc = "idle"
    BY IdleType DEF Init
  <1>2. cron \in [pc: {"idle", "delete", "cache"}, keys: SUBSET SessionIDs]
    BY DEF Init, CronIdle
  <1>3. cache \in [Instances -> [SessionIDs -> Entry \cup {None}]]
    BY DEF Init
  <1> QED
    BY <1>1, <1>2, <1>3 DEF Init, TypeOK, LocalsOK

-----------------------------------------------------------------------------
(* Type correctness of the steps.                                            *)

RequestsOK == rq \in [Requests -> Req] /\ \A r \in Requests : LocalsOK(rq[r])

\* One request moves on.
LEMMA MoveType ==
  ASSUME TypeOK, NEW r \in Requests, NEW q \in Req, LocalsOK(q),
         rq' = [rq EXCEPT ![r] = q]
  PROVE  RequestsOK'
  BY DEF TypeOK, RequestsOK, LocalsOK

\* A request moves on with the locals it has.
LEMMA GotoType ==
  ASSUME TypeOK, NEW r \in Requests, NEW pc \in PCs, Goto(r, pc),
         rq[r].pc \notin {"idle", "create"},
         pc \in {"loadUser", "fill", "refresh", "put", "touch", "serve"} => rq[r].user # None,
         pc # "put"
  PROVE  RequestsOK'
  <1> DEFINE q == [rq[r] EXCEPT !.pc = pc]
  <1>1. rq[r] \in Req /\ LocalsOK(rq[r])
    BY DEF TypeOK
  <1>2. q \in Req /\ LocalsOK(q)
    BY <1>1 DEF Req, LocalsOK
  <1>3. rq' = [rq EXCEPT ![r] = q]
    BY DEF Goto
  <1> QED
    BY <1>2, <1>3, MoveType

\* A request ends.
LEMMA IdleMove ==
  ASSUME TypeOK, NEW r \in Requests, rq' = [rq EXCEPT ![r] = Idle]
  PROVE  RequestsOK'
  BY IdleType, MoveType DEF LocalsOK

\* The caller of GetSession gets no session.
LEMMA NotFoundType ==
  ASSUME TypeOK, NEW r \in Requests, NotFound(r)
  PROVE  RequestsOK'
  <1>1. CASE rq[r].kind = "login"
    <2>1. /\ At(rq[r], "create") \in Req
          /\ At(rq[r], "create").pc = "create"
      BY AtType DEF TypeOK, PCs
    <2> QED
      BY <1>1, <2>1, MoveType DEF NotFound, LocalsOK
  <1>2. CASE rq[r].kind # "login"
    BY <1>2, IdleMove DEF NotFound
  <1> QED
    BY <1>1, <1>2

\* The caller of GetSession gets a session: the middlewares, Logout and Callback.
LEMMA FoundType ==
  ASSUME TypeOK, NEW r \in Requests, NEW u \in Users, NEW adm \in BOOLEAN,
         rq[r].pc \in {"lookup", "fill"}, Found(r, u, adm)
  PROVE  RequestsOK'
  <1>0. rq[r] \in Req /\ LocalsOK(rq[r])
    BY DEF TypeOK
  <1>a. rq[r].sid # None /\ rq[r].inst # None
    BY <1>0 DEF LocalsOK
  <1>1. CASE Admit(r, u, adm)
    <2> DEFINE q == [At(rq[r], "refresh") EXCEPT !.user = u, !.exp = now + SessionTTL]
    <2>1. At(rq[r], "refresh") \in Req
      BY <1>0, AtType DEF PCs
    <2>2. now + SessionTTL \in Nat
      BY DEF TypeOK
    <2>3. q \in Req
      BY <2>1, <2>2 DEF Req
    <2>4. q.pc = "refresh" /\ q.user = u /\ q.sid = rq[r].sid /\ q.inst = rq[r].inst
      <3>1. /\ At(rq[r], "refresh").pc = "refresh"
            /\ At(rq[r], "refresh").sid = rq[r].sid
            /\ At(rq[r], "refresh").inst = rq[r].inst
        BY <1>0, AtType DEF PCs
      <3> QED
        BY <2>1, <3>1 DEF Req
    <2>5. LocalsOK(q)
      BY <2>4, <1>a DEF LocalsOK
    <2> QED
      BY <1>1, <2>3, <2>5, MoveType DEF Admit
  <1>2. CASE Stop(r, adm)
    BY <1>2, IdleMove DEF Stop
  <1>3. CASE PassCSRF(r)
    <2> DEFINE q == Request("lookup", "logout", rq[r].inst, rq[r].sid, TRUE)
    <2>1. q \in Req
      <3>1. rq[r].inst \in Instances \cup {None} /\ rq[r].sid \in SessionIDs \cup {None}
        BY <1>0 DEF Req
      <3> QED
        BY <3>1, RequestType DEF PCs
    <2>2. LocalsOK(q)
      BY <1>a DEF LocalsOK, Request
    <2> QED
      BY <1>3, <2>1, <2>2, MoveType DEF PassCSRF
  <1>4. CASE EndSession(r)
    <2> DEFINE q == At(rq[r], "dropRow")
    <2>1. q \in Req /\ q.pc = "dropRow" /\ q.sid = rq[r].sid /\ q.inst = rq[r].inst
      BY <1>0, AtType DEF PCs
    <2>2. LocalsOK(q)
      BY <2>1, <1>a DEF LocalsOK
    <2> QED
      BY <1>4, <2>1, <2>2, MoveType DEF EndSession
  <1> QED
    BY <1>1, <1>2, <1>3, <1>4 DEF Found

\* The rest of the state is well typed.
StoreOK ==
    /\ env \in Envs
    /\ now \in Nat
    /\ row \in [SessionIDs -> Row \cup {None}]
    /\ isAdmin \in [Users -> BOOLEAN]
    /\ cache \in [Instances -> [SessionIDs -> Entry \cup {None}]]
    /\ cron \in [pc: {"idle", "delete", "cache"}, keys: SUBSET SessionIDs]
    /\ owner \in [SessionIDs -> Users \cup {None}]
    /\ deletedAt \in [SessionIDs -> Nat \cup {None}]
    /\ demotedAt \in [Users -> Nat \cup {None}]

\* The two halves of TypeOK.
LEMMA TypeSplit == (TypeOK <=> StoreOK /\ RequestsOK) /\ (TypeOK' <=> StoreOK' /\ RequestsOK')
  BY DEF TypeOK, StoreOK, RequestsOK

\* A deployment uses what the constants give it.
LEMMA EnvType ==
  ASSUME TypeOK
  PROVE  /\ env.datastore \in BOOLEAN
         /\ env.fillTime \in Nat
         /\ env.instances \subseteq Instances
         /\ env.requests \subseteq Requests
         /\ env.sids \subseteq SessionIDs
         /\ env.users \subseteq Users
         /\ env.managed \subseteq Users
         /\ env.kinds \subseteq {"auth", "admin", "logout", "login"}
  <1>1. env \in Env
    BY DEF TypeOK
  <1> QED
    BY <1>1 DEF Env

\* Between begin and end a request has a session, an instance and well-typed locals.
LEMMA InFlight ==
  ASSUME TypeOK, NEW r \in Requests
  PROVE  /\ rq[r] \in Req /\ LocalsOK(rq[r])
         /\ rq[r].user \in Users \cup {None}
         /\ rq[r].entity \in Users \cup {None}
         /\ rq[r].admin \in BOOLEAN
         /\ rq[r].exp \in Nat
         /\ rq[r].loaded \in Nat
         /\ rq[r].inst \in Instances \cup {None}
         /\ rq[r].sid \in SessionIDs \cup {None}
         /\ rq[r].pc \notin {"idle", "create"} => rq[r].sid \in SessionIDs /\ rq[r].inst \in Instances
  <1>1. rq[r] \in Req /\ LocalsOK(rq[r])
    BY DEF TypeOK
  <1> QED
    BY <1>1 DEF Req, LocalsOK

\* A middleware hands over to the handler.
LEMMA ToServeType ==
  ASSUME TypeOK, NEW r \in Requests, ToServe(r),
         rq[r].pc \in {"refresh", "put", "touch"}
  PROVE  RequestsOK'
  <1> DEFINE q == [At(rq[r], "serve") EXCEPT !.user = rq[r].user]
  <1>1. /\ At(rq[r], "serve") \in Req
        /\ At(rq[r], "serve").pc = "serve"
        /\ At(rq[r], "serve").sid = rq[r].sid
        /\ At(rq[r], "serve").inst = rq[r].inst
    BY InFlight, AtType DEF PCs
  <1>2. rq[r].user \in Users /\ rq[r].sid # None /\ rq[r].inst # None
    BY InFlight DEF LocalsOK
  <1>3. q \in Req
    BY <1>1, <1>2 DEF Req
  <1>4. q.pc = "serve" /\ q.user = rq[r].user /\ q.sid = rq[r].sid /\ q.inst = rq[r].inst
    BY <1>1 DEF Req
  <1>5. LocalsOK(q)
    BY <1>2, <1>4 DEF LocalsOK
  <1> QED
    BY <1>3, <1>5, MoveType DEF ToServe

\* Every step of a request preserves the types.
LEMMA StepType ==
  ASSUME TypeOK, NEW r \in Requests, Step(r)
  PROVE  TypeOK'
  <1> USE TypeSplit
  <1>0. /\ rq[r] \in Req /\ LocalsOK(rq[r]) /\ StoreOK
        /\ rq[r].pc \notin {"idle", "create"} => rq[r].sid \in SessionIDs /\ rq[r].inst \in Instances
    BY InFlight
  <1>1. CASE Lookup(r)
    <2> DEFINE c == cache[rq[r].inst][rq[r].sid]
    <2>1. StoreOK'
      BY <1>0, <1>1 DEF Lookup, StoreOK, history
    <2>2. c \in Entry \cup {None}
      BY <1>0, <1>1, SMTT(30) DEF Lookup, StoreOK
    <2>3. CASE c # None /\ Found(r, c.user, c.admin)
      <3>1. c.user \in Users /\ c.admin \in BOOLEAN
        BY <2>2, <2>3, ZenonT(60) DEF Entry
      <3>2. RequestsOK'
        BY <1>1, <2>3, <3>1, FoundType, ZenonT(60) DEF Lookup
      <3> QED
        BY <2>1, <3>2
    <2>4. CASE Goto(r, "read")
      <3>1. RequestsOK'
        BY <1>1, <2>4, GotoType DEF Lookup, PCs
      <3> QED
        BY <2>1, <3>1
    <2> QED
      BY <1>1, <2>3, <2>4 DEF Lookup
  <1>2. CASE ReadRow(r)
    <2> DEFINE s == rq[r].sid
    <2>1. StoreOK'
      BY <1>0, <1>2 DEF ReadRow, StoreOK, history
    <2>2. CASE NotFound(r)
      BY <2>1, <2>2, NotFoundType
    <2>3. CASE Goto(r, "dropRow")
      <3>1. RequestsOK'
        BY <1>2, <2>3, GotoType DEF ReadRow, PCs
      <3> QED
        BY <2>1, <3>1
    <2>4. CASE /\ row[s] # None
               /\ rq' = [rq EXCEPT ![r].pc = "loadUser", ![r].user = row[s].user,
                                   ![r].loaded = now]
      <3> DEFINE q == [rq[r] EXCEPT !.pc = "loadUser", !.user = row[s].user, !.loaded = now]
      <3>1. row[s].user \in Users /\ now \in Nat
        BY <1>0, <1>2, <2>4 DEF ReadRow, StoreOK, Row
      <3>2. q \in Req
        BY <1>0, <3>1 DEF Req, PCs
      <3>3. q.pc = "loadUser" /\ q.user = row[s].user /\ q.sid = s /\ q.inst = rq[r].inst
        BY <1>0 DEF Req
      <3>4. LocalsOK(q)
        BY <1>0, <1>2, <3>1, <3>3 DEF LocalsOK, ReadRow
      <3>5. rq' = [rq EXCEPT ![r] = q]
        BY <2>4
      <3>6. RequestsOK'
        BY <3>2, <3>4, <3>5, MoveType
      <3> QED
        BY <2>1, <3>6
    <2> QED
      BY <1>2, <2>2, <2>3, <2>4 DEF ReadRow
  <1>3. CASE LoadUser(r)
    <2>1. StoreOK'
      BY <1>0, <1>3 DEF LoadUser, StoreOK, history
    <2>2. CASE NotFound(r)
      BY <2>1, <2>2, NotFoundType
    <2>3. CASE rq' = [rq EXCEPT ![r].pc = "fill", ![r].admin = isAdmin[rq[r].user]]
      <3> DEFINE q == [rq[r] EXCEPT !.pc = "fill", !.admin = isAdmin[rq[r].user]]
      <3>1. rq[r].user \in Users /\ rq[r].user # None
        BY <1>0, <1>3, InFlight DEF LoadUser, LocalsOK
      <3>2. isAdmin[rq[r].user] \in BOOLEAN
        BY <1>0, <3>1 DEF StoreOK
      <3>3. q \in Req
        BY <1>0, <3>2 DEF Req, PCs
      <3>4. q.pc = "fill" /\ q.user = rq[r].user /\ q.sid = rq[r].sid /\ q.inst = rq[r].inst
        BY <1>0 DEF Req
      <3>5. LocalsOK(q)
        BY <1>0, <1>3, <3>1, <3>4 DEF LocalsOK, LoadUser
      <3>6. rq' = [rq EXCEPT ![r] = q]
        BY <2>3
      <3>7. RequestsOK'
        BY <3>3, <3>5, <3>6, MoveType
      <3> QED
        BY <2>1, <3>7
    <2> QED
      BY <1>3, <2>2, <2>3 DEF LoadUser
  <1>4. CASE Fill(r)
    <2>1. rq[r].user \in Users /\ rq[r].admin \in BOOLEAN /\ now + CacheTTL \in Nat
      BY <1>0, <1>4, InFlight DEF Fill, LocalsOK, StoreOK
    <2> DEFINE e == [user |-> rq[r].user, admin |-> rq[r].admin, until |-> now + CacheTTL]
    <2>2. e \in Entry
      BY <2>1 DEF Entry
    <2>3. cache' \in [Instances -> [SessionIDs -> Entry \cup {None}]]
      BY <1>0, <1>4, <2>2 DEF Fill, StoreOK
    <2>4. StoreOK'
      BY <1>0, <1>4, <2>3 DEF Fill, StoreOK, history
    <2>5. RequestsOK'
      BY <1>4, <2>1, FoundType DEF Fill
    <2> QED
      BY <2>4, <2>5
  <1>5. CASE Refresh(r)
    <2> DEFINE s == rq[r].sid
    <2>0. s \in SessionIDs /\ rq[r].user # None /\ rq[r].exp \in Nat
      BY <1>0, <1>5, InFlight DEF Refresh, LocalsOK
    <2>1. CASE ToServe(r) /\ UNCHANGED row
      <3>1. RequestsOK'
        BY <1>5, <2>1, ToServeType DEF Refresh
      <3> QED
        BY <1>0, <1>5, <2>1, <3>1 DEF Refresh, StoreOK, history
    <2>2. CASE /\ row' = [row EXCEPT ![s] = IF row[s] = None THEN None
                                              ELSE [row[s] EXCEPT !.exp = rq[r].exp]]
               /\ Goto(r, "touch")
      <3>1. RequestsOK'
        BY <1>5, <2>0, <2>2, GotoType DEF Refresh, PCs
      <3>2. row' \in [SessionIDs -> Row \cup {None}]
        BY <1>0, <2>0, <2>2 DEF StoreOK, Row
      <3> QED
        BY <1>0, <1>5, <3>1, <3>2 DEF Refresh, StoreOK, history
    <2>3. CASE /\ row[s] # None
               /\ rq' = [rq EXCEPT ![r].pc = "put", ![r].entity = row[s].user]
               /\ UNCHANGED row
      <3> DEFINE q == [rq[r] EXCEPT !.pc = "put", !.entity = row[s].user]
      <3>1. row[s].user \in Users
        BY <1>0, <2>0, <2>3 DEF StoreOK, Row
      <3>2. q \in Req
        BY <1>0, <3>1 DEF Req, PCs
      <3>3. /\ q.pc = "put" /\ q.entity = row[s].user /\ q.user = rq[r].user
            /\ q.sid = s /\ q.inst = rq[r].inst
        BY <1>0 DEF Req
      <3>4. LocalsOK(q)
        BY <1>0, <1>5, <2>0, <3>1, <3>3 DEF LocalsOK, Refresh
      <3>5. rq' = [rq EXCEPT ![r] = q]
        BY <2>3
      <3>6. RequestsOK'
        BY <3>2, <3>4, <3>5, MoveType
      <3> QED
        BY <1>0, <1>5, <2>3, <3>6 DEF Refresh, StoreOK, history
    <2> QED
      BY <1>5, <2>1, <2>2, <2>3 DEF Refresh
  <1>6. CASE Put(r)
    <2>0. /\ rq[r].sid \in SessionIDs /\ rq[r].user # None
          /\ rq[r].entity \in Users /\ rq[r].exp \in Nat
      BY <1>0, <1>6, InFlight DEF Put, LocalsOK
    <2>1. CASE ToServe(r) /\ UNCHANGED row
      <3>1. RequestsOK'
        BY <1>6, <2>1, ToServeType DEF Put
      <3> QED
        BY <1>0, <1>6, <2>1, <3>1 DEF Put, StoreOK, history
    <2>2. CASE /\ row' = [row EXCEPT ![rq[r].sid] = [user |-> rq[r].entity, exp |-> rq[r].exp]]
               /\ Goto(r, "touch")
      <3>1. RequestsOK'
        BY <1>6, <2>0, <2>2, GotoType DEF Put, PCs
      <3>2. row' \in [SessionIDs -> Row \cup {None}]
        BY <1>0, <2>0, <2>2 DEF StoreOK, Row
      <3> QED
        BY <1>0, <1>6, <3>1, <3>2 DEF Put, StoreOK, history
    <2> QED
      BY <1>6, <2>1, <2>2 DEF Put
  <1>7. CASE Touch(r)
    <2>1. RequestsOK'
      BY <1>7, ToServeType DEF Touch
    <2> QED
      BY <1>0, <1>7, <2>1 DEF Touch, StoreOK, history
  <1>8. CASE Serve(r)
    <2>1. StoreOK'
      BY <1>0, <1>8 DEF Serve, StoreOK, history
    <2>2. CASE rq' = [rq EXCEPT ![r] = Idle]
      BY <2>1, <2>2, IdleMove
    <2>3. CASE rq' = [rq EXCEPT ![r] = Request("lookup", "me", rq[r].inst, rq[r].sid, FALSE)]
      <3> DEFINE q == Request("lookup", "me", rq[r].inst, rq[r].sid, FALSE)
      <3>1. rq[r].inst \in Instances /\ rq[r].sid \in SessionIDs
        BY <1>0, <1>8 DEF Serve
      <3>2. q \in Req
        BY <3>1, RequestType DEF PCs
      <3>3. LocalsOK(q)
        BY <3>1 DEF LocalsOK, Request
      <3>4. RequestsOK'
        BY <2>3, <3>2, <3>3, MoveType
      <3> QED
        BY <2>1, <3>4
    <2> QED
      BY <1>8, <2>2, <2>3 DEF Serve
  <1>9. CASE DropRow(r)
    <2>1. RequestsOK'
      BY <1>9, GotoType DEF DropRow, PCs
    <2>2. /\ row' \in [SessionIDs -> Row \cup {None}]
          /\ deletedAt' \in [SessionIDs -> Nat \cup {None}]
      BY <1>0, <1>9, DeleteRowsType DEF DropRow, StoreOK
    <2> QED
      BY <1>0, <1>9, <2>1, <2>2 DEF DropRow, StoreOK
  <1>10. CASE DropCache(r)
    <2>1. RequestsOK'
      BY <1>10, NotFoundType DEF DropCache
    <2>2. cache' \in [Instances -> [SessionIDs -> Entry \cup {None}]]
      BY <1>0, <1>10 DEF DropCache, StoreOK
    <2> QED
      BY <1>0, <1>10, <2>1, <2>2 DEF DropCache, StoreOK, history
  <1>11. CASE CreateFails(r)
    <2>1. RequestsOK'
      BY <1>11, IdleMove DEF CreateFails
    <2> QED
      BY <1>0, <1>11, <2>1 DEF CreateFails, StoreOK, history
  <1>12. ASSUME NEW s \in SessionIDs, NEW u \in Users, CreateSession(r, s, u)
         PROVE  TypeOK'
    <2>1. RequestsOK'
      BY <1>12, IdleMove DEF CreateSession
    <2>2. row' \in [SessionIDs -> Row \cup {None}]
      BY <1>0, <1>12 DEF CreateSession, StoreOK, Row
    <2>3. owner' \in [SessionIDs -> Users \cup {None}]
      BY <1>0, <1>12 DEF CreateSession, StoreOK
    <2> QED
      BY <1>0, <1>12, <2>1, <2>2, <2>3 DEF CreateSession, StoreOK
  <1> QED
    BY <1>1, <1>2, <1>3, <1>4, <1>5, <1>6, <1>7, <1>8, <1>9, <1>10, <1>11, <1>12, EnvType DEF Step

\* So does every step of the server.
LEMMA NextType == TypeOK /\ [Next]_vars => TypeOK'
  <1> SUFFICES ASSUME TypeOK, [Next]_vars PROVE TypeOK'
    OBVIOUS
  <1> USE TypeSplit
  <1>0. StoreOK /\ RequestsOK
    OBVIOUS
  <1>1. ASSUME NEW r \in Requests, NEW i \in Instances, BeginLogin(r, i)
        PROVE  TypeOK'
    <2> DEFINE q == Request("create", "login", i, None, FALSE)
    <2>1. q \in Req
      BY RequestType DEF PCs
    <2>2. LocalsOK(q)
      BY DEF LocalsOK, Request
    <2>3. RequestsOK'
      BY <1>1, <2>1, <2>2, MoveType DEF BeginLogin
    <2> QED
      BY <1>0, <1>1, <2>3 DEF BeginLogin, StoreOK, history
  <1>2. ASSUME NEW r \in Requests, NEW i \in Instances, NEW k \in env.kinds,
               NEW s \in SessionIDs, Begin(r, k, i, s)
        PROVE  TypeOK'
    <2> DEFINE q == Request("lookup", k, i, s, FALSE)
    <2>0. k \in {"auth", "admin", "logout", "login"}
      BY EnvType
    <2>1. q \in Req
      BY <2>0, RequestType DEF PCs
    <2>2. LocalsOK(q)
      BY DEF LocalsOK, Request
    <2>3. RequestsOK'
      BY <1>2, <2>1, <2>2, MoveType DEF Begin
    <2> QED
      BY <1>0, <1>2, <2>3 DEF Begin, StoreOK, history
  <1>3. CASE CronRows
    <2>1. cron' \in [pc: {"idle", "delete", "cache"}, keys: SUBSET SessionIDs]
      BY <1>0, <1>3 DEF CronRows, StoreOK
    <2>2. /\ row' \in [SessionIDs -> Row \cup {None}]
          /\ deletedAt' \in [SessionIDs -> Nat \cup {None}]
      BY <1>0, <1>3, DeleteRowsType DEF CronRows, StoreOK
    <2> QED
      BY <1>0, <1>3, <2>1, <2>2 DEF CronRows, StoreOK, RequestsOK
  <1>4. CASE CronDelete
    <2>1. cron' \in [pc: {"idle", "delete", "cache"}, keys: SUBSET SessionIDs]
      BY <1>4 DEF CronDelete
    <2>2. /\ row' \in [SessionIDs -> Row \cup {None}]
          /\ deletedAt' \in [SessionIDs -> Nat \cup {None}]
      BY <1>4, DeleteRowsType DEF CronDelete
    <2> QED
      BY <1>0, <1>4, <2>1, <2>2 DEF CronDelete, StoreOK, RequestsOK
  <1>5. CASE CronFails
    BY <1>0, <1>5 DEF CronFails, CronIdle, StoreOK, RequestsOK, history
  <1>6. ASSUME NEW i \in Instances, CronCache(i)
        PROVE  TypeOK'
    <2>1. cron' \in [pc: {"idle", "delete", "cache"}, keys: SUBSET SessionIDs]
      BY <1>6 DEF CronCache, CronIdle
    <2>2. cache' \in [Instances -> [SessionIDs -> Entry \cup {None}]]
      BY <1>0, <1>6 DEF CronCache, StoreOK
    <2> QED
      BY <1>0, <1>6, <2>1, <2>2 DEF CronCache, StoreOK, RequestsOK, history
  <1>7. ASSUME NEW u \in Users, NEW b \in BOOLEAN, SetUserAdmin(u, b)
        PROVE  TypeOK'
    <2>1. isAdmin' \in [Users -> BOOLEAN]
      BY <1>0, <1>7 DEF SetUserAdmin, StoreOK
    <2>2. demotedAt' \in [Users -> Nat \cup {None}]
      BY <1>0, <1>7 DEF SetUserAdmin, StoreOK
    <2> QED
      BY <1>0, <1>7, <2>1, <2>2 DEF SetUserAdmin, StoreOK, RequestsOK
  <1>8. ASSUME NEW i \in Instances, Restart(i)
        PROVE  TypeOK'
    <2>1. RequestsOK'
      BY <1>0, <1>8, IdleType DEF Restart, RequestsOK, LocalsOK
    <2>2. cache' \in [Instances -> [SessionIDs -> Entry \cup {None}]]
      BY <1>0, <1>8 DEF Restart, StoreOK
    <2> QED
      BY <1>0, <1>8, <2>1, <2>2 DEF Restart, StoreOK, history
  <1>9. CASE Tick
    BY <1>0, <1>9 DEF Tick, StoreOK, RequestsOK, history
  <1>10. CASE UNCHANGED vars
    BY <1>0, <1>10 DEF vars, StoreOK, RequestsOK
  <1> QED
    BY <1>1, <1>2, <1>3, <1>4, <1>5, <1>6, <1>7, <1>8, <1>9, <1>10, EnvType, StepType DEF Next, Cron

\* The session store keeps its types: in particular a request always has the
\* session, the instance and the user its next step reads (no nil dereference in
\* GetSession, RefreshSession and the middleware).
THEOREM TypeCorrect == Spec => []TypeOK
  BY InitType, NextType, PTL DEF Spec

-----------------------------------------------------------------------------
(* The inductive invariant follows a user from the row to a request, from    *)
(* the request to a cache entry and from there to other requests, and keeps  *)
(* with every copy how old it can be.                                        *)

\* The steps of a request at which it holds a user.
Knows == {"loadUser", "fill", "refresh", "put", "touch", "serve"}

\* Every copy of the user of a session is the one it was created for.
Owned ==
    /\ \A s \in SessionIDs : row[s] # None => row[s].user = owner[s]
    /\ \A i \in Instances, s \in SessionIDs :
         cache[i][s] # None => cache[i][s].user = owner[s]
    /\ \A r \in Requests : rq[r].pc \in Knows => rq[r].user = owner[rq[r].sid]
    /\ \A r \in Requests : rq[r].pc = "put" => rq[r].entity = owner[rq[r].sid]

\* No entry lives longer than CacheTTL from now, no lookup takes longer than fillTime.
Timely ==
    /\ \A i \in Instances, s \in SessionIDs :
         cache[i][s] # None => cache[i][s].until <= now + CacheTTL
    /\ \A r \in Requests : rq[r].pc \in {"loadUser", "fill"} =>
         rq[r].loaded <= now /\ now <= rq[r].loaded + env.fillTime

\* On SQLite what is left of a deleted session was read before the deletion.
Revoked ==
    ~env.datastore =>
      /\ \A r \in Requests : rq[r].pc # "put"
      /\ \A s \in SessionIDs : deletedAt[s] # None => row[s] = None /\ owner[s] # None
      /\ \A i \in Instances, s \in SessionIDs :
           cache[i][s] # None /\ deletedAt[s] # None
             => cache[i][s].until <= deletedAt[s] + env.fillTime + CacheTTL
      /\ \A r \in Requests :
           rq[r].pc \in {"loadUser", "fill"} /\ deletedAt[rq[r].sid] # None
             => rq[r].loaded <= deletedAt[rq[r].sid]

\* Admin rights a copy shows but the users table no longer does were there when the
\* copy was made.
Demoted ==
    /\ \A i \in Instances, s \in SessionIDs :
         cache[i][s] # None /\ cache[i][s].admin
           => \/ isAdmin[cache[i][s].user]
              \/ /\ demotedAt[cache[i][s].user] # None
                 /\ cache[i][s].until
                      <= demotedAt[cache[i][s].user] + env.fillTime + CacheTTL
    /\ \A r \in Requests :
         rq[r].pc = "fill" /\ rq[r].admin
           => \/ isAdmin[rq[r].user]
              \/ demotedAt[rq[r].user] # None /\ rq[r].loaded <= demotedAt[rq[r].user]

IInv == TypeOK /\ Owned /\ Timely /\ Revoked /\ Demoted

-----------------------------------------------------------------------------
(* What a step does to the request that takes it.                            *)

\* Request r comes to know a user only in these ways.
Learns(r) ==
    \/ rq'[r].pc \notin Knows
    \/ /\ rq[r].pc = "read" /\ rq'[r].pc = "loadUser" /\ rq'[r].sid = rq[r].sid
       /\ row[rq[r].sid] # None /\ rq'[r].user = row[rq[r].sid].user
       /\ rq'[r].loaded = now
    \/ /\ rq[r].pc = "loadUser" /\ rq'[r].pc = "fill" /\ rq'[r].sid = rq[r].sid
       /\ rq'[r].user = rq[r].user /\ rq'[r].loaded = rq[r].loaded
       /\ rq'[r].admin = isAdmin[rq[r].user]
    \/ /\ rq[r].pc = "lookup" /\ rq'[r].pc = "refresh" /\ rq'[r].sid = rq[r].sid
       /\ cache[rq[r].inst][rq[r].sid] # None
       /\ rq'[r].user = cache[rq[r].inst][rq[r].sid].user
       /\ now < cache[rq[r].inst][rq[r].sid].until
       /\ rq[r].kind = "admin" => cache[rq[r].inst][rq[r].sid].admin
    \/ /\ rq[r].pc = "fill" /\ rq'[r].pc = "refresh" /\ rq'[r].sid = rq[r].sid
       /\ rq'[r].user = rq[r].user
       /\ rq[r].kind = "admin" => rq[r].admin
    \/ /\ rq[r].pc = "refresh" /\ rq'[r].pc = "put" /\ rq'[r].sid = rq[r].sid
       /\ rq'[r].user = rq[r].user
       /\ env.datastore /\ row[rq[r].sid] # None
       /\ rq'[r].entity = row[rq[r].sid].user
    \/ /\ rq[r].pc \in {"refresh", "put", "touch"} /\ rq'[r].pc \in {"touch", "serve"}
       /\ rq'[r].sid = rq[r].sid /\ rq'[r].user = rq[r].user

\* The other requests stay where they are.
Only(r) == \A q \in Requests \ {r} : rq'[q] = rq[q]

\* GetSession's caller has a session: it is let through, or forgets the user.
LEMMA FoundEffect ==
  ASSUME TypeOK, NEW r \in Requests, NEW u, NEW adm, Found(r, u, adm)
  PROVE  /\ Only(r)
         /\ \/ rq'[r].pc \notin Knows
            \/ /\ rq'[r].pc = "refresh" /\ rq'[r].sid = rq[r].sid /\ rq'[r].user = u
               /\ rq[r].kind = "admin" => adm
  <1>0. rq \in [Requests -> Req] /\ rq[r] \in Req
    BY DEF TypeOK
  <1>1. CASE Admit(r, u, adm)
    <2> DEFINE q == [At(rq[r], "refresh") EXCEPT !.user = u, !.exp = now + SessionTTL]
    <2>1. q.pc = "refresh" /\ q.sid = rq[r].sid /\ q.user = u
      BY DEF At, Request
    <2>2. rq' = [rq EXCEPT ![r] = q]
      BY <1>1 DEF Admit
    <2>3. rq'[r] = q /\ Only(r)
      BY <1>0, <2>2 DEF Only
    <2>4. rq[r].kind = "admin" => adm
      BY <1>1 DEF Admit
    <2> QED
      BY <2>1, <2>3, <2>4
  <1>2. CASE Stop(r, adm)
    BY <1>0, <1>2, IdleType DEF Stop, Only, Knows
  <1>3. CASE PassCSRF(r)
    <2>1. rq'[r] = Request("lookup", "logout", rq[r].inst, rq[r].sid, TRUE) /\ Only(r)
      BY <1>0, <1>3 DEF PassCSRF, Only
    <2>2. rq'[r].pc = "lookup"
      BY <2>1 DEF Request
    <2> QED
      BY <2>1, <2>2 DEF Knows
  <1>4. CASE EndSession(r)
    <2>1. rq'[r] = At(rq[r], "dropRow") /\ Only(r)
      BY <1>0, <1>4 DEF EndSession, Only
    <2>2. At(rq[r], "dropRow").pc = "dropRow"
      BY DEF At, Request
    <2> QED
      BY <2>1, <2>2 DEF Knows
  <1> QED
    BY <1>1, <1>2, <1>3, <1>4 DEF Found

\* It has none: it knows no user.
LEMMA NotFoundEffect ==
  ASSUME TypeOK, NEW r \in Requests, NotFound(r)
  PROVE  Only(r) /\ rq'[r].pc \notin Knows
  <1>0. rq \in [Requests -> Req]
    BY DEF TypeOK
  <1>1. CASE rq[r].kind = "login"
    <2>1. rq'[r] = At(rq[r], "create") /\ Only(r)
      BY <1>0, <1>1 DEF NotFound, Only
    <2>2. rq'[r].pc = "create"
      BY <2>1 DEF At, Request
    <2> QED
      BY <2>1, <2>2 DEF Knows
  <1>2. CASE rq[r].kind # "login"
    BY <1>0, <1>2, IdleType DEF NotFound, Only, Knows
  <1> QED
    BY <1>1, <1>2

\* It goes on to another step with the locals it has.
LEMMA GotoEffect ==
  ASSUME TypeOK, NEW r \in Requests, NEW pc \in PCs, Goto(r, pc)
  PROVE  /\ Only(r)
         /\ rq'[r].pc = pc /\ rq'[r].sid = rq[r].sid /\ rq'[r].user = rq[r].user
  <1>0. rq \in [Requests -> Req] /\ rq[r] \in Req
    BY DEF TypeOK
  <1>1. rq'[r] = [rq[r] EXCEPT !.pc = pc] /\ Only(r)
    BY <1>0 DEF Goto, Only
  <1> QED
    BY <1>0, <1>1 DEF Req

\* The middleware is done.
LEMMA ToServeEffect ==
  ASSUME TypeOK, NEW r \in Requests, ToServe(r)
  PROVE  /\ Only(r)
         /\ rq'[r].pc = "serve" /\ rq'[r].sid = rq[r].sid /\ rq'[r].user = rq[r].user
  <1>0. rq \in [Requests -> Req] /\ rq[r] \in Req
    BY DEF TypeOK
  <1> DEFINE q == [At(rq[r], "serve") EXCEPT !.user = rq[r].user]
  <1>1. rq'[r] = q /\ Only(r)
    BY <1>0 DEF ToServe, Only
  <1>2. q.pc = "serve" /\ q.sid = rq[r].sid /\ q.user = rq[r].user
    BY DEF At, Request
  <1> QED
    BY <1>1, <1>2

\* So much for the request itself.
LEMMA StepEffect ==
  ASSUME TypeOK, NEW r \in Requests, Step(r)
  PROVE  Only(r) /\ Learns(r)
  <1>0. rq \in [Requests -> Req] /\ rq[r] \in Req
    BY DEF TypeOK
  <1>1. CASE Lookup(r)
    <2> DEFINE c == cache[rq[r].inst][rq[r].sid]
    <2>1. CASE c # None /\ now < c.until /\ Found(r, c.user, c.admin)
      <3>1. /\ Only(r)
            /\ \/ rq'[r].pc \notin Knows
               \/ /\ rq'[r].pc = "refresh" /\ rq'[r].sid = rq[r].sid /\ rq'[r].user = c.user
                  /\ rq[r].kind = "admin" => c.admin
        BY <2>1, FoundEffect
      <3> QED
        BY <1>1, <2>1, <3>1, ZenonT(60) DEF Learns, Lookup
    <2>2. CASE Goto(r, "read")
      BY <2>2, GotoEffect DEF Learns, Knows, PCs
    <2> QED
      BY <1>1, <2>1, <2>2, ZenonT(60) DEF Lookup
  <1>2. CASE ReadRow(r)
    <2> DEFINE s == rq[r].sid
    <2>1. CASE NotFound(r)
      BY <2>1, NotFoundEffect DEF Learns
    <2>2. CASE Goto(r, "dropRow")
      BY <2>2, GotoEffect DEF Learns, Knows, PCs
    <2>3. CASE /\ row[s] # None
               /\ rq' = [rq EXCEPT ![r].pc = "loadUser", ![r].user = row[s].user,
                                   ![r].loaded = now]
      <3> DEFINE q == [rq[r] EXCEPT !.pc = "loadUser", !.user = row[s].user, !.loaded = now]
      <3>1. rq'[r] = q /\ Only(r)
        BY <1>0, <2>3 DEF Only
      <3>2. q.pc = "loadUser" /\ q.user = row[s].user /\ q.sid = s /\ q.loaded = now
        BY <1>0 DEF Req
      <3> QED
        BY <1>2, <2>3, <3>1, <3>2 DEF Learns, ReadRow
    <2> QED
      BY <1>2, <2>1, <2>2, <2>3 DEF ReadRow
  <1>3. CASE LoadUser(r)
    <2>1. CASE NotFound(r)
      BY <2>1, NotFoundEffect DEF Learns
    <2>2. CASE rq' = [rq EXCEPT ![r].pc = "fill", ![r].admin = isAdmin[rq[r].user]]
      <3> DEFINE q == [rq[r] EXCEPT !.pc = "fill", !.admin = isAdmin[rq[r].user]]
      <3>1. rq'[r] = q /\ Only(r)
        BY <1>0, <2>2 DEF Only
      <3>2. /\ q.pc = "fill" /\ q.user = rq[r].user /\ q.sid = rq[r].sid
            /\ q.loaded = rq[r].loaded /\ q.admin = isAdmin[rq[r].user]
        BY <1>0 DEF Req
      <3> QED
        BY <1>3, <3>1, <3>2 DEF Learns, LoadUser
    <2> QED
      BY <1>3, <2>1, <2>2 DEF LoadUser
  <1>4. CASE Fill(r)
    <2>1. /\ Only(r)
          /\ \/ rq'[r].pc \notin Knows
             \/ /\ rq'[r].pc = "refresh" /\ rq'[r].sid = rq[r].sid /\ rq'[r].user = rq[r].user
                /\ rq[r].kind = "admin" => rq[r].admin
      BY <1>4, FoundEffect DEF Fill
    <2> QED
      BY <1>4, <2>1 DEF Learns, Fill
  <1>5. CASE Refresh(r)
    <2> DEFINE s == rq[r].sid
    <2>1. CASE ToServe(r)
      BY <1>5, <2>1, ToServeEffect DEF Learns, Refresh
    <2>2. CASE Goto(r, "touch")
      BY <1>5, <2>2, GotoEffect DEF Learns, Refresh, PCs
    <2>3. CASE /\ env.datastore /\ row[s] # None
               /\ rq' = [rq EXCEPT ![r].pc = "put", ![r].entity = row[s].user]
      <3> DEFINE q == [rq[r] EXCEPT !.pc = "put", !.entity = row[s].user]
      <3>1. rq'[r] = q /\ Only(r)
        BY <1>0, <2>3 DEF Only
      <3>2. q.pc = "put" /\ q.user = rq[r].user /\ q.sid = s /\ q.entity = row[s].user
        BY <1>0 DEF Req
      <3> QED
        BY <1>5, <2>3, <3>1, <3>2 DEF Learns, Refresh
    <2> QED
      BY <1>5, <2>1, <2>2, <2>3 DEF Refresh
  <1>6. CASE Put(r)
    <2>1. CASE ToServe(r)
      BY <1>6, <2>1, ToServeEffect DEF Learns, Put
    <2>2. CASE Goto(r, "touch")
      BY <1>6, <2>2, GotoEffect DEF Learns, Put, PCs
    <2> QED
      BY <1>6, <2>1, <2>2 DEF Put
  <1>7. CASE Touch(r)
    BY <1>7, ToServeEffect DEF Learns, Touch
  <1>8. CASE Serve(r)
    <2>1. CASE rq' = [rq EXCEPT ![r] = Idle]
      BY <1>0, <2>1, IdleType DEF Learns, Only, Knows
    <2>2. CASE rq' = [rq EXCEPT ![r] = Request("lookup", "me", rq[r].inst, rq[r].sid, FALSE)]
      <3>1. rq'[r] = Request("lookup", "me", rq[r].inst, rq[r].sid, FALSE) /\ Only(r)
        BY <1>0, <2>2 DEF Only
      <3>2. rq'[r].pc = "lookup"
        BY <3>1 DEF Request
      <3> QED
        BY <3>1, <3>2 DEF Learns, Knows
    <2> QED
      BY <1>8, <2>1, <2>2 DEF Serve
  <1>9. CASE DropRow(r)
    BY <1>9, GotoEffect DEF Learns, DropRow, Knows, PCs
  <1>10. CASE DropCache(r)
    BY <1>10, NotFoundEffect DEF Learns, DropCache
  <1>11. CASE CreateFails(r) \/ \E s \in env.sids, u \in env.users : CreateSession(r, s, u)
    <2>1. rq' = [rq EXCEPT ![r] = Idle]
      BY <1>11 DEF CreateFails, CreateSession
    <2> QED
      BY <1>0, <2>1, IdleType DEF Learns, Only, Knows
  <1> QED
    BY <1>1, <1>2, <1>3, <1>4, <1>5, <1>6, <1>7, <1>8, <1>9, <1>10, <1>11 DEF Step

-----------------------------------------------------------------------------
(* What a step does to the tables and the caches.                            *)

\* A row stays, is deleted, is renewed, is put back or is new.
RowStep(s) ==
    \/ row'[s] = row[s] /\ deletedAt'[s] = deletedAt[s] /\ owner'[s] = owner[s]
    \/ /\ row[s] # None /\ row'[s] = None /\ owner'[s] = owner[s]
       /\ deletedAt'[s] = deletedAt[s] \/ (deletedAt[s] = None /\ deletedAt'[s] = now)
    \/ /\ row[s] # None /\ row'[s] # None /\ row'[s].user = row[s].user
       /\ deletedAt'[s] = deletedAt[s] /\ owner'[s] = owner[s]
    \/ /\ \E r \in Requests : rq[r].pc = "put" /\ rq[r].sid = s /\ row'[s].user = rq[r].entity
       /\ row'[s] # None /\ deletedAt'[s] = deletedAt[s] /\ owner'[s] = owner[s]
    \/ /\ owner[s] = None /\ owner'[s] # None
       /\ row'[s] # None /\ row'[s].user = owner'[s] /\ deletedAt'[s] = deletedAt[s]

\* An entry stays, goes, or is filled by a request.
EntryStep(i, s) ==
    \/ cache'[i][s] = cache[i][s]
    \/ cache'[i][s] = None
    \/ \E r \in Requests :
         /\ rq[r].pc = "fill" /\ rq[r].inst = i /\ rq[r].sid = s
         /\ cache'[i][s].user = rq[r].user /\ cache'[i][s].admin = rq[r].admin
         /\ cache'[i][s].until = now + CacheTTL

\* Deletions in any number.
LEMMA DeleteRowsEffect ==
  ASSUME TypeOK, NEW S, DeleteRows(S), UNCHANGED owner
  PROVE  \A s \in SessionIDs : RowStep(s)
  <1> SUFFICES ASSUME NEW s \in SessionIDs PROVE RowStep(s)
    OBVIOUS
  <1>1. /\ row'[s] = IF s \in S THEN None ELSE row[s]
        /\ deletedAt'[s] = IF s \in S /\ row[s] # None /\ deletedAt[s] = None
                             THEN now ELSE deletedAt[s]
    BY ZenonT(60) DEF DeleteRows
  <1> QED
    BY <1>1 DEF RowStep

\* The steps of a request.
LEMMA StepStores ==
  ASSUME TypeOK, NEW r \in Requests, Step(r)
  PROVE  /\ UNCHANGED <<env, now, isAdmin, demotedAt>>
         /\ \A s \in SessionIDs : RowStep(s)
         /\ \A i \in Instances, s \in SessionIDs : EntryStep(i, s)
  <1>0. /\ row \in [SessionIDs -> Row \cup {None}]
        /\ owner \in [SessionIDs -> Users \cup {None}]
        /\ cache \in [Instances -> [SessionIDs -> Entry \cup {None}]]
        /\ rq[r].entity \in Users \cup {None}
        /\ rq[r].exp \in Nat
        /\ now \in Nat
        /\ rq[r].pc \notin {"idle", "create"} => rq[r].sid \in SessionIDs /\ rq[r].inst \in Instances
    BY InFlight DEF TypeOK
  <1>1. CASE UNCHANGED <<env, now, row, isAdmin, cache, cron, history>>
    BY <1>1 DEF RowStep, EntryStep, history
  <1>2. CASE Fill(r)
    <2>1. UNCHANGED <<env, now, row, isAdmin, history>>
      BY <1>2 DEF Fill
    <2> DEFINE e == [user |-> rq[r].user, admin |-> rq[r].admin, until |-> now + CacheTTL]
    <2>2. cache' = [cache EXCEPT ![rq[r].inst][rq[r].sid] = e] /\ rq[r].pc = "fill"
      BY <1>2 DEF Fill
    <2>3. e.user = rq[r].user /\ e.admin = rq[r].admin /\ e.until = now + CacheTTL
      OBVIOUS
    <2> HIDE DEF e
    <2>4. \A i \in Instances, s \in SessionIDs :
            \/ cache'[i][s] = cache[i][s]
            \/ i = rq[r].inst /\ s = rq[r].sid /\ cache'[i][s] = e
      BY <1>0, <2>2
    <2>5. \A i \in Instances, s \in SessionIDs : EntryStep(i, s)
      BY <2>2, <2>3, <2>4 DEF EntryStep
    <2> QED
      BY <2>1, <2>5 DEF RowStep, history
  <1>3. CASE Refresh(r) /\ ~UNCHANGED row
    <2>1. row' = [row EXCEPT ![rq[r].sid] = IF row[rq[r].sid] = None THEN None
                                ELSE [row[rq[r].sid] EXCEPT !.exp = rq[r].exp]]
      BY <1>3 DEF Refresh
    <2>2. UNCHANGED <<env, now, isAdmin, cache, history>>
      BY <1>3 DEF Refresh
    <2>3. ASSUME NEW s \in SessionIDs PROVE RowStep(s)
      <3>1. CASE row'[s] = row[s]
        BY <2>2, <3>1 DEF RowStep, history
      <3>2. CASE row[s] # None /\ row'[s] = [row[s] EXCEPT !.exp = rq[r].exp]
        <4>1. row[s] \in Row
          BY <1>0, <3>2
        <4>2. row'[s] \in Row /\ row'[s].user = row[s].user
          BY <1>0, <3>2, <4>1 DEF Row
        <4> QED
          BY <2>2, <3>2, <4>2 DEF RowStep, history
      <3> QED
        BY <1>0, <2>1, <3>1, <3>2
    <2> QED
      BY <2>2, <2>3 DEF EntryStep, history
  <1>4. CASE Put(r) /\ ~UNCHANGED row
    <2>0. rq[r].pc = "put" /\ rq[r].sid \in SessionIDs /\ rq[r].entity \in Users
      BY <1>0, <1>4, InFlight DEF Put, LocalsOK
    <2>1. row' = [row EXCEPT ![rq[r].sid] = [user |-> rq[r].entity, exp |-> rq[r].exp]]
      BY <1>4 DEF Put
    <2>2. UNCHANGED <<env, now, isAdmin, cache, history>>
      BY <1>4 DEF Put
    <2>3. [user |-> rq[r].entity, exp |-> rq[r].exp] \in Row
      BY <1>0, <2>0 DEF Row
    <2>4. ASSUME NEW s \in SessionIDs PROVE RowStep(s)
      <3>1. CASE s # rq[r].sid
        BY <1>0, <2>1, <2>2, <3>1 DEF RowStep, history
      <3>2. CASE s = rq[r].sid
        <4>1. row'[s] # None /\ row'[s].user = rq[r].entity
          BY <1>0, <2>0, <2>1, <2>3, <3>2
        <4> QED
          BY <2>0, <2>2, <3>2, <4>1 DEF RowStep, history
      <3> QED
        BY <3>1, <3>2
    <2> QED
      BY <2>2, <2>4 DEF EntryStep, history
  <1>5. CASE DropRow(r)
    <2>1. \A s \in SessionIDs : RowStep(s)
      BY <1>5, DeleteRowsEffect DEF DropRow, RowStep
    <2> QED
      BY <1>5, <2>1 DEF DropRow, EntryStep
  <1>6. CASE DropCache(r)
    <2>1. UNCHANGED <<env, now, row, isAdmin, history>>
      BY <1>6 DEF DropCache
    <2>2. \A i \in Instances, s \in SessionIDs : EntryStep(i, s)
      BY <1>0, <1>6 DEF DropCache, EntryStep
    <2> QED
      BY <2>1, <2>2 DEF RowStep, history
  <1>7. ASSUME NEW t \in SessionIDs, NEW u \in Users, CreateSession(r, t, u)
        PROVE  /\ UNCHANGED <<env, now, isAdmin, demotedAt>>
               /\ \A s \in SessionIDs : RowStep(s)
               /\ \A i \in Instances, s \in SessionIDs : EntryStep(i, s)
    <2>1. [user |-> u, exp |-> now + SessionTTL] \in Row
      BY <1>0 DEF Row
    <2>2. ASSUME NEW s \in SessionIDs PROVE RowStep(s)
      <3>1. CASE s # t
        BY <1>0, <1>7, <3>1 DEF CreateSession, RowStep
      <3>2. CASE s = t
        <4>1. row'[s] = [user |-> u, exp |-> now + SessionTTL]
          BY <1>0, <1>7, <3>2 DEF CreateSession
        <4>2. row'[s] # None /\ row'[s].user = u
          BY <2>1, <4>1
        <4>3. owner[s] = None /\ owner'[s] = u /\ u # None /\ deletedAt'[s] = deletedAt[s]
          BY <1>0, <1>7, <3>2 DEF CreateSession
        <4> QED
          BY <4>2, <4>3 DEF RowStep
      <3> QED
        BY <3>1, <3>2
    <2> QED
      BY <1>7, <2>2 DEF CreateSession, EntryStep
  <1> QED
    BY <1>1, <1>2, <1>3, <1>4, <1>5, <1>6, <1>7, EnvType
    DEF Step, Lookup, ReadRow, LoadUser, Refresh, Put, Touch, Serve, CreateFails

\* Any step but a change of admin rights and the passing of time.
Works ==
    /\ UNCHANGED <<env, now, isAdmin, demotedAt>>
    /\ \A r \in Requests : rq'[r] = rq[r] \/ Learns(r)
    /\ \A s \in SessionIDs : RowStep(s)
    /\ \A i \in Instances, s \in SessionIDs : EntryStep(i, s)

\* Every step is of one of three kinds.
LEMMA NextEffect ==
  ASSUME TypeOK, [Next]_vars
  PROVE  Works \/ (\E u \in Users, b \in BOOLEAN : SetUserAdmin(u, b)) \/ Tick
  <1>0. /\ rq \in [Requests -> Req]
        /\ cache \in [Instances -> [SessionIDs -> Entry \cup {None}]]
    BY DEF TypeOK
  <1>1. ASSUME NEW r \in Requests, NEW k, NEW i, NEW s,
               BeginLogin(r, i) \/ Begin(r, k, i, s)
        PROVE  Works
    <2>1. PICK q : /\ rq' = [rq EXCEPT ![r] = q]
                   /\ q.pc \notin Knows
      <3>1. CASE BeginLogin(r, i)
        <4>1. Request("create", "login", i, None, FALSE).pc \notin Knows
          BY DEF Request, Knows
        <4> QED
          BY <3>1, <4>1 DEF BeginLogin
      <3>2. CASE Begin(r, k, i, s)
        <4>1. Request("lookup", k, i, s, FALSE).pc \notin Knows
          BY DEF Request, Knows
        <4> QED
          BY <3>2, <4>1 DEF Begin
      <3> QED
        BY <1>1, <3>1, <3>2
    <2>2. \A t \in Requests : rq'[t] = rq[t] \/ Learns(t)
      BY <1>0, <2>1 DEF Learns
    <2> QED
      BY <1>1, <2>2 DEF BeginLogin, Begin, Works, RowStep, EntryStep, history
  <1>2. ASSUME NEW r \in Requests, Step(r)
        PROVE  Works
    <2>1. Only(r) /\ Learns(r)
      BY <1>2, StepEffect
    <2>2. /\ UNCHANGED <<env, now, isAdmin, demotedAt>>
          /\ \A s \in SessionIDs : RowStep(s)
          /\ \A i \in Instances, s \in SessionIDs : EntryStep(i, s)
      BY <1>2, StepStores
    <2> QED
      BY <2>1, <2>2 DEF Works, Only
  <1>3. CASE CronRows
    <2>1. \A s \in SessionIDs : RowStep(s)
      BY <1>3, DeleteRowsEffect DEF CronRows, RowStep
    <2> QED
      BY <1>3, <2>1 DEF CronRows, Works, EntryStep
  <1>4. CASE CronDelete
    <2>1. \A s \in SessionIDs : RowStep(s)
      BY <1>4, DeleteRowsEffect DEF CronDelete
    <2> QED
      BY <1>4, <2>1 DEF CronDelete, Works, EntryStep
  <1>5. CASE CronFails \/ UNCHANGED vars
    BY <1>5 DEF CronFails, Works, RowStep, EntryStep, history, vars
  <1>6. ASSUME NEW i \in Instances, CronCache(i)
        PROVE  Works
    <2>1. \A j \in Instances, s \in SessionIDs : EntryStep(j, s)
      BY <1>0, <1>6 DEF CronCache, EntryStep
    <2> QED
      BY <1>6, <2>1 DEF CronCache, Works, RowStep, history
  <1>7. ASSUME NEW i \in Instances, Restart(i)
        PROVE  Works
    <2>1. \A j \in Instances, s \in SessionIDs : EntryStep(j, s)
      BY <1>0, <1>7 DEF Restart, EntryStep
    <2>2. \A r \in Requests : rq'[r] = rq[r] \/ Learns(r)
      BY <1>0, <1>7, IdleType DEF Restart, Learns, Knows
    <2> QED
      BY <1>7, <2>1, <2>2 DEF Restart, Works, RowStep, history
  <1> QED
    BY <1>1, <1>2, <1>3, <1>4, <1>5, <1>6, <1>7, EnvType DEF Next, Cron

-----------------------------------------------------------------------------
(* The invariant is inductive.                                               *)

\* It holds when the server starts.
LEMMA InitInv == Init => IInv
  <1> SUFFICES ASSUME Init PROVE IInv
    OBVIOUS
  <1>1. \A r \in Requests : rq[r].pc = "idle"
    BY IdleType DEF Init
  <1>2. \A i \in Instances, s \in SessionIDs : cache[i][s] = None
    BY DEF Init
  <1>3. \A s \in SessionIDs : row[s] = None /\ deletedAt[s] = None
    BY DEF Init
  <1> QED
    BY <1>1, <1>2, <1>3, InitType DEF IInv, Owned, Timely, Revoked, Demoted, Knows

\* Nobody loses a session to somebody else.
LEMMA OwnerStays ==
  ASSUME Works, NEW s \in SessionIDs, owner[s] # None
  PROVE  owner'[s] = owner[s]
  <1>1. RowStep(s)
    BY DEF Works
  <1> QED
    BY <1>1 DEF RowStep

\* Users are only handed on within a session.
LEMMA OwnedWorks ==
  ASSUME IInv, Works
  PROVE  Owned'
  <1> USE DEF IInv
  <1>1. ASSUME NEW s \in SessionIDs, row'[s] # None PROVE row'[s].user = owner'[s]
    <2>1. RowStep(s)
      BY DEF Works
    <2>2. row[s] # None => row[s].user = owner[s]
      BY DEF Owned
    <2>3. \A r \in Requests : rq[r].pc = "put" => rq[r].entity = owner[rq[r].sid]
      BY DEF Owned
    <2> QED
      BY <1>1, <2>1, <2>2, <2>3 DEF RowStep
  <1>2. ASSUME NEW i \in Instances, NEW s \in SessionIDs, cache'[i][s] # None
        PROVE  cache'[i][s].user = owner'[s]
    <2>1. EntryStep(i, s)
      BY DEF Works
    <2>2. CASE cache'[i][s] = cache[i][s]
      <3>1. cache[i][s] \in Entry
        BY <1>2, <2>2 DEF TypeOK
      <3>2. cache[i][s].user \in Users /\ cache[i][s].user = owner[s]
        BY <1>2, <2>2, <3>1 DEF Owned, Entry
      <3> QED
        BY <2>2, <3>2, OwnerStays
    <2>3. ASSUME NEW r \in Requests, rq[r].pc = "fill", rq[r].sid = s,
                 cache'[i][s].user = rq[r].user
          PROVE  cache'[i][s].user = owner'[s]
      <3>1. rq[r].user # None /\ rq[r].user = owner[s]
        BY <2>3, InFlight DEF Owned, Knows, LocalsOK
      <3> QED
        BY <2>3, <3>1, OwnerStays
    <2> QED
      BY <1>2, <2>1, <2>2, <2>3 DEF EntryStep
  <1>3. ASSUME NEW r \in Requests, rq'[r].pc \in Knows
        PROVE  /\ rq'[r].user = owner'[rq'[r].sid]
               /\ rq'[r].pc = "put" => rq'[r].entity = owner'[rq'[r].sid]
    <2>1. rq'[r] = rq[r] \/ Learns(r)
      BY DEF Works
    <2>2. rq[r].pc \in Knows => /\ rq[r].sid \in SessionIDs
                                /\ rq[r].user # None /\ rq[r].user = owner[rq[r].sid]
                                /\ owner'[rq[r].sid] = owner[rq[r].sid]
      BY InFlight, OwnerStays DEF Owned, Knows, LocalsOK
    <2>3. rq[r].pc = "put" => rq[r].entity = owner[rq[r].sid]
      BY DEF Owned
    <2>4. rq[r].pc \notin {"idle", "create"} => rq[r].sid \in SessionIDs /\ rq[r].inst \in Instances
      BY InFlight
    <2>5. CASE rq'[r] = rq[r]
      BY <1>3, <2>2, <2>3, <2>5 DEF Knows
    <2>6. CASE Learns(r)
      <3>0. rq[r].pc \in {"read", "refresh"} /\ row[rq[r].sid] # None
              => /\ row[rq[r].sid].user = owner[rq[r].sid]
                 /\ owner'[rq[r].sid] = owner[rq[r].sid]
        <4>1. SUFFICES ASSUME rq[r].pc \in {"read", "refresh"}, row[rq[r].sid] # None
                       PROVE  /\ row[rq[r].sid].user = owner[rq[r].sid]
                              /\ owner'[rq[r].sid] = owner[rq[r].sid]
          OBVIOUS
        <4>2. rq[r].sid \in SessionIDs
          BY <2>4, <4>1
        <4>3. row[rq[r].sid].user \in Users /\ row[rq[r].sid].user = owner[rq[r].sid]
          BY <4>1, <4>2 DEF TypeOK, Owned, Row
        <4> QED
          BY <4>2, <4>3, OwnerStays
      <3>1. rq[r].pc = "lookup" /\ cache[rq[r].inst][rq[r].sid] # None
              => /\ cache[rq[r].inst][rq[r].sid].user = owner[rq[r].sid]
                 /\ owner'[rq[r].sid] = owner[rq[r].sid]
        <4>1. SUFFICES ASSUME rq[r].pc = "lookup", cache[rq[r].inst][rq[r].sid] # None
                       PROVE  /\ cache[rq[r].inst][rq[r].sid].user = owner[rq[r].sid]
                              /\ owner'[rq[r].sid] = owner[rq[r].sid]
          OBVIOUS
        <4>2. rq[r].sid \in SessionIDs /\ rq[r].inst \in Instances
          BY <2>4, <4>1
        <4>3. cache[rq[r].inst][rq[r].sid] \in Entry
          BY <4>1, <4>2 DEF TypeOK
        <4>4. /\ cache[rq[r].inst][rq[r].sid].user \in Users
              /\ cache[rq[r].inst][rq[r].sid].user = owner[rq[r].sid]
          BY <4>1, <4>2, <4>3 DEF Owned, Entry
        <4> QED
          BY <4>2, <4>4, OwnerStays
      <3> QED
        BY <1>3, <2>2, <2>6, <3>0, <3>1 DEF Learns, Knows
    <2> QED
      BY <2>1, <2>5, <2>6
  <1> QED
    BY <1>1, <1>2, <1>3 DEF Owned, Knows

\* New copies are made now.
LEMMA TimelyWorks ==
  ASSUME IInv, Works
  PROVE  Timely'
  <1> USE DEF IInv
  <1>1. UNCHANGED <<env, now>> /\ now \in Nat
    BY DEF Works, TypeOK
  <1>2. ASSUME NEW i \in Instances, NEW s \in SessionIDs, cache'[i][s] # None
        PROVE  cache'[i][s].until <= now + CacheTTL
    <2>1. EntryStep(i, s)
      BY DEF Works
    <2>2. CASE cache'[i][s] = cache[i][s]
      BY <1>2, <2>2 DEF Timely
    <2>3. CASE cache'[i][s].until = now + CacheTTL
      BY <1>1, <2>3
    <2> QED
      BY <1>2, <2>1, <2>2, <2>3 DEF EntryStep
  <1>3. ASSUME NEW r \in Requests, rq'[r].pc \in {"loadUser", "fill"}
        PROVE  rq'[r].loaded <= now /\ now <= rq'[r].loaded + env.fillTime
    <2>1. rq'[r] = rq[r] \/ Learns(r)
      BY DEF Works
    <2>2. CASE rq'[r] = rq[r] \/ (rq[r].pc = "loadUser" /\ rq'[r].loaded = rq[r].loaded)
      BY <1>3, <2>2 DEF Timely
    <2>3. CASE rq'[r].loaded = now
      BY <1>1, <2>3, EnvType
    <2> QED
      BY <1>3, <2>1, <2>2, <2>3 DEF Learns, Knows
  <1> QED
    BY <1>1, <1>2, <1>3 DEF Timely

\* On SQLite a deletion leaves copies that are older, and none is made after it.
LEMMA RevokedWorks ==
  ASSUME IInv, Works
  PROVE  Revoked'
  <1> USE DEF IInv
  <1> SUFFICES ASSUME ~env.datastore PROVE Revoked'
    BY DEF Revoked, Works
  <1>0. /\ UNCHANGED <<env, now>> /\ now \in Nat
        /\ env.fillTime \in Nat /\ CacheTTL \in Nat \ {0}
        /\ deletedAt \in [SessionIDs -> Nat \cup {None}]
    BY EnvType DEF Works, TypeOK
  <1>1. ASSUME NEW r \in Requests PROVE rq'[r].pc # "put"
    <2>1. rq'[r] = rq[r] \/ Learns(r)
      BY DEF Works
    <2> QED
      BY <2>1 DEF Learns, Knows, Revoked
  <1>2. ASSUME NEW s \in SessionIDs
        PROVE  \/ deletedAt'[s] = deletedAt[s]
               \/ deletedAt[s] = None /\ deletedAt'[s] = now
    <2>1. RowStep(s)
      BY DEF Works
    <2> QED
      BY <2>1 DEF RowStep
  <1>3. ASSUME NEW s \in SessionIDs, deletedAt'[s] # None
        PROVE  row'[s] = None /\ owner'[s] # None
    <2>1. RowStep(s)
      BY DEF Works
    <2>2. deletedAt[s] # None => row[s] = None /\ owner[s] # None
      BY DEF Revoked
    <2>3. row[s] # None => owner[s] # None
      BY DEF Owned, TypeOK, Row
    <2>4. \A r \in Requests : rq[r].pc # "put"
      BY DEF Revoked
    <2> QED
      BY <1>3, <2>1, <2>2, <2>3, <2>4 DEF RowStep
  <1>4. ASSUME NEW i \in Instances, NEW s \in SessionIDs,
               cache'[i][s] # None, deletedAt'[s] # None
        PROVE  cache'[i][s].until <= deletedAt'[s] + env.fillTime + CacheTTL
    <2>1. EntryStep(i, s) /\ deletedAt[s] \in Nat \cup {None}
      BY <1>0 DEF Works
    <2>2. CASE cache'[i][s] = cache[i][s] /\ deletedAt'[s] = deletedAt[s]
      BY <1>4, <2>2 DEF Revoked
    <2>3. CASE cache'[i][s] # None /\ deletedAt'[s] = now
      <3>1. cache'[i][s].until <= now + CacheTTL
        BY <2>3, <1>0, TimelyWorks DEF Timely
      <3>2. cache'[i][s].until \in Nat
        <4>1. cache'[i][s] = cache[i][s] \/ cache'[i][s].until = now + CacheTTL
          BY <2>1, <2>3 DEF EntryStep
        <4>2. cache'[i][s] = cache[i][s] => cache[i][s].until \in Nat
          BY <2>3 DEF TypeOK, Entry
        <4> QED
          BY <1>0, <4>1, <4>2
      <3> QED
        BY <1>0, <2>3, <3>1, <3>2
    <2>4. ASSUME NEW r \in Requests, rq[r].pc = "fill", rq[r].sid = s,
                 cache'[i][s].until = now + CacheTTL, deletedAt'[s] = deletedAt[s]
          PROVE  cache'[i][s].until <= deletedAt'[s] + env.fillTime + CacheTTL
      <3>1. /\ rq[r].loaded \in Nat
            /\ rq[r].loaded <= deletedAt[s]
            /\ now <= rq[r].loaded + env.fillTime
        BY <1>4, <2>4, InFlight DEF Timely, Revoked
      <3>2. deletedAt[s] \in Nat
        BY <1>4, <2>1, <2>4
      <3> QED
        BY <1>0, <2>4, <3>1, <3>2
    <2> QED
      BY <1>2, <1>4, <2>1, <2>2, <2>3, <2>4 DEF EntryStep
  <1>5. ASSUME NEW r \in Requests, rq'[r].pc \in {"loadUser", "fill"},
               deletedAt'[rq'[r].sid] # None
        PROVE  rq'[r].loaded <= deletedAt'[rq'[r].sid]
    <2>1. rq'[r] = rq[r] \/ Learns(r)
      BY DEF Works
    <2>2. CASE \/ rq'[r] = rq[r]
               \/ rq[r].pc = "loadUser" /\ rq'[r].loaded = rq[r].loaded /\ rq'[r].sid = rq[r].sid
      <3>1. /\ rq[r].pc \in {"loadUser", "fill"} /\ rq[r].sid \in SessionIDs
            /\ rq[r].loaded \in Nat /\ rq[r].loaded <= now
            /\ rq'[r].loaded = rq[r].loaded /\ rq'[r].sid = rq[r].sid
        BY <1>5, <2>2, InFlight DEF Timely
      <3>2. deletedAt[rq[r].sid] # None => rq[r].loaded <= deletedAt[rq[r].sid]
        BY <3>1 DEF Revoked
      <3> QED
        BY <1>2, <1>5, <3>1, <3>2
    <2>3. CASE /\ rq[r].pc = "read" /\ rq'[r].sid = rq[r].sid
               /\ row[rq[r].sid] # None /\ rq'[r].loaded = now
      <3>1. rq[r].sid \in SessionIDs
        BY <2>3, InFlight
      <3>2. deletedAt[rq[r].sid] = None
        BY <2>3, <3>1 DEF Revoked
      <3> QED
        BY <1>0, <1>2, <1>5, <2>3, <3>1, <3>2
    <2> QED
      BY <1>5, <2>1, <2>2, <2>3 DEF Learns, Knows
  <1> QED
    BY <1>0, <1>1, <1>3, <1>4, <1>5 DEF Revoked

\* Admin rights are only handed on from the users table.
LEMMA DemotedWorks ==
  ASSUME IInv, Works
  PROVE  Demoted'
  <1> USE DEF IInv
  <1>0. /\ UNCHANGED <<env, now, isAdmin, demotedAt>> /\ now \in Nat
        /\ env.fillTime \in Nat /\ CacheTTL \in Nat \ {0}
        /\ demotedAt \in [Users -> Nat \cup {None}]
    BY EnvType DEF Works, TypeOK
  <1>1. ASSUME NEW i \in Instances, NEW s \in SessionIDs,
               cache'[i][s] # None, cache'[i][s].admin
        PROVE  \/ isAdmin[cache'[i][s].user]
               \/ /\ demotedAt[cache'[i][s].user] # None
                  /\ cache'[i][s].until
                       <= demotedAt[cache'[i][s].user] + env.fillTime + CacheTTL
    <2>1. EntryStep(i, s)
      BY DEF Works
    <2>2. CASE cache'[i][s] = cache[i][s]
      BY <1>1, <2>2 DEF Demoted
    <2>3. ASSUME NEW r \in Requests, rq[r].pc = "fill", rq[r].admin,
                 cache'[i][s].user = rq[r].user, cache'[i][s].until = now + CacheTTL
          PROVE  \/ isAdmin[cache'[i][s].user]
                 \/ /\ demotedAt[cache'[i][s].user] # None
                    /\ cache'[i][s].until
                         <= demotedAt[cache'[i][s].user] + env.fillTime + CacheTTL
      <3>1. /\ rq[r].user \in Users /\ rq[r].loaded \in Nat
            /\ now <= rq[r].loaded + env.fillTime
        BY <2>3, InFlight DEF Timely, LocalsOK
      <3>2. \/ isAdmin[rq[r].user]
            \/ demotedAt[rq[r].user] # None /\ rq[r].loaded <= demotedAt[rq[r].user]
        BY <2>3 DEF Demoted
      <3>3. demotedAt[rq[r].user] \in Nat \cup {None}
        BY <1>0, <3>1
      <3> QED
        BY <1>0, <2>3, <3>1, <3>2, <3>3
    <2> QED
      BY <1>1, <2>1, <2>2, <2>3 DEF EntryStep
  <1>2. ASSUME NEW r \in Requests, rq'[r].pc = "fill", rq'[r].admin
        PROVE  \/ isAdmin[rq'[r].user]
               \/ demotedAt[rq'[r].user] # None /\ rq'[r].loaded <= demotedAt[rq'[r].user]
    <2>1. rq'[r] = rq[r] \/ Learns(r)
      BY DEF Works
    <2>2. CASE rq'[r] = rq[r]
      BY <1>2, <2>2 DEF Demoted
    <2>3. CASE rq'[r].user = rq[r].user /\ rq'[r].admin = isAdmin[rq[r].user]
      BY <1>2, <2>3
    <2> QED
      BY <1>2, <2>1, <2>2, <2>3 DEF Learns, Knows
  <1> QED
    BY <1>0, <1>1, <1>2 DEF Demoted

\* An admin change gives or takes rights; every copy made until now is Timely.
LEMMA AdminKeeps ==
  ASSUME IInv, NEW u \in Users, NEW b \in BOOLEAN, SetUserAdmin(u, b)
  PROVE  Owned' /\ Timely' /\ Revoked' /\ Demoted'
  <1> USE DEF IInv
  <1>0. /\ UNCHANGED <<env, now, row, cache, rq, owner, deletedAt>> /\ now \in Nat
        /\ env.fillTime \in Nat /\ CacheTTL \in Nat \ {0}
    BY EnvType DEF SetUserAdmin, TypeOK
  <1>1. \A v \in Users : \/ isAdmin'[v]
                         \/ isAdmin'[v] = isAdmin[v] /\ demotedAt'[v] = demotedAt[v]
                         \/ demotedAt'[v] = now
    BY DEF SetUserAdmin, TypeOK
  <1>2. now # None
    BY <1>0
  <1>3. ASSUME NEW i \in Instances, NEW s \in SessionIDs,
               cache[i][s] # None, cache[i][s].admin
        PROVE  \/ isAdmin'[cache[i][s].user]
               \/ /\ demotedAt'[cache[i][s].user] # None
                  /\ cache[i][s].until
                       <= demotedAt'[cache[i][s].user] + env.fillTime + CacheTTL
    <2>1. cache[i][s] \in Entry
      BY <1>3 DEF TypeOK
    <2>2. cache[i][s].user \in Users /\ cache[i][s].until \in Nat
      BY <2>1 DEF Entry
    <2>3. cache[i][s].until <= now + CacheTTL
      BY <1>3 DEF Timely
    <2>4. CASE demotedAt'[cache[i][s].user] = now
      BY <1>0, <1>2, <2>2, <2>3, <2>4
    <2>5. CASE /\ isAdmin'[cache[i][s].user] = isAdmin[cache[i][s].user]
               /\ demotedAt'[cache[i][s].user] = demotedAt[cache[i][s].user]
      BY <1>3, <2>5 DEF Demoted
    <2> QED
      BY <1>1, <2>2, <2>4, <2>5
  <1>4. ASSUME NEW r \in Requests, rq[r].pc = "fill", rq[r].admin
        PROVE  \/ isAdmin'[rq[r].user]
               \/ demotedAt'[rq[r].user] # None /\ rq[r].loaded <= demotedAt'[rq[r].user]
    <2>1. rq[r].user \in Users /\ rq[r].loaded <= now
      BY <1>4, InFlight DEF LocalsOK, Timely
    <2>2. CASE demotedAt'[rq[r].user] = now
      BY <1>2, <2>1, <2>2
    <2>3. CASE isAdmin'[rq[r].user] = isAdmin[rq[r].user] /\ demotedAt'[rq[r].user] = demotedAt[rq[r].user]
      BY <1>4, <2>3 DEF Demoted
    <2> QED
      BY <1>1, <2>1, <2>2, <2>3
  <1> QED
    BY <1>0, <1>3, <1>4 DEF Owned, Timely, Revoked, Demoted

\* The clock waits for the lookups that are due.
LEMMA TickKeeps ==
  ASSUME IInv, Tick
  PROVE  Owned' /\ Timely' /\ Revoked' /\ Demoted'
  <1> USE DEF IInv
  <1>0. /\ UNCHANGED <<env, row, isAdmin, cache, rq, owner, deletedAt, demotedAt>>
        /\ now \in Nat /\ now' = now + 1
        /\ env.fillTime \in Nat /\ CacheTTL \in Nat \ {0}
    BY EnvType DEF Tick, TypeOK, history
  <1>1. ASSUME NEW i \in Instances, NEW s \in SessionIDs, cache[i][s] # None
        PROVE  cache[i][s].until <= now' + CacheTTL
    <2>1. cache[i][s].until \in Nat
      BY <1>1 DEF TypeOK, Entry
    <2>2. cache[i][s].until <= now + CacheTTL
      BY <1>1 DEF Timely
    <2> QED
      BY <1>0, <2>1, <2>2
  <1>2. ASSUME NEW r \in Requests, rq[r].pc \in {"loadUser", "fill"}
        PROVE  rq[r].loaded <= now' /\ now' <= rq[r].loaded + env.fillTime
    <2>1. rq[r].loaded \in Nat /\ rq[r].loaded <= now
      BY <1>2, InFlight DEF Timely
    <2>2. now < rq[r].loaded + env.fillTime
      BY <1>2 DEF Tick
    <2> QED
      BY <1>0, <2>1, <2>2
  <1>3. Timely'
    BY <1>0, <1>1, <1>2 DEF Timely
  <1> QED
    BY <1>0, <1>3 DEF Owned, Revoked, Demoted

\* The three kinds of step together.
LEMMA NextInv == IInv /\ [Next]_vars => IInv'
  <1> SUFFICES ASSUME IInv, [Next]_vars PROVE IInv'
    OBVIOUS
  <1>1. TypeOK'
    BY NextType DEF IInv
  <1>2. CASE Works
    BY <1>1, <1>2, OwnedWorks, TimelyWorks, RevokedWorks, DemotedWorks DEF IInv
  <1>3. CASE \E u \in Users, b \in BOOLEAN : SetUserAdmin(u, b)
    BY <1>1, <1>3, AdminKeeps DEF IInv
  <1>4. CASE Tick
    BY <1>1, <1>4, TickKeeps DEF IInv
  <1> QED
    BY <1>2, <1>3, <1>4, NextEffect DEF IInv

-----------------------------------------------------------------------------
(* The theorems.                                                             *)

\* The invariant holds in every state of every deployment.
THEOREM Invariant == Spec => []IInv
  BY InitInv, NextInv, PTL DEF Spec

\* Whatever the requests, instances and cron jobs do, on either backend, a request
\* is served as the user its session was created for (GetSession, RequireAuth).
THEOREM IdentityHolds == Spec => []SessionIdentity
  <1>1. IInv => SessionIdentity
    BY DEF IInv, Owned, SessionIdentity, Admitted, Knows
  <1> QED
    BY <1>1, Invariant, PTL

\* On SQLite the row of a deleted session never comes back (UpdateSessionExpiry
\* against DeleteSession and the cleanup).
THEOREM NoResurrectionHolds == Spec => NoResurrection
  <1>1. IInv /\ [Next]_vars =>
          [\A s \in SessionIDs :
             ~env.datastore /\ owner[s] # None /\ row[s] = None => row'[s] = None]_vars
    <2> SUFFICES ASSUME IInv, [Next]_vars, NEW s \in SessionIDs,
                        ~env.datastore, owner[s] # None, row[s] = None
                 PROVE  row'[s] = None
      OBVIOUS
    <2>1. CASE Works
      <3>1. RowStep(s) /\ \A r \in Requests : rq[r].pc # "put"
        BY <2>1 DEF Works, IInv, Revoked
      <3> QED
        BY <3>1 DEF RowStep
    <2>2. CASE Tick \/ \E u \in Users, b \in BOOLEAN : SetUserAdmin(u, b)
      BY <2>2 DEF Tick, SetUserAdmin
    <2> QED
      BY <2>1, <2>2, NextEffect DEF IInv
  <1> QED
    BY <1>1, Invariant, PTL DEF Spec, NoResurrection

\* A request is let through by a live cache entry or by a lookup of its own.
LEMMA HowAdmitted ==
  ASSUME IInv, [Next]_vars, NEW r \in Requests, Admits(r)
  PROVE  /\ Works
         /\ rq[r].sid \in SessionIDs /\ rq[r].inst \in Instances
         /\ \/ /\ cache[rq[r].inst][rq[r].sid] # None
               /\ rq'[r].user = cache[rq[r].inst][rq[r].sid].user
               /\ now < cache[rq[r].inst][rq[r].sid].until
               /\ rq[r].kind = "admin" => cache[rq[r].inst][rq[r].sid].admin
            \/ /\ rq[r].pc = "fill" /\ rq'[r].user = rq[r].user
               /\ rq[r].kind = "admin" => rq[r].admin
  <1>1. rq'[r].pc \in {"refresh", "put", "touch", "serve"} /\ rq'[r] # rq[r]
        /\ rq[r].pc \notin {"refresh", "put", "touch", "serve"}
    BY DEF Admits, Admitted
  <1>2. Works
    BY <1>1, NextEffect DEF IInv, Tick, SetUserAdmin
  <1>3. Learns(r)
    BY <1>1, <1>2 DEF Works
  <1>4. rq[r].pc \notin {"idle", "create"} => rq[r].sid \in SessionIDs /\ rq[r].inst \in Instances
    BY InFlight DEF IInv
  <1> QED
    BY <1>1, <1>2, <1>3, <1>4 DEF Learns, Knows

\* On SQLite a request is not let through by a session deleted longer than a fill and a
\* cache lifetime ago.
LEMMA AdmitsAlive ==
  ASSUME IInv, [Next]_vars, NEW r \in Requests, ~env.datastore, Admits(r)
  PROVE  ~DeadLongAgo(rq[r].sid)
  <1> SUFFICES ASSUME deletedAt[rq[r].sid] # None
               PROVE  ~(now >= deletedAt[rq[r].sid] + env.fillTime + CacheTTL)
    BY DEF DeadLongAgo
  <1> DEFINE s == rq[r].sid
             c == cache[rq[r].inst][s]
  <1>0. /\ now \in Nat /\ env.fillTime \in Nat /\ CacheTTL \in Nat \ {0}
        /\ s \in SessionIDs /\ rq[r].inst \in Instances
    BY EnvType, HowAdmitted DEF IInv, TypeOK
  <1>1. deletedAt[s] \in Nat
    BY <1>0 DEF IInv, TypeOK
  <1>2. CASE c # None /\ now < c.until
    <2>1. c.until \in Nat
      BY <1>0, <1>2 DEF IInv, TypeOK, Entry
    <2>2. c.until <= deletedAt[s] + env.fillTime + CacheTTL
      BY <1>0, <1>2 DEF IInv, Revoked
    <2> QED
      BY <1>0, <1>1, <1>2, <2>1, <2>2
  <1>3. CASE rq[r].pc = "fill"
    <2>1. /\ rq[r].loaded \in Nat /\ rq[r].loaded <= deletedAt[s]
          /\ now <= rq[r].loaded + env.fillTime
      BY <1>3, InFlight DEF IInv, Revoked, Timely
    <2> QED
      BY <1>0, <1>1, <2>1
  <1> QED
    BY <1>2, <1>3, HowAdmitted

\* On SQLite no instance admits a session once a fill and a cache lifetime have
\* passed since it was deleted (GetSession against DeleteSession).
THEOREM RevocationHolds == Spec => RevocationBound
  <1>1. IInv /\ [Next]_vars =>
          [\A r \in Requests :
             ~env.datastore /\ Admits(r) => ~DeadLongAgo(rq[r].sid)]_vars
    BY AdmitsAlive
  <1> QED
    BY <1>1, Invariant, PTL DEF Spec, RevocationBound

\* On either backend admin rights outlive their removal by less than a fill and a
\* cache lifetime (RequireAdmin, SetUserAdmin).
THEOREM AdminHolds == Spec => AdminBound
  <1>1. IInv /\ [Next]_vars =>
          [\A r \in Requests :
             Admits(r) /\ rq[r].kind = "admin"
               => LET u == rq'[r].user
                  IN  \/ isAdmin[u]
                      \/ demotedAt[u] # None /\ now < demotedAt[u] + env.fillTime + CacheTTL]_vars
    <2> SUFFICES ASSUME IInv, [Next]_vars, NEW r \in Requests, Admits(r),
                        rq[r].kind = "admin"
                 PROVE  \/ isAdmin[rq'[r].user]
                        \/ /\ demotedAt[rq'[r].user] # None
                           /\ now < demotedAt[rq'[r].user] + env.fillTime + CacheTTL
      OBVIOUS
    <2> DEFINE s == rq[r].sid
               c == cache[rq[r].inst][s]
    <2>0. /\ now \in Nat /\ env.fillTime \in Nat /\ CacheTTL \in Nat \ {0}
          /\ s \in SessionIDs /\ rq[r].inst \in Instances
      BY EnvType, HowAdmitted DEF IInv, TypeOK
    <2>1. CASE c # None /\ rq'[r].user = c.user /\ now < c.until /\ c.admin
      <3>1. c.until \in Nat /\ c.user \in Users
        BY <2>0, <2>1, SMTT(30) DEF IInv, TypeOK, Entry
      <3>2. \/ isAdmin[c.user]
            \/ /\ demotedAt[c.user] # None
               /\ c.until <= demotedAt[c.user] + env.fillTime + CacheTTL
        BY <2>0, <2>1 DEF IInv, Demoted
      <3>3. demotedAt[c.user] \in Nat \cup {None}
        BY <3>1 DEF IInv, TypeOK
      <3>4. CASE isAdmin[c.user]
        BY <2>1, <3>4, ZenonT(60)
      <3>5. CASE ~isAdmin[c.user]
        <4>1. demotedAt[c.user] # None /\ demotedAt[c.user] \in Nat
          BY <3>2, <3>3, <3>5, ZenonT(60)
        <4>2. now < demotedAt[c.user] + env.fillTime + CacheTTL
          BY <2>0, <2>1, <3>1, <3>2, <3>5, <4>1, SMTT(30)
        <4> QED
          BY <2>1, <4>1, <4>2, ZenonT(60)
      <3> QED
        BY <3>4, <3>5
    <2>2. CASE rq[r].pc = "fill" /\ rq'[r].user = rq[r].user /\ rq[r].admin
      <3>1. /\ rq[r].loaded \in Nat /\ rq[r].user \in Users
            /\ now <= rq[r].loaded + env.fillTime
        BY <2>2, InFlight DEF IInv, LocalsOK, Timely
      <3>2. \/ isAdmin[rq[r].user]
            \/ demotedAt[rq[r].user] # None /\ rq[r].loaded <= demotedAt[rq[r].user]
        BY <2>2 DEF IInv, Demoted
      <3>3. demotedAt[rq[r].user] \in Nat \cup {None}
        BY <3>1 DEF IInv, TypeOK
      <3> QED
        BY <2>0, <2>2, <3>1, <3>2, <3>3
    <2> QED
      BY <2>1, <2>2, HowAdmitted
  <1> QED
    BY <1>1, Invariant, PTL DEF Spec, AdminBound

-----------------------------------------------------------------------------
(* The session store implements SessionService.  The argument rests on IInv: *)
(* it gives the user of an admission and, on SQLite, its time.               *)

\* A step of one request changes what is being served in one of three ways.
LEMMA ServingStep ==
  ASSUME NEW r \in Requests, Only(r), Learns(r)
  PROVE  \/ Serving' = Serving
         \/ Serving' = [q \in Requests |-> IF q \in {r} THEN None ELSE Serving[q]]
         \/ /\ Admits(r) /\ rq'[r].sid = rq[r].sid
            /\ Serving' = [Serving EXCEPT ![r] = [sid |-> rq'[r].sid, user |-> rq'[r].user]]
  <1>1. \A q \in Requests \ {r} : rq'[q] = rq[q]
    BY DEF Only
  <1>2. CASE ~Admitted(r)'
    <2>1. \A q \in Requests : Serving'[q] = IF q \in {r} THEN None ELSE Serving[q]
      BY <1>1, <1>2 DEF Serving, Admitted
    <2> QED
      BY <2>1 DEF Serving
  <1>3. CASE Admitted(r) /\ Admitted(r)'
    <2>1. rq'[r].sid = rq[r].sid /\ rq'[r].user = rq[r].user
      BY <1>3 DEF Learns, Admitted, Knows
    <2>2. \A q \in Requests : Serving'[q] = Serving[q]
      BY <1>1, <1>3, <2>1 DEF Serving, Admitted
    <2> QED
      BY <2>2 DEF Serving
  <1>4. CASE Admits(r)
    <2>1. rq'[r].sid = rq[r].sid
      BY <1>4 DEF Learns, Admits, Admitted, Knows
    <2>2. \A q \in Requests :
            Serving'[q] = IF q = r THEN [sid |-> rq'[r].sid, user |-> rq'[r].user] ELSE Serving[q]
      BY <1>1, <1>4 DEF Serving, Admits, Admitted
    <2> QED
      BY <1>4, <2>1, <2>2 DEF Serving
  <1> QED
    BY <1>2, <1>3, <1>4 DEF Admits

\* Rows that are deleted end sessions, which all have an owner.
LEMMA DeleteEnds ==
  ASSUME IInv, NEW S, DeleteRows(S), UNCHANGED <<env, now, owner>>, Serving' = Serving
  PROVE  Service!Next
  <1> DEFINE E == {s \in SessionIDs : s \in S /\ row[s] # None /\ deletedAt[s] = None}
  <1>1. \A s \in E : owner[s] # None /\ deletedAt[s] = None
    <2> SUFFICES ASSUME NEW s \in E PROVE owner[s] # None
      OBVIOUS
    <2>1. row[s] \in Row /\ row[s].user = owner[s]
      BY DEF IInv, TypeOK, Owned
    <2> QED
      BY <2>1 DEF Row
  <1>2. deletedAt' = [s \in SessionIDs |-> IF s \in E THEN now ELSE deletedAt[s]]
    BY DEF DeleteRows
  <1>3. Service!End(E)
    BY <1>1, <1>2 DEF Service!End
  <1> QED
    BY <1>3 DEF Service!Next

\* What the request takes along when it is let through is what the service promises.
LEMMA AdmitServes ==
  ASSUME IInv, [Next]_vars, NEW r \in Requests, Admits(r), rq'[r].sid = rq[r].sid,
         Serving' = [Serving EXCEPT ![r] = [sid |-> rq'[r].sid, user |-> rq'[r].user]],
         UNCHANGED <<env, now, owner, deletedAt>>
  PROVE  Service!Next
  <1> DEFINE s == rq[r].sid
  <1>1. s \in SessionIDs
    BY HowAdmitted
  <1>2. rq'[r].user = owner[s] /\ owner[s] # None
    <2>1. IInv'
      BY NextInv
    <2>2. rq'[r].user = owner'[rq'[r].sid] /\ rq'[r].user # None
      BY <2>1 DEF IInv, TypeOK, LocalsOK, Owned, Admits, Admitted, Knows
    <2> QED
      BY <2>2
  <1>3. ~env.datastore => ~Service!Over(s)
    <2>1. now \in Nat /\ env.fillTime \in Nat /\ deletedAt[s] \in Nat \cup {None}
      BY <1>1, EnvType DEF IInv, TypeOK
    <2>2. ~env.datastore => ~DeadLongAgo(s)
      BY AdmitsAlive
    <2> QED
      BY <2>1, <2>2 DEF DeadLongAgo, Service!Over
  <1>4. Serving[r] = None
    BY DEF Serving, Admits
  <1>5. Service!Admit(r, s)
    BY <1>2, <1>3, <1>4 DEF Service!Admit
  <1> QED
    BY <1>1, <1>5 DEF Service!Next

\* A request ends, or several with their instance.
LEMMA FinishServes ==
  ASSUME NEW R \in SUBSET Requests,
         Serving' = [r \in Requests |-> IF r \in R THEN None ELSE Serving[r]],
         UNCHANGED <<env, now, owner, deletedAt>>
  PROVE  Service!Next
  BY ZenonT(60) DEF Service!Next, Service!Finish

\* The steps of a request.
LEMMA StepRefines ==
  ASSUME IInv, [Next]_vars, NEW r \in Requests, Step(r)
  PROVE  [Service!Next]_Service!vars
  <1>0. Only(r) /\ Learns(r)
    BY StepEffect DEF IInv
  <1>1. rq \in [Requests -> Req] /\ rq[r] \in Req
    BY DEF IInv, TypeOK
  <1>2. CASE UNCHANGED <<env, now, owner, deletedAt>>
    <2>1. CASE Serving' = Serving
      BY <1>2, <2>1 DEF Service!vars
    <2>2. CASE Serving' = [q \in Requests |-> IF q \in {r} THEN None ELSE Serving[q]]
      BY <1>2, <2>2, FinishServes, ZenonT(60)
    <2>3. CASE /\ Admits(r) /\ rq'[r].sid = rq[r].sid
               /\ Serving' = [Serving EXCEPT ![r] = [sid |-> rq'[r].sid, user |-> rq'[r].user]]
      BY <1>2, <2>3, AdmitServes
    <2> QED
      BY <1>0, <2>1, <2>2, <2>3, ServingStep
  <1>3. CASE DropRow(r)
    <2>1. Goto(r, "dropCache") /\ rq[r].pc = "dropRow" /\ UNCHANGED <<env, now, owner>>
      BY <1>3 DEF DropRow
    <2>2. ~Admitted(r) /\ ~Admitted(r)'
      BY <2>1, GotoEffect DEF Admitted, PCs, IInv
    <2>3. Serving' = Serving
      BY <1>0, <2>2 DEF Serving, Admitted, Only
    <2>4. CASE DeleteRows({rq[r].sid})
      BY <2>1, <2>3, <2>4, DeleteEnds
    <2> QED
      BY <1>3, <2>1, <2>3, <2>4 DEF DropRow, Service!vars
  <1>4. ASSUME NEW s \in SessionIDs, NEW u \in Users, CreateSession(r, s, u)
        PROVE  [Service!Next]_Service!vars
    <2>1. ~Admitted(r) /\ ~Admitted(r)'
      BY <1>1, <1>4, IdleType DEF CreateSession, Admitted
    <2>2. Serving' = Serving
      BY <1>0, <2>1 DEF Serving, Admitted, Only
    <2>3. Service!Create(s, u)
      BY <1>4, <2>2 DEF CreateSession, Service!Create
    <2> QED
      BY <2>3 DEF Service!Next
  <1> QED
    BY <1>2, <1>3, <1>4, EnvType
    DEF IInv, Step, Lookup, ReadRow, LoadUser, Fill, Refresh, Put, Touch, Serve, DropCache,
        CreateFails, history

\* Every step is one of the service's, or none.
LEMMA NextRefines == IInv /\ [Next]_vars => [Service!Next]_Service!vars
  <1> SUFFICES ASSUME IInv, [Next]_vars PROVE [Service!Next]_Service!vars
    OBVIOUS
  <1>0. rq \in [Requests -> Req]
    BY DEF IInv, TypeOK
  <1>1. ASSUME NEW r \in Requests, Step(r)
        PROVE  [Service!Next]_Service!vars
    BY <1>1, StepRefines
  <1>2. ASSUME NEW r \in Requests, NEW i, NEW k, NEW s, BeginLogin(r, i) \/ Begin(r, k, i, s)
        PROVE  [Service!Next]_Service!vars
    <2>1. PICK q : rq' = [rq EXCEPT ![r] = q] /\ q.pc \in {"create", "lookup"}
      <3>1. /\ Request("create", "login", i, None, FALSE).pc = "create"
            /\ Request("lookup", k, i, s, FALSE).pc = "lookup"
        BY DEF Request
      <3> QED
        BY <1>2, <3>1 DEF BeginLogin, Begin
    <2>2. rq[r].pc = "idle" /\ UNCHANGED <<env, now, owner, deletedAt>>
      BY <1>2 DEF BeginLogin, Begin, history
    <2>3. \A t \in Requests : Serving'[t] = Serving[t]
      BY <1>0, <2>1, <2>2 DEF Serving, Admitted
    <2>4. Serving' = Serving
      BY <2>3 DEF Serving
    <2> QED
      BY <2>2, <2>4 DEF Service!vars
  <1>3. ASSUME rq' = rq PROVE Serving' = Serving
    BY <1>3 DEF Serving, Admitted
  <1>4. CASE Cron
    <2>1. UNCHANGED <<env, now, owner, rq>>
      BY <1>4 DEF Cron, CronRows, CronDelete, CronFails, CronCache, history
    <2>2. CASE UNCHANGED deletedAt
      BY <1>3, <2>1, <2>2 DEF Service!vars
    <2>3. ASSUME NEW S, DeleteRows(S) PROVE Service!Next
      BY <1>3, <2>1, <2>3, DeleteEnds
    <2> QED
      BY <1>4, <2>2, <2>3 DEF Cron, CronRows, CronDelete, CronFails, CronCache, history
  <1>5. ASSUME NEW u, NEW b, SetUserAdmin(u, b)
        PROVE  [Service!Next]_Service!vars
    BY <1>3, <1>5 DEF SetUserAdmin, Service!vars
  <1>6. ASSUME NEW i, Restart(i)
        PROVE  [Service!Next]_Service!vars
    <2> DEFINE R == {r \in Requests : rq[r].inst = i}
    <2>1. \A r \in Requests : Serving'[r] = IF r \in R THEN None ELSE Serving[r]
      BY <1>0, <1>6, IdleType DEF Restart, Serving, Admitted
    <2>2. Serving' = [r \in Requests |-> IF r \in R THEN None ELSE Serving[r]]
      BY <2>1 DEF Serving
    <2> QED
      BY <1>6, <2>2, FinishServes DEF Restart, history
  <1>7. CASE Tick
    <2>1. Service!Tick
      BY <1>3, <1>7 DEF Tick, Service!Tick, history
    <2> QED
      BY <2>1 DEF Service!Next
  <1>8. CASE UNCHANGED vars
    BY <1>3, <1>8 DEF vars, Service!vars
  <1> QED
    BY <1>1, <1>2, <1>4, <1>5, <1>6, <1>7, <1>8, EnvType DEF IInv, Next

\* The server starts like the service.
LEMMA InitRefines == Init => Service!Init
  <1> SUFFICES ASSUME Init PROVE Service!Init
    OBVIOUS
  <1>1. Serving = [r \in Requests |-> None]
    BY IdleType DEF Init, Serving, Admitted
  <1>2. env.fillTime + CacheTTL \in Nat /\ (~env.datastore) \in BOOLEAN
    BY DEF Init, Env
  <1> QED
    BY <1>1, <1>2 DEF Init, Service!Init

\* Rows, caches, lookups in flight, refreshes, the cron job and restarts implement one
\* store that serves every request as the user of its session and, on SQLite, none
\* whose session was ended more than a fill and a cache lifetime ago (SessionManager).
THEOREM Refinement == Spec => ImplementsService
  BY InitRefines, NextRefines, Invariant, PTL DEF Spec, ImplementsService, Service!Spec
=============================================================================
