------------------------- MODULE UnreadCountsProofs -------------------------
(***************************************************************************)
(* Proofs about UnreadCounts for every number of users, feeds, articles,   *)
(* instances and overlapping requests.                                     *)
(***************************************************************************)
EXTENDS UnreadCounts, FiniteSetTheorems, TLAPS

USE ContentAssumption, BoundAssumption, EnvsAssumption, NoneIsNoEntry

-----------------------------------------------------------------------------
(* Types.                                                                    *)

\* What a deployment may be.
LEMMA EnvType ==
  ASSUME TypeOK
  PROVE  /\ env.datastore \in BOOLEAN /\ env.instances \subseteq Instances
         /\ env.maxUsers \in Nat /\ env.latency \in Nat /\ env.maxTime \in Nat
         /\ env.kinds \subseteq AllKinds /\ env.requests \subseteq Requests
         /\ env.users \subseteq Users
  BY DEF TypeOK, Env

\* What the fields of a request may hold.
LEMMA ReqFields ==
  ASSUME NEW q \in Req
  PROVE  /\ q.pc \in PCs /\ q.inst \in Instances \cup {None} /\ q.user \in Users \cup {None}
         /\ q.since \in Nat /\ q.valid \in SUBSET Feeds /\ q.todo \in SUBSET Feeds
         /\ q.window \in SUBSET Articles
         /\ q.unread \in SUBSET Articles /\ q.feed \in Feeds \cup {None}
         /\ q.art \in Articles \cup {None} /\ q.was \in BOOLEAN /\ q.is \in BOOLEAN
  BY DEF Req

\* An instance has an entry of a user or none.
LEMMA CacheType ==
  ASSUME TypeOK, NEW i \in Instances, NEW u \in Users
  PROVE  cache[i][u] \in Entry \cup {None}
  BY DEF TypeOK

\* A request slot that is free.
LEMMA IdleType == Idle \in Req /\ LocalsOK(Idle) /\ Idle.pc = "idle"
PROOF
  <1> DEFINE q == Request("idle", None, None)
  <1>1. q = [pc |-> "idle", inst |-> None, user |-> None, since |-> now, valid |-> {}, window |-> {},
             todo |-> {}, unread |-> {}, feed |-> None, art |-> None, was |-> FALSE, is |-> FALSE]
    BY DEF Request
  <1>2. Idle = [q EXCEPT !.since = 0]
    BY DEF Idle
  <1> HIDE DEF q
  <1>3. /\ Idle \in Req /\ Idle.pc = "idle"
    BY <1>1, <1>2 DEF Req, PCs
  <1> QED
    BY <1>3 DEF LocalsOK

\* The number of a finite set of articles is a count.
LEMMA CountType ==
  ASSUME NEW S \in SUBSET Articles
  PROVE  CountOf(S) \in Counts
PROOF
  <1>1. ASSUME NEW f \in Feeds
        PROVE  Cardinality(InFeeds(S, {f})) \in Nat
    <2>1. InFeeds(S, {f}) \subseteq Articles
      BY DEF InFeeds
    <2> QED
      BY <2>1, FS_Subset, FS_CardinalityType
  <1> QED
    BY <1>1 DEF CountOf, Counts

\* A request that goes on as q leaves the others alone.
LEMMA Moved ==
  ASSUME TypeOK, NEW r \in Requests, NEW q \in Req, LocalsOK(q), rq' = [rq EXCEPT ![r] = q]
  PROVE  /\ rq' \in [Requests -> Req] /\ \A x \in Requests : LocalsOK(rq'[x])
         /\ rq'[r] = q /\ \A x \in Requests : x # r => rq'[x] = rq[x]
  BY DEF TypeOK

-----------------------------------------------------------------------------
(* The inductive invariant.                                                  *)

\* No request takes longer than env.latency.
Timely(q) == q.pc # "idle" => q.since <= now /\ now <= q.since + env.latency

\* A request about to update a count has changed the database since it began.
Marked(q) == q.pc = "update" => q.since <= disturbed[q.user]

\* A read of the counts that began after the user was last disturbed sees one state of
\* the database, that of now.
Exact(q) ==
  /\ q.valid = subs[q.user]
  /\ q.pc \in {"get", "feeds"} => q.unread = {}
  /\ q.pc = "count" =>
       /\ q.todo \subseteq subs[q.user]
       /\ env.datastore => /\ q.unread = InFeeds(stored \cap recent, subs[q.user] \ q.todo)
                           /\ InFeeds(q.window, subs[q.user]) = InFeeds(recent, subs[q.user])
       /\ ~env.datastore =>
            q.unread = InFeeds((stored \cap recent) \ read[q.user], subs[q.user] \ q.todo)
  /\ q.pc = "status" => q.unread = InFeeds(stored \cap recent, subs[q.user])
  /\ q.pc = "set" => q.unread = InFeeds((stored \cap recent) \ read[q.user], subs[q.user])

Reading == {"get", "feeds", "count", "status", "set"}
Reads(q) == q.pc \in Reading /\ q.since > disturbed[q.user] => Exact(q)

\* An entry set late enough after the last disturbance is the truth.
EntryOK(e, u) ==
  /\ e.until <= now + TTL
  /\ e.until > disturbed[u] + env.latency + TTL => e.count = Truth(u)

Past     == \A u \in Users : disturbed[u] <= now
Requesting == \A r \in Requests : Timely(rq[r]) /\ Marked(rq[r]) /\ Reads(rq[r])
Entries  == \A i \in Instances, u \in Users : cache[i][u] # None => EntryOK(cache[i][u], u)

Inv == TypeOK /\ Past /\ Requesting /\ Entries /\ CacheBounded

\* A step of request r that touches neither the database nor a cache.
LEMMA MoveInv ==
  ASSUME Inv, NEW r \in Requests, NEW q \in Req, LocalsOK(q), rq' = [rq EXCEPT ![r] = q],
         UNCHANGED <<env, now, stored, recent, subs, read, cache, disturbed>>,
         Timely(q), Marked(q), Reads(q)
  PROVE  Inv'
PROOF
  <1>1. TypeOK
    BY DEF Inv
  <1>2. /\ rq' \in [Requests -> Req] /\ \A x \in Requests : LocalsOK(rq'[x])
        /\ rq'[r] = q /\ \A x \in Requests : x # r => rq'[x] = rq[x]
    BY <1>1, Moved
  <1>3. TypeOK'
    BY <1>1, <1>2 DEF TypeOK
  <1>4. Requesting'
    <2> SUFFICES ASSUME NEW x \in Requests
                 PROVE  (Timely(rq[x]) /\ Marked(rq[x]) /\ Reads(rq[x]))'
      BY DEF Requesting
    <2>1. \E y \in Req : rq'[x] = y /\ Timely(y) /\ Marked(y) /\ Reads(y)
      BY <1>1, <1>2 DEF Inv, Requesting, TypeOK
    <2> QED
      BY <2>1, ZenonT(60) DEF Timely, Marked, Reads, Exact
  <1>5. Past' /\ Entries' /\ CacheBounded'
    BY DEF Inv, Past, Entries, EntryOK, Truth, CacheBounded
  <1> QED
    BY <1>3, <1>4, <1>5 DEF Inv

\* A request ends.
LEMMA EndInv ==
  ASSUME Inv, NEW r \in Requests, End(r),
         UNCHANGED <<env, now, stored, recent, subs, read, cache, disturbed>>
  PROVE  Inv'
PROOF
  <1>1. Timely(Idle) /\ Marked(Idle) /\ Reads(Idle)
    BY IdleType DEF Timely, Marked, Reads, Reading
  <1> QED
    BY <1>1, IdleType, MoveInv DEF End

\* A step of request r that disturbs its user: from then on nothing that the user's
\* requests and entries say has to be exact.
LEMMA DisturbInv ==
  ASSUME Inv, NEW r \in Requests, NEW q \in Req, LocalsOK(q), rq' = [rq EXCEPT ![r] = q],
         UNCHANGED <<env, now, stored, recent, cache>>,
         rq[r].pc # "idle", Disturb({rq[r].user}),
         subs' \in [Users -> SUBSET Feeds], read' \in [Users -> SUBSET Articles],
         \A v \in Users : v # rq[r].user => subs'[v] = subs[v] /\ read'[v] = read[v],
         q.pc = "idle" \/ (q.user = rq[r].user /\ q.since = rq[r].since)
  PROVE  Inv'
PROOF
  <1> DEFINE u == rq[r].user
  <1>1. TypeOK /\ rq[r] \in Req /\ LocalsOK(rq[r]) /\ Timely(rq[r])
    BY DEF Inv, TypeOK, Requesting
  <1>2. u \in Users /\ rq[r].since \in Nat /\ now \in Nat /\ env.latency \in Nat
    BY <1>1, ReqFields, EnvType DEF LocalsOK, TypeOK
  <1>3. /\ rq' \in [Requests -> Req] /\ \A x \in Requests : LocalsOK(rq'[x])
        /\ rq'[r] = q /\ \A x \in Requests : x # r => rq'[x] = rq[x]
    BY <1>1, Moved
  <1>4. /\ disturbed' \in [Users -> Nat]
        /\ \A v \in Users : disturbed'[v] = IF v = u THEN now ELSE disturbed[v]
        /\ \A v \in Users : disturbed[v] \in Nat /\ disturbed[v] <= now
    BY <1>1, <1>2 DEF Disturb, TypeOK, Inv, Past
  <1>5. TypeOK'
    BY <1>1, <1>3, <1>4 DEF TypeOK
  <1>6. Past'
    BY <1>2, <1>4 DEF Past
  <1>7. Requesting'
    <2> SUFFICES ASSUME NEW x \in Requests
                 PROVE  (Timely(rq[x]) /\ Marked(rq[x]) /\ Reads(rq[x]))'
      BY DEF Requesting
    <2>1. CASE x = r
      <3>1. rq'[x] = q
        BY <1>3, <2>1
      <3>2. CASE q.pc = "idle"
        BY <3>1, <3>2 DEF Timely, Marked, Reads, Reading
      <3>3. CASE q.user = u /\ q.since = rq[r].since
        <4>1. rq[r].since <= now /\ now <= rq[r].since + env.latency
          BY <1>1 DEF Timely
        <4>2. disturbed'[u] = now
          BY <1>2, <1>4
        <4>3. Timely(rq[x])' /\ Marked(rq[x])'
          BY <3>1, <3>3, <4>1, <4>2 DEF Timely, Marked
        <4>4. ~(rq'[x].since > disturbed'[rq'[x].user])
          BY <1>2, <3>1, <3>3, <4>1, <4>2
        <4> QED
          BY <4>3, <4>4 DEF Reads
      <3> QED
        BY <3>2, <3>3
    <2>2. CASE x # r
      <3> DEFINE y == rq[x]
      <3>1. rq'[x] = y /\ y \in Req /\ LocalsOK(y) /\ Timely(y) /\ Marked(y) /\ Reads(y)
        BY <1>1, <1>3, <2>2 DEF TypeOK, Inv, Requesting
      <3>2. y.since \in Nat /\ y.user \in Users \cup {None} /\ y.pc \in PCs
        BY <3>1, ReqFields
      <3> HIDE DEF y
      <3>3. CASE y.pc = "idle"
        BY <3>1, <3>3 DEF Timely, Marked, Reads, Reading
      <3>4. CASE y.pc # "idle" /\ y.user = u
        <4>1. y.since <= now /\ disturbed'[y.user] = now
          BY <1>2, <1>4, <3>1, <3>4 DEF Timely
        <4>2. ~(y.since > disturbed'[y.user]) /\ y.since <= disturbed'[y.user]
          BY <1>2, <3>2, <4>1
        <4> QED
          BY <3>1, <4>2 DEF Timely, Marked, Reads
      <3>5. CASE y.pc # "idle" /\ y.user # u
        <4>1. y.user \in Users
          BY <3>1, <3>2, <3>5 DEF LocalsOK
        <4>2. /\ disturbed'[y.user] = disturbed[y.user]
              /\ subs'[y.user] = subs[y.user] /\ read'[y.user] = read[y.user]
          BY <1>4, <3>5, <4>1
        <4> QED
          BY <3>1, <4>2 DEF Timely, Marked, Reads, Exact
      <3> QED
        BY <3>3, <3>4, <3>5
    <2> QED
      BY <2>1, <2>2
  <1>8. Entries'
    <2> SUFFICES ASSUME NEW i \in Instances, NEW v \in Users, cache[i][v] # None
                 PROVE  EntryOK(cache[i][v], v)'
      BY DEF Entries
    <2> DEFINE e == cache[i][v]
    <2>1. e \in Entry /\ EntryOK(e, v) /\ cache' = cache
      BY <1>1 DEF TypeOK, Inv, Entries
    <2>2. e.until \in Nat
      BY <2>1 DEF Entry
    <2> HIDE DEF e
    <2>3. CASE v = u
      <3>1. e.until <= now + TTL /\ disturbed'[v] = now
        BY <1>4, <2>1, <2>3 DEF EntryOK
      <3>2. ~(e.until > disturbed'[v] + env.latency + TTL)
        BY <1>2, <2>2, <3>1
      <3> QED
        BY <2>1, <3>1, <3>2 DEF EntryOK, e
    <2>4. CASE v # u
      <3>1. disturbed'[v] = disturbed[v] /\ subs'[v] = subs[v] /\ read'[v] = read[v]
        BY <1>4, <2>4
      <3> QED
        BY <2>1, <3>1 DEF EntryOK, e, Truth
    <2> QED
      BY <2>3, <2>4
  <1>9. CacheBounded'
    BY DEF Inv, CacheBounded
  <1> QED
    BY <1>5, <1>6, <1>7, <1>8, <1>9 DEF Inv

\* Request r ends with a new cache on its instance: entries go, or get right.
LEMMA CacheInv ==
  ASSUME Inv, NEW r \in Requests, End(r), NEW i \in Instances,
         UNCHANGED <<env, now, stored, recent, subs, read, disturbed>>,
         NEW C \in [Users -> Entry \cup {None}], cache' = [cache EXCEPT ![i] = C],
         \A v \in Users : C[v] # None => EntryOK(C[v], v),
         env.maxUsers > 0 => Cardinality({v \in Users : C[v] # None}) <= env.maxUsers
  PROVE  Inv'
PROOF
  <1>1. TypeOK
    BY DEF Inv
  <1>2. /\ rq' \in [Requests -> Req] /\ \A x \in Requests : LocalsOK(rq'[x])
        /\ rq'[r] = Idle /\ \A x \in Requests : x # r => rq'[x] = rq[x]
    BY <1>1, IdleType, Moved DEF End
  <1>3. /\ cache' \in [Instances -> [Users -> Entry \cup {None}]]
        /\ cache'[i] = C /\ \A j \in Instances : j # i => cache'[j] = cache[j]
    BY <1>1 DEF TypeOK
  <1>4. TypeOK'
    BY <1>1, <1>2, <1>3 DEF TypeOK
  <1>5. Requesting'
    <2> SUFFICES ASSUME NEW x \in Requests
                 PROVE  (Timely(rq[x]) /\ Marked(rq[x]) /\ Reads(rq[x]))'
      BY DEF Requesting
    <2>1. CASE x = r
      BY <1>2, <2>1, IdleType DEF Timely, Marked, Reads, Reading
    <2>2. CASE x # r
      <3>1. rq'[x] = rq[x] /\ Timely(rq[x]) /\ Marked(rq[x]) /\ Reads(rq[x])
        BY <1>2, <2>2 DEF Inv, Requesting
      <3> QED
        BY <3>1 DEF Timely, Marked, Reads, Exact
    <2> QED
      BY <2>1, <2>2
  <1>6. Entries'
    <2> SUFFICES ASSUME NEW j \in Instances, NEW v \in Users, cache'[j][v] # None
                 PROVE  EntryOK(cache[j][v], v)'
      BY DEF Entries
    <2>1. EntryOK(cache'[j][v], v)
      BY <1>3 DEF Inv, Entries
    <2> QED
      BY <2>1 DEF EntryOK, Truth
  <1>7. CacheBounded'
    <2> SUFFICES ASSUME env.maxUsers > 0, NEW j \in Instances
                 PROVE  Cardinality({v \in Users : cache'[j][v] # None}) <= env.maxUsers
      BY DEF CacheBounded
    <2>1. CASE j = i
      BY <1>3, <2>1
    <2>2. CASE j # i
      <3>1. cache'[j] = cache[j]
        BY <1>3, <2>2
      <3> QED
        BY <3>1 DEF Inv, CacheBounded
    <2> QED
      BY <2>1, <2>2
  <1>8. Past'
    BY DEF Inv, Past
  <1> QED
    BY <1>4, <1>5, <1>6, <1>7, <1>8 DEF Inv

\* A cache with fewer users stays within its limit.
LEMMA FewerUsers ==
  ASSUME Inv, NEW i \in Instances, NEW C,
         \A v \in Users : C[v] # None => cache[i][v] # None
  PROVE  env.maxUsers > 0 => Cardinality({v \in Users : C[v] # None}) <= env.maxUsers
PROOF
  <1> DEFINE A == {v \in Users : C[v] # None}
             B == {v \in Users : cache[i][v] # None}
  <1>1. IsFiniteSet(B) /\ A \subseteq B
    BY FS_Subset
  <1>2. IsFiniteSet(A) /\ Cardinality(A) <= Cardinality(B)
    BY <1>1, FS_Subset
  <1>3. Cardinality(A) \in Nat /\ Cardinality(B) \in Nat /\ env.maxUsers \in Nat
    BY <1>1, <1>2, FS_CardinalityType, EnvType DEF Inv
  <1>4. env.maxUsers > 0 => Cardinality(B) <= env.maxUsers
    BY DEF Inv, CacheBounded
  <1> HIDE DEF A, B
  <1>5. env.maxUsers > 0 => Cardinality(A) <= env.maxUsers
    BY <1>2, <1>3, <1>4
  <1> QED
    BY <1>5 DEF A

-----------------------------------------------------------------------------
(* Requests arrive.                                                          *)

\* The record a request begins with.
LEMMA RequestType ==
  ASSUME TypeOK, NEW pc \in PCs, NEW i \in Instances, NEW u \in Users
  PROVE  /\ Request(pc, i, u) \in Req /\ Request(pc, i, u).pc = pc /\ Request(pc, i, u).inst = i
         /\ Request(pc, i, u).user = u /\ Request(pc, i, u).since = now
         /\ Request(pc, i, u).unread = {}
PROOF
  <1>1. now \in Nat
    BY DEF TypeOK
  <1> QED
    BY <1>1 DEF Request, Req

\* A request is on time when it arrives.
LEMMA JustNow ==
  ASSUME TypeOK, NEW q, q.since = now
  PROVE  Timely(q)
PROOF
  <1>1. now \in Nat /\ env.latency \in Nat
    BY EnvType DEF TypeOK
  <1> QED
    BY <1>1 DEF Timely

\* A request for the counts begins.
LEMMA BeginCountsInv ==
  ASSUME Inv, NEW r \in env.requests, NEW i \in env.instances, NEW u \in env.users,
         BeginCounts(r, i, u)
  PROVE  Inv'
PROOF
  <1> DEFINE p == Request("get", i, u)
             q == [p EXCEPT !.valid = subs[u]]
  <1>1. TypeOK /\ r \in Requests /\ i \in Instances /\ u \in Users /\ "get" \in PCs
    BY EnvType DEF Inv, PCs
  <1>2. subs[u] \in SUBSET Feeds
    BY <1>1 DEF TypeOK
  <1>3. p \in Req /\ p.pc = "get" /\ p.inst = i /\ p.user = u /\ p.since = now /\ p.unread = {}
    BY <1>1, RequestType
  <1>4. UNCHANGED <<env, now, stored, recent, subs, read, cache, disturbed>> /\ rq' = [rq EXCEPT ![r] = q]
    BY DEF BeginCounts, db
  <1> HIDE DEF p
  <1>5. /\ q \in Req /\ q.pc = "get" /\ q.inst = i /\ q.user = u /\ q.valid = subs[u]
        /\ q.unread = {} /\ q.since = now
    BY <1>2, <1>3 DEF Req
  <1> HIDE DEF q
  <1>6. LocalsOK(q) /\ Marked(q) /\ Reads(q) /\ Timely(q)
    BY <1>1, <1>5, JustNow DEF LocalsOK, Marked, Reads, Exact
  <1> QED
    BY <1>1, <1>4, <1>5, <1>6, MoveInv

\* A mark of an article begins.
LEMMA BeginMarkInv ==
  ASSUME Inv, NEW r \in env.requests, NEW i \in env.instances, NEW u \in env.users,
         NEW a \in Articles, NEW f \in Feeds \cup {None}, NEW is \in BOOLEAN,
         BeginMark(r, i, u, a, f, is)
  PROVE  Inv'
PROOF
  <1> DEFINE was == a \in read[u]
             p   == Request("mark", i, u)
             q   == [p EXCEPT !.art = a, !.feed = f, !.was = was, !.is = is]
  <1>1. TypeOK /\ r \in Requests /\ i \in Instances /\ u \in Users /\ "mark" \in PCs
    BY EnvType DEF Inv, PCs
  <1>2. UNCHANGED <<env, now, stored, recent, subs, read, cache, disturbed>> /\ rq' = [rq EXCEPT ![r] = q]
    BY DEF BeginMark, db
  <1>3. was \in BOOLEAN
    OBVIOUS
  <1>4. p \in Req /\ p.pc = "mark" /\ p.inst = i /\ p.user = u /\ p.since = now
    BY <1>1, RequestType
  <1> HIDE DEF was, p
  <1>5. q \in Req /\ q.pc = "mark" /\ q.inst = i /\ q.user = u /\ q.art = a /\ q.since = now
    BY <1>3, <1>4, ZenonT(60) DEF Req
  <1> HIDE DEF q
  <1>6. LocalsOK(q) /\ Marked(q) /\ Reads(q) /\ Timely(q)
    BY <1>1, <1>5, JustNow DEF LocalsOK, Marked, Reads, Reading
  <1> QED
    BY <1>1, <1>2, <1>5, <1>6, MoveInv

\* Any other change of the user begins.
LEMMA BeginInv ==
  ASSUME Inv, NEW r \in env.requests, NEW i \in env.instances, NEW u \in env.users,
         NEW k \in {"markAll", "subscribe", "unsubscribe"}, NEW f \in Feeds \cup {None},
         k # "markAll" => f # None, Begin(r, k, i, u, f)
  PROVE  Inv'
PROOF
  <1> DEFINE p == Request(k, i, u)
             q == [p EXCEPT !.feed = f]
  <1>1. TypeOK /\ r \in Requests /\ i \in Instances /\ u \in Users /\ k \in PCs
    BY EnvType DEF Inv, PCs
  <1>2. UNCHANGED <<env, now, stored, recent, subs, read, cache, disturbed>> /\ rq' = [rq EXCEPT ![r] = q]
    BY DEF Begin, db
  <1>3. p \in Req /\ p.pc = k /\ p.inst = i /\ p.user = u /\ p.since = now
    BY <1>1, RequestType
  <1> HIDE DEF p
  <1>4. q \in Req /\ q.pc = k /\ q.inst = i /\ q.user = u /\ q.feed = f /\ q.since = now
    BY <1>3 DEF Req
  <1> HIDE DEF q
  <1>5. LocalsOK(q) /\ Marked(q) /\ Reads(q) /\ Timely(q)
    BY <1>1, <1>4, JustNow DEF LocalsOK, Marked, Reads, Reading
  <1> QED
    BY <1>1, <1>2, <1>4, <1>5, MoveInv

\* Any request begins.
LEMMA ArriveInv ==
  ASSUME Inv, NEW r \in env.requests, NEW i \in env.instances, NEW u \in env.users,
         Arrive(r, i, u)
  PROVE  Inv'
  BY BeginCountsInv, BeginMarkInv, BeginInv DEF Arrive

-----------------------------------------------------------------------------
(* Reading the counts.                                                       *)

\* What the invariant says of a request in flight.
LEMMA InFlight ==
  ASSUME Inv, NEW r \in Requests, rq[r].pc # "idle"
  PROVE  /\ TypeOK /\ rq[r] \in Req /\ LocalsOK(rq[r])
         /\ rq[r].inst \in Instances /\ rq[r].user \in Users
         /\ Timely(rq[r]) /\ Marked(rq[r]) /\ Reads(rq[r])
PROOF
  <1>1. /\ TypeOK /\ rq[r] \in Req /\ LocalsOK(rq[r])
        /\ Timely(rq[r]) /\ Marked(rq[r]) /\ Reads(rq[r])
    BY DEF Inv, TypeOK, Requesting
  <1> QED
    BY <1>1, ReqFields DEF LocalsOK

\* The cache is asked, and an entry that has not expired is served.
LEMMA GetInv ==
  ASSUME Inv, NEW r \in Requests, Get(r)
  PROVE  Inv'
PROOF
  <1> DEFINE w == rq[r]
             q == [w EXCEPT !.pc = "feeds"]
  <1>1. w.pc = "get" /\ UNCHANGED <<env, now, stored, recent, subs, read, cache, disturbed>>
    BY DEF Get, db
  <1>2. /\ w \in Req /\ LocalsOK(w) /\ Timely(w) /\ Reads(w)
    BY <1>1, InFlight
  <1>3. /\ q \in Req /\ q.pc = "feeds" /\ q.inst = w.inst /\ q.user = w.user /\ q.since = w.since
        /\ q.valid = w.valid /\ q.unread = w.unread
    BY <1>2 DEF Req, PCs
  <1>4. End(r) \/ rq' = [rq EXCEPT ![r] = q]
    BY DEF Get, Goto
  <1> HIDE DEF q
  <1>5. LocalsOK(q) /\ Timely(q) /\ Marked(q) /\ Reads(q)
    BY <1>1, <1>2, <1>3 DEF LocalsOK, Timely, Marked, Reads, Reading, Exact
  <1> QED
    BY <1>1, <1>3, <1>4, <1>5, EndInv, MoveInv

\* The user's feeds are read.
LEMMA ReadFeedsInv ==
  ASSUME Inv, NEW r \in Requests, ReadFeeds(r)
  PROVE  Inv'
PROOF
  <1> DEFINE w == rq[r]
             W == IF env.datastore THEN recent ELSE {}
             q == [w EXCEPT !.pc = "count", !.todo = subs[w.user], !.window = W]
  <1>1. w.pc = "feeds" /\ UNCHANGED <<env, now, stored, recent, subs, read, cache, disturbed>>
    BY DEF ReadFeeds, db
  <1>2. /\ w \in Req /\ LocalsOK(w) /\ Timely(w) /\ Reads(w) /\ w.user \in Users /\ TypeOK
    BY <1>1, InFlight
  <1>3. /\ subs[w.user] \in SUBSET Feeds /\ W \in SUBSET Articles
        /\ env.datastore => W = recent
    BY <1>2 DEF TypeOK
  <1>4. End(r) \/ rq' = [rq EXCEPT ![r] = q]
    BY DEF ReadFeeds
  <1> HIDE DEF W
  <1>5. /\ q \in Req /\ q.pc = "count" /\ q.inst = w.inst /\ q.user = w.user /\ q.since = w.since
        /\ q.valid = w.valid /\ q.unread = w.unread /\ q.todo = subs[w.user]
        /\ q.window = W
    BY <1>2, <1>3 DEF Req, PCs
  <1> HIDE DEF q
  <1>6. Reads(q)
    <2> SUFFICES ASSUME w.since > disturbed[w.user]
                 PROVE  Exact(q)
      BY <1>5 DEF Reads
    <2>1. w.valid = subs[w.user] /\ w.unread = {}
      BY <1>1, <1>2 DEF Reads, Reading, Exact
    <2>2. /\ InFeeds(stored \cap recent, subs[w.user] \ subs[w.user]) = {}
          /\ InFeeds((stored \cap recent) \ read[w.user], subs[w.user] \ subs[w.user]) = {}
      BY DEF InFeeds
    <2> QED
      BY <1>3, <1>5, <2>1, <2>2 DEF Exact
  <1>7. LocalsOK(q) /\ Timely(q) /\ Marked(q)
    BY <1>1, <1>2, <1>5 DEF LocalsOK, Timely, Marked
  <1> QED
    BY <1>1, <1>4, <1>5, <1>6, <1>7, EndInv, MoveInv

\* The unread articles of one feed are read.
LEMMA CountFeedInv ==
  ASSUME Inv, NEW r \in Requests, CountFeed(r)
  PROVE  Inv'
PROOF
  <1> DEFINE w      == rq[r]
             u      == w.user
             young  == stored \cap recent
             fresh  == young \ read[u]
  <1>1. w.pc = "count" /\ UNCHANGED <<env, now, stored, recent, subs, read, cache, disturbed>>
    BY DEF CountFeed, db
  <1>2. /\ w \in Req /\ LocalsOK(w) /\ Timely(w) /\ Reads(w) /\ u \in Users /\ TypeOK
    BY <1>1, InFlight
  <1>3. w.since > disturbed[u] =>
           /\ w.valid = subs[u] /\ w.todo \subseteq subs[u]
           /\ env.datastore => /\ w.unread = InFeeds(young, subs[u] \ w.todo)
                               /\ InFeeds(w.window, subs[u]) = InFeeds(recent, subs[u])
           /\ ~env.datastore => w.unread = InFeeds(fresh, subs[u] \ w.todo)
    BY <1>1, <1>2 DEF Reads, Reading, Exact
  <1>4. ASSUME w.todo = {}, Goto(r, IF env.datastore /\ w.unread # {} THEN "status" ELSE "set")
        PROVE  Inv'
    <2> DEFINE pc == IF env.datastore /\ w.unread # {} THEN "status" ELSE "set"
               q  == [w EXCEPT !.pc = pc]
    <2>1. pc \in PCs /\ (pc = "status" \/ pc = "set")
      BY DEF PCs
    <2>2. pc = "status" => env.datastore
      OBVIOUS
    <2>3. pc = "set" => ~env.datastore \/ w.unread = {}
      OBVIOUS
    <2>4. rq' = [rq EXCEPT ![r] = q]
      BY <1>4 DEF Goto
    <2> HIDE DEF pc
    <2>5. /\ q \in Req /\ q.pc = pc /\ q.inst = w.inst /\ q.user = u /\ q.since = w.since
          /\ q.valid = w.valid /\ q.unread = w.unread
      BY <1>2, <2>1 DEF Req
    <2> HIDE DEF q
    <2>6. Reads(q)
      <3> SUFFICES ASSUME w.since > disturbed[u]
                   PROVE  Exact(q)
        BY <2>5 DEF Reads
      <3>1. subs[u] \ w.todo = subs[u]
        BY <1>4
      <3>2. InFeeds(fresh, subs[u]) = InFeeds(young, subs[u]) \ read[u]
        BY DEF InFeeds
      <3> HIDE DEF young
      <3>3. CASE pc = "status"
        BY <1>3, <2>2, <2>5, <3>1, <3>3 DEF Exact, young
      <3>4. CASE pc = "set" /\ ~env.datastore
        BY <1>3, <2>5, <3>1, <3>4 DEF Exact, young
      <3>5. CASE pc = "set" /\ env.datastore
        <4>1. InFeeds(young, subs[u]) = {} /\ w.unread = {}
          BY <1>3, <2>3, <3>1, <3>5
        <4>2. InFeeds(fresh, subs[u]) = {}
          BY <3>2, <4>1
        <4> QED
          BY <1>3, <2>5, <3>5, <4>1, <4>2 DEF Exact, young
      <3> QED
        BY <2>1, <3>3, <3>4, <3>5
    <2>7. LocalsOK(q) /\ Timely(q) /\ Marked(q)
      BY <1>1, <1>2, <2>1, <2>5 DEF LocalsOK, Timely, Marked
    <2> QED
      BY <1>1, <2>4, <2>5, <2>6, <2>7, MoveInv
  <1>5. ASSUME NEW f \in w.todo,
               rq' = [rq EXCEPT ![r].todo = @ \ {f},
                        ![r].unread = @ \cup InFeeds(IF env.datastore THEN stored \cap w.window
                                                      ELSE fresh, {f})]
        PROVE  Inv'
    <2> DEFINE more == InFeeds(IF env.datastore THEN stored \cap w.window ELSE fresh, {f})
               q    == [w EXCEPT !.todo = @ \ {f}, !.unread = @ \cup more]
    <2>1. more \subseteq Articles
      BY <1>2 DEF InFeeds, TypeOK
    <2>2. /\ env.datastore => more = InFeeds(stored \cap w.window, {f})
          /\ ~env.datastore => more = InFeeds(fresh, {f})
      OBVIOUS
    <2>3. rq' = [rq EXCEPT ![r] = q]
      BY <1>5
    <2> HIDE DEF more
    <2>4. /\ q \in Req /\ q.pc = w.pc /\ q.inst = w.inst /\ q.user = u /\ q.since = w.since
          /\ q.valid = w.valid /\ q.unread = w.unread \cup more /\ q.todo = w.todo \ {f}
          /\ q.window = w.window
      BY <1>2, <2>1 DEF Req
    <2> HIDE DEF q
    <2>5. Reads(q)
      <3> SUFFICES ASSUME w.since > disturbed[u]
                   PROVE  Exact(q)
        BY <2>4 DEF Reads
      <3>1. f \in subs[u] /\ w.todo \ {f} \subseteq subs[u]
        BY <1>3
      <3>2. env.datastore => more = InFeeds(young, {f})
        <4>1. env.datastore => \A a \in InFeeds(w.window, {f}) \cup InFeeds(recent, {f}) :
                                  a \in w.window <=> a \in recent
          BY <1>3, <3>1, SMTT(30) DEF InFeeds
        <4> QED
          BY <2>2, <4>1 DEF InFeeds
      <3> HIDE DEF young, fresh
      <3>3. /\ InFeeds(young, subs[u] \ w.todo) \cup InFeeds(young, {f})
                 = InFeeds(young, subs[u] \ (w.todo \ {f}))
            /\ InFeeds(fresh, subs[u] \ w.todo) \cup InFeeds(fresh, {f})
                 = InFeeds(fresh, subs[u] \ (w.todo \ {f}))
        BY <1>5, <3>1 DEF InFeeds
      <3>4. /\ env.datastore => q.unread = InFeeds(young, subs[u] \ (w.todo \ {f}))
            /\ ~env.datastore => q.unread = InFeeds(fresh, subs[u] \ (w.todo \ {f}))
        BY <1>3, <2>2, <2>4, <3>2, <3>3
      <3> QED
        BY <1>1, <1>3, <2>4, <3>1, <3>4 DEF Exact, young, fresh
    <2>6. LocalsOK(q) /\ Timely(q) /\ Marked(q)
      BY <1>1, <1>2, <2>4 DEF LocalsOK, Timely, Marked
    <2> QED
      BY <1>1, <2>3, <2>4, <2>5, <2>6, MoveInv
  <1>6. CASE End(r)
    BY <1>1, <1>6, EndInv
  <1> QED
    BY <1>4, <1>5, <1>6 DEF CountFeed

\* Datastore reads the statuses of the articles it found.
LEMMA ReadStatusesInv ==
  ASSUME Inv, NEW r \in Requests, ReadStatuses(r)
  PROVE  Inv'
PROOF
  <1> DEFINE w == rq[r]
             u == w.user
             q == [w EXCEPT !.pc = "set", !.unread = @ \ read[u]]
             z == [w EXCEPT !.pc = "set"]
  <1>1. w.pc = "status" /\ UNCHANGED <<env, now, stored, recent, subs, read, cache>>
    BY DEF ReadStatuses
  <1>2. /\ w \in Req /\ LocalsOK(w) /\ Timely(w) /\ Reads(w) /\ u \in Users /\ TypeOK
    BY <1>1, InFlight
  <1>3. /\ q \in Req /\ q.pc = "set" /\ q.inst = w.inst /\ q.user = u /\ q.since = w.since
        /\ q.valid = w.valid /\ q.unread = w.unread \ read[u]
    BY <1>2 DEF Req, PCs
  <1>4. z \in Req /\ z.pc = "set" /\ z.inst = w.inst /\ z.user = u /\ z.since = w.since
    BY <1>2 DEF Req, PCs
  <1>5. \/ rq' = [rq EXCEPT ![r] = q] /\ UNCHANGED disturbed
        \/ rq' = [rq EXCEPT ![r] = z] /\ Disturb({u})
    BY DEF ReadStatuses, Goto
  <1> HIDE DEF q, z
  <1>6. Reads(q)
    <2> SUFFICES ASSUME w.since > disturbed[u]
                 PROVE  Exact(q)
      BY <1>3 DEF Reads
    <2>1. w.valid = subs[u] /\ w.unread = InFeeds(stored \cap recent, subs[u])
      BY <1>1, <1>2 DEF Reads, Reading, Exact
    <2>2. InFeeds(stored \cap recent, subs[u]) \ read[u]
            = InFeeds((stored \cap recent) \ read[u], subs[u])
      BY DEF InFeeds
    <2> QED
      BY <1>3, <2>1, <2>2 DEF Exact
  <1>7. LocalsOK(q) /\ Timely(q) /\ Marked(q) /\ LocalsOK(z)
    BY <1>1, <1>2, <1>3, <1>4 DEF LocalsOK, Timely, Marked
  <1>8. CASE rq' = [rq EXCEPT ![r] = q] /\ UNCHANGED disturbed
    BY <1>1, <1>3, <1>6, <1>7, <1>8, MoveInv
  <1>9. CASE rq' = [rq EXCEPT ![r] = z] /\ Disturb({u})
    <2>1. /\ subs' \in [Users -> SUBSET Feeds] /\ read' \in [Users -> SUBSET Articles]
      BY <1>1, <1>2 DEF TypeOK
    <2> QED
      BY <1>1, <1>4, <1>7, <1>9, <2>1, DisturbInv
  <1> QED
    BY <1>5, <1>8, <1>9

-----------------------------------------------------------------------------
(* Writing the cache.                                                        *)

\* What is cached at the end of a read is the truth if the read began after the user was
\* last disturbed.
LEMMA SetEntry ==
  ASSUME Inv, NEW r \in Requests, rq[r].pc = "set", NEW e,
         e = [count |-> CountOf(InFeeds(rq[r].unread, rq[r].valid)), until |-> now + TTL]
  PROVE  e \in Entry /\ EntryOK(e, rq[r].user)
PROOF
  <1> DEFINE w == rq[r]
             u == w.user
  <1>1. /\ w \in Req /\ Timely(w) /\ Reads(w) /\ u \in Users /\ TypeOK
    BY InFlight
  <1>2. now \in Nat /\ env.latency \in Nat /\ disturbed[u] \in Nat /\ w.since \in Nat
    BY <1>1, EnvType, ReqFields DEF TypeOK
  <1>3. e \in Entry /\ e.until = now + TTL /\ e.count = CountOf(InFeeds(w.unread, w.valid))
    <2>1. InFeeds(w.unread, w.valid) \in SUBSET Articles
      BY <1>1, ReqFields DEF InFeeds
    <2>2. CountOf(InFeeds(w.unread, w.valid)) \in Counts
      BY <2>1, CountType
    <2> QED
      BY <1>2, <2>2 DEF Entry
  <1>4. ASSUME e.until > disturbed[u] + env.latency + TTL
        PROVE  e.count = Truth(u)
    <2>1. w.since > disturbed[u]
      BY <1>1, <1>2, <1>3, <1>4 DEF Timely
    <2>2. w.valid = subs[u] /\ w.unread = InFeeds((stored \cap recent) \ read[u], subs[u])
      BY <1>1, <2>1 DEF Reads, Reading, Exact
    <2>3. InFeeds(w.unread, w.valid) = InFeeds((stored \cap recent) \ read[u], subs[u])
      BY <2>2 DEF InFeeds
    <2> QED
      BY <1>3, <2>3 DEF Truth
  <1> QED
    BY <1>2, <1>3, <1>4 DEF EntryOK

\* Evict makes room for one user.
LEMMA EvictBound ==
  ASSUME Inv, NEW i \in Instances, NEW u \in Users, NEW out \in Evict(i, u), NEW C,
         \A v \in Users : C[v] # None => v = u \/ (v \notin out /\ cache[i][v] # None)
  PROVE  env.maxUsers > 0 => Cardinality({v \in Users : C[v] # None}) <= env.maxUsers
PROOF
  <1> DEFINE A == {v \in Users : C[v] # None}
             B == {v \in Users : cache[i][v] # None}
  <1>1. IsFiniteSet(B) /\ env.maxUsers \in Nat /\ Cardinality(B) \in Nat
    <2>1. IsFiniteSet(B)
      BY FS_Subset
    <2> QED
      BY <2>1, FS_CardinalityType, EnvType DEF Inv
  <1>2. env.maxUsers > 0 => Cardinality(B) <= env.maxUsers
    BY DEF Inv, CacheBounded
  <1>3. A \subseteq (B \ out) \cup {u}
    OBVIOUS
  <1>4. \/ out = {} /\ (env.maxUsers = 0 \/ u \in B \/ Cardinality(B) < env.maxUsers)
        \/ u \notin B /\ \E x \in B : out = {x}
    BY DEF Evict
  <1> HIDE DEF A, B
  <1>5. CASE env.maxUsers = 0
    BY <1>5
  <1>6. CASE out = {} /\ u \in B
    <2>1. A \subseteq B
      BY <1>3, <1>6
    <2>2. Cardinality(A) <= Cardinality(B) /\ Cardinality(A) \in Nat
      BY <1>1, <2>1, FS_Subset, FS_CardinalityType
    <2> QED
      BY <1>1, <1>2, <2>2 DEF A
  <1>7. CASE out = {} /\ u \notin B /\ Cardinality(B) < env.maxUsers
    <2>1. A \subseteq B \cup {u}
      BY <1>3, <1>7
    <2>2. IsFiniteSet(B \cup {u}) /\ Cardinality(B \cup {u}) = Cardinality(B) + 1
      BY <1>1, <1>7, FS_AddElement
    <2>3. Cardinality(A) <= Cardinality(B) + 1 /\ Cardinality(A) \in Nat
      BY <2>1, <2>2, FS_Subset, FS_CardinalityType
    <2> QED
      BY <1>1, <1>7, <2>3 DEF A
  <1>8. ASSUME u \notin B, NEW x \in B, out = {x}
        PROVE  env.maxUsers > 0 => Cardinality(A) <= env.maxUsers
    <2>1. A \subseteq (B \ {x}) \cup {u} /\ u \notin B \ {x}
      BY <1>3, <1>8
    <2>2. IsFiniteSet(B \ {x}) /\ Cardinality(B \ {x}) = Cardinality(B) - 1
      BY <1>1, FS_RemoveElement
    <2>3. /\ IsFiniteSet((B \ {x}) \cup {u})
          /\ Cardinality((B \ {x}) \cup {u}) = Cardinality(B \ {x}) + 1
      BY <2>1, <2>2, FS_AddElement
    <2>4. Cardinality((B \ {x}) \cup {u}) = Cardinality(B)
      BY <1>1, <2>2, <2>3
    <2>5. Cardinality(A) <= Cardinality(B) /\ Cardinality(A) \in Nat
      BY <2>1, <2>3, <2>4, FS_Subset, FS_CardinalityType
    <2> QED
      BY <1>1, <1>2, <2>5
  <1>9. env.maxUsers > 0 => Cardinality(A) <= env.maxUsers
    BY <1>4, <1>5, <1>6, <1>7, <1>8 DEF A
  <1> QED
    BY <1>9 DEF A

\* What was counted goes into the cache, and others may have to leave it.
LEMMA SetCacheInv ==
  ASSUME Inv, NEW r \in Requests, SetCache(r)
  PROVE  Inv'
PROOF
  <1> DEFINE w == rq[r]
             i == w.inst
             u == w.user
             e == [count |-> CountOf(InFeeds(w.unread, w.valid)), until |-> now + TTL]
  <1>1. w.pc = "set" /\ End(r) /\ UNCHANGED <<env, now, stored, recent, subs, read, disturbed>>
    BY DEF SetCache, db
  <1>2. i \in Instances /\ u \in Users /\ TypeOK
    BY <1>1, InFlight
  <1>3. e \in Entry /\ EntryOK(e, u)
    BY <1>1, SetEntry
  <1>4. PICK out \in Evict(i, u) :
           cache' = [cache EXCEPT ![i] = [v \in Users |-> CASE v = u     -> e
                                                            [] v \in out -> None
                                                            [] OTHER     -> cache[i][v]]]
    BY DEF SetCache
  <1> HIDE DEF e
  <1> DEFINE C == [v \in Users |-> CASE v = u     -> e
                                     [] v \in out -> None
                                     [] OTHER     -> cache[i][v]]
  <1>5. u \notin out
    BY <1>4 DEF Evict
  <1>6. \A v \in Users : C[v] = IF v = u THEN e ELSE IF v \in out THEN None ELSE cache[i][v]
    BY <1>5
  <1>7. C \in [Users -> Entry \cup {None}]
    <2>1. \A v \in Users : C[v] \in Entry \cup {None}
      BY <1>2, <1>3, <1>6 DEF TypeOK
    <2>2. C = [v \in Users |-> C[v]]
      OBVIOUS
    <2> HIDE DEF C
    <2> QED
      BY <2>1, <2>2
  <1>8. cache' = [cache EXCEPT ![i] = C]
    BY <1>4
  <1> HIDE DEF C
  <1>9. \A v \in Users : C[v] # None => EntryOK(C[v], v)
    BY <1>2, <1>3, <1>6 DEF Inv, Entries
  <1>10. env.maxUsers > 0 => Cardinality({v \in Users : C[v] # None}) <= env.maxUsers
    BY <1>2, <1>4, <1>6, EvictBound
  <1> QED
    BY <1>1, <1>2, <1>7, <1>8, <1>9, <1>10, CacheInv

\* An entry is replaced by another one, or taken away.
LEMMA PutInv ==
  ASSUME Inv, NEW r \in Requests, rq[r].pc # "idle", End(r), NEW e \in Entry \cup {None},
         UNCHANGED <<env, now, stored, recent, subs, read, disturbed>>, Put(r, rq[r].user, e),
         e # None => cache[rq[r].inst][rq[r].user] # None /\ EntryOK(e, rq[r].user)
  PROVE  Inv'
PROOF
  <1> DEFINE i == rq[r].inst
             u == rq[r].user
             C == [cache[i] EXCEPT ![u] = e]
  <1>1. i \in Instances /\ u \in Users /\ TypeOK
    BY InFlight
  <1>2. /\ C \in [Users -> Entry \cup {None}] /\ cache' = [cache EXCEPT ![i] = C]
        /\ \A v \in Users : C[v] = IF v = u THEN e ELSE cache[i][v]
    BY <1>1 DEF TypeOK, Put
  <1> HIDE DEF C
  <1>3. \A v \in Users : C[v] # None => EntryOK(C[v], v) /\ cache[i][v] # None
    BY <1>1, <1>2 DEF Inv, Entries
  <1>4. env.maxUsers > 0 => Cardinality({v \in Users : C[v] # None}) <= env.maxUsers
    BY <1>1, <1>3, FewerUsers
  <1> QED
    BY <1>1, <1>2, <1>3, <1>4, CacheInv

\* A count that is raised or lowered by one stays a natural number (UpdateCount stops at 0).
LEMMA Clamped ==
  ASSUME NEW k \in Nat, NEW b
  PROVE  (IF b THEN k + 1 ELSE IF k = 0 THEN 0 ELSE k - 1) \in Nat
  OBVIOUS

\* A count is updated within env.latency of the mark that disturbed the user: the entry is
\* not one of those that must be exact.
LEMMA UpdateCountInv ==
  ASSUME Inv, NEW r \in Requests, UpdateCount(r)
  PROVE  Inv'
PROOF
  <1> DEFINE w == rq[r]
             u == w.user
             e == cache[w.inst][u]
  <1>1. w.pc = "update" /\ End(r) /\ UNCHANGED <<env, now, stored, recent, subs, read, disturbed>>
    BY DEF UpdateCount, db
  <1>2. /\ w \in Req /\ w.inst \in Instances /\ u \in Users /\ TypeOK /\ Timely(w) /\ Marked(w)
    BY <1>1, InFlight
  <1>3. now \in Nat /\ env.latency \in Nat /\ disturbed[u] \in Nat /\ w.since \in Nat
    BY <1>2, EnvType, ReqFields DEF TypeOK
  <1>4. ASSUME w.feed # None, Valid(e),
               Put(r, u, [e EXCEPT !.count[w.feed] =
                            IF w.was THEN @ + 1 ELSE IF @ = 0 THEN 0 ELSE @ - 1])
        PROVE  Inv'
    <2>1. e \in Entry /\ EntryOK(e, u) /\ w.feed \in Feeds /\ e # None
      <3>0. Valid(e) /\ w.feed # None
        BY <1>4, Zenon
      <3>1. e # None /\ e \in Entry \cup {None}
        <4>1. e \in Entry \cup {None}
          BY <1>2, CacheType
        <4> QED
          BY <3>0, <4>1 DEF Valid
      <3>2. EntryOK(e, u)
        BY <1>2, <3>1 DEF Inv, Entries
      <3>3. w.feed \in Feeds
        BY <1>2, <3>0, ReqFields
      <3> QED
        BY <3>1, <3>2, <3>3, SMTT(30)
    <2>2. e.count \in [Feeds -> Nat] /\ e.until \in Nat
      BY <2>1, ZenonT(60) DEF Entry, Counts
    <2> DEFINE n == IF w.was THEN e.count[w.feed] + 1
                    ELSE IF e.count[w.feed] = 0 THEN 0 ELSE e.count[w.feed] - 1
               c == [e.count EXCEPT ![w.feed] = n]
               x == [e EXCEPT !.count = c]
    <2>3. n \in Nat
      <3>1. e.count[w.feed] \in Nat
        BY <2>1, <2>2, SMTT(30)
      <3> QED
        BY <3>1, Clamped, Zenon
    <2>4. Put(r, u, x)
      BY <1>4, <2>1, <2>2, Zenon DEF Entry, Counts
    <2> HIDE DEF n
    <2>5. c \in Counts
      BY <2>2, <2>3 DEF Counts
    <2> HIDE DEF c
    <2>6. x \in Entry /\ x.until = e.until
      BY <2>1, <2>5 DEF Entry
    <2> HIDE DEF x
    <2>7. ~(x.until > disturbed[u] + env.latency + TTL)
      BY <1>1, <1>2, <1>3, <2>1, <2>2, <2>6 DEF Timely, Marked, EntryOK
    <2>8. EntryOK(x, u)
      BY <2>1, <2>6, <2>7 DEF EntryOK
    <2> QED
      BY <1>1, <2>1, <2>4, <2>6, <2>8, PutInv
  <1>5. CASE UNCHANGED cache
    BY <1>1, <1>5, EndInv
  <1>6. CASE Put(r, u, None)
    BY <1>1, <1>6, PutInv
  <1> QED
    BY <1>4, <1>5, <1>6, ZenonT(60) DEF UpdateCount

\* The user's entry is dropped.
LEMMA InvalidateInv ==
  ASSUME Inv, NEW r \in Requests, Invalidate(r)
  PROVE  Inv'
  BY PutInv DEF Invalidate, db

-----------------------------------------------------------------------------
(* The operations that change the database.                                  *)

\* The step of a request to pc after it has changed what its user sees.
LEMMA ChangedInv ==
  ASSUME Inv, NEW r \in Requests, rq[r].pc # "idle", NEW pc \in {"update", "reset", "invalidate"},
         LocalsOK([rq[r] EXCEPT !.pc = pc]),
         Goto(r, pc) \/ End(r),
         UNCHANGED <<env, now, stored, recent, cache>>, Disturb({rq[r].user}),
         subs' \in [Users -> SUBSET Feeds], read' \in [Users -> SUBSET Articles],
         \A v \in Users : v # rq[r].user => subs'[v] = subs[v] /\ read'[v] = read[v]
  PROVE  Inv'
PROOF
  <1> DEFINE q == [rq[r] EXCEPT !.pc = pc]
  <1>1. rq[r] \in Req
    BY InFlight
  <1>2. q \in Req /\ q.user = rq[r].user /\ q.since = rq[r].since
    BY <1>1 DEF Req, PCs
  <1>3. LocalsOK(q)
    OBVIOUS
  <1>4. Goto(r, pc) => rq' = [rq EXCEPT ![r] = q]
    BY DEF Goto
  <1> HIDE DEF q
  <1>5. CASE Goto(r, pc)
    BY <1>2, <1>3, <1>4, <1>5, DisturbInv
  <1>6. CASE End(r)
    BY <1>6, IdleType, DisturbInv DEF End
  <1> QED
    BY <1>5, <1>6

\* The places a request goes to after a change, and what it still needs there.
LEMMA NextPlace ==
  ASSUME NEW w \in Req, LocalsOK(w)
  PROVE  /\ w.pc = "mark" => LocalsOK([w EXCEPT !.pc = "update"])
         /\ w.pc = "subscribe" => LocalsOK([w EXCEPT !.pc = "reset"])
         /\ w.pc # "idle" => LocalsOK([w EXCEPT !.pc = "invalidate"])
  BY DEF LocalsOK, Req

\* A mark is written.
LEMMA MarkReadInv ==
  ASSUME Inv, NEW r \in Requests, MarkRead(r)
  PROVE  Inv'
PROOF
  <1> DEFINE w == rq[r]
             u == w.user
             R == IF w.is THEN read[u] \cup {w.art} ELSE read[u] \ {w.art}
  <1>1. w.pc = "mark" /\ UNCHANGED <<env, now, cache, stored, recent, subs>>
    BY DEF MarkRead
  <1>2. w \in Req /\ LocalsOK(w) /\ u \in Users /\ TypeOK
    BY <1>1, InFlight
  <1>3. CASE End(r) /\ UNCHANGED <<read, disturbed>>
    BY <1>1, <1>3, EndInv
  <1>4. ASSUME read' = [read EXCEPT ![u] = R], Disturb({u}), Goto(r, "update") \/ End(r)
        PROVE  Inv'
    <2>1. w.art \in Articles
      BY <1>1, <1>2, ReqFields DEF LocalsOK
    <2>2. R \in SUBSET Articles
      BY <1>2, <2>1 DEF TypeOK
    <2> HIDE DEF R
    <2>3. /\ read' \in [Users -> SUBSET Articles] /\ subs' \in [Users -> SUBSET Feeds]
          /\ \A v \in Users : v # u => subs'[v] = subs[v] /\ read'[v] = read[v]
      BY <1>1, <1>2, <1>4, <2>2 DEF TypeOK
    <2>4. LocalsOK([w EXCEPT !.pc = "update"])
      BY <1>1, <1>2, NextPlace
    <2> QED
      BY <1>1, <1>4, <2>3, <2>4, ChangedInv
  <1> QED
    BY <1>3, <1>4 DEF MarkRead

\* All articles are marked.
LEMMA MarkAllInv ==
  ASSUME Inv, NEW r \in Requests, MarkAll(r)
  PROVE  Inv'
PROOF
  <1> DEFINE w == rq[r]
             u == w.user
             R == read[u] \cup InFeeds(stored, subs[u])
  <1>1. w.pc = "markAll" /\ UNCHANGED <<env, now, cache, stored, recent, subs>>
    BY DEF MarkAll
  <1>2. w \in Req /\ LocalsOK(w) /\ u \in Users /\ TypeOK
    BY <1>1, InFlight
  <1>3. CASE End(r) /\ UNCHANGED <<read, disturbed>>
    BY <1>1, <1>3, EndInv
  <1>4. ASSUME read' = [read EXCEPT ![u] = R], Disturb({u}), Goto(r, "invalidate") \/ End(r)
        PROVE  Inv'
    <2>1. R \in SUBSET Articles
      BY <1>2 DEF TypeOK, InFeeds
    <2> HIDE DEF R
    <2>2. /\ read' \in [Users -> SUBSET Articles] /\ subs' \in [Users -> SUBSET Feeds]
          /\ \A v \in Users : v # u => subs'[v] = subs[v] /\ read'[v] = read[v]
      BY <1>1, <1>2, <1>4, <2>1 DEF TypeOK
    <2>3. LocalsOK([w EXCEPT !.pc = "invalidate"])
      BY <1>1, <1>2, NextPlace
    <2> QED
      BY <1>1, <1>4, <2>2, <2>3, ChangedInv
  <1> QED
    BY <1>3, <1>4 DEF MarkAll

\* Subscribe and Unsubscribe.
LEMMA SubsInv ==
  ASSUME Inv, NEW r \in Requests, rq[r].pc \in {"subscribe", "unsubscribe"},
         NEW F \in SUBSET Feeds, subs' = [subs EXCEPT ![rq[r].user] = F],
         NEW pc \in {"reset", "invalidate"}, rq[r].pc = "unsubscribe" => pc = "invalidate",
         Disturb({rq[r].user}), Goto(r, pc) \/ End(r), UNCHANGED <<env, now, cache, stored, recent, read>>
  PROVE  Inv'
PROOF
  <1>1. rq[r] \in Req /\ LocalsOK(rq[r]) /\ rq[r].user \in Users /\ TypeOK
    BY InFlight
  <1>2. /\ read' \in [Users -> SUBSET Articles] /\ subs' \in [Users -> SUBSET Feeds]
        /\ \A v \in Users : v # rq[r].user => subs'[v] = subs[v] /\ read'[v] = read[v]
    BY <1>1 DEF TypeOK
  <1>3. LocalsOK([rq[r] EXCEPT !.pc = pc])
    BY <1>1, NextPlace
  <1>4. /\ pc \in {"update", "reset", "invalidate"} /\ rq[r].pc # "idle"
        /\ UNCHANGED <<env, now, stored, recent, cache>>
    OBVIOUS
  <1>5. CASE pc = "reset"
    <2>1. LocalsOK([rq[r] EXCEPT !.pc = "reset"]) /\ (Goto(r, "reset") \/ End(r))
      BY <1>3, <1>5
    <2> QED
      BY <1>2, <1>4, <2>1, ChangedInv
  <1>6. CASE pc = "invalidate"
    <2>1. LocalsOK([rq[r] EXCEPT !.pc = "invalidate"]) /\ (Goto(r, "invalidate") \/ End(r))
      BY <1>3, <1>6
    <2> QED
      BY <1>2, <1>4, <2>1, ChangedInv
  <1> QED
    BY <1>5, <1>6

\* A feed is added.
LEMMA SubscribeInv ==
  ASSUME Inv, NEW r \in Requests, Subscribe(r)
  PROVE  Inv'
PROOF
  <1>1. rq[r].pc = "subscribe" /\ UNCHANGED <<env, now, cache, stored, recent, read>>
    BY DEF Subscribe
  <1>2. subs[rq[r].user] \cup {rq[r].feed} \in SUBSET Feeds
    <2>1. rq[r] \in Req /\ LocalsOK(rq[r]) /\ rq[r].user \in Users /\ TypeOK
      BY <1>1, InFlight
    <2>2. rq[r].feed \in Feeds
      BY <1>1, <2>1, ReqFields DEF LocalsOK
    <2> QED
      BY <2>1, <2>2 DEF TypeOK
  <1>3. CASE End(r) /\ UNCHANGED <<subs, disturbed>>
    BY <1>1, <1>3, EndInv
  <1>4. ASSUME subs' = [subs EXCEPT ![rq[r].user] = @ \cup {rq[r].feed}], Disturb({rq[r].user}),
               Goto(r, "reset") \/ End(r)
        PROVE  Inv'
    <2>1. subs' = [subs EXCEPT ![rq[r].user] = subs[rq[r].user] \cup {rq[r].feed}]
      BY <1>4
    <2> QED
      BY <1>1, <1>2, <1>4, <2>1, SubsInv
  <1> QED
    BY <1>3, <1>4 DEF Subscribe

\* A feed is removed.
LEMMA UnsubscribeInv ==
  ASSUME Inv, NEW r \in Requests, Unsubscribe(r)
  PROVE  Inv'
PROOF
  <1>1. rq[r].pc = "unsubscribe" /\ UNCHANGED <<env, now, cache, stored, recent, read>>
    BY DEF Unsubscribe
  <1>2. subs[rq[r].user] \ {rq[r].feed} \in SUBSET Feeds
    BY <1>1, InFlight DEF TypeOK
  <1>3. CASE End(r) /\ UNCHANGED <<subs, disturbed>>
    BY <1>1, <1>3, EndInv
  <1>4. ASSUME subs' = [subs EXCEPT ![rq[r].user] = @ \ {rq[r].feed}], Disturb({rq[r].user}),
               Goto(r, "invalidate") \/ End(r)
        PROVE  Inv'
    <2>1. subs' = [subs EXCEPT ![rq[r].user] = subs[rq[r].user] \ {rq[r].feed}]
      BY <1>4
    <2> QED
      BY <1>1, <1>2, <1>4, <2>1, SubsInv
  <1> QED
    BY <1>3, <1>4 DEF Unsubscribe

\* The marks of a re-added feed are reset.
LEMMA ResetStatusesInv ==
  ASSUME Inv, NEW r \in Requests, ResetStatuses(r)
  PROVE  Inv'
PROOF
  <1> DEFINE u == rq[r].user
  <1>1. /\ rq[r].pc = "reset" /\ UNCHANGED <<env, now, cache, stored, recent, subs>>
        /\ Disturb({u}) /\ Goto(r, "invalidate")
    BY DEF ResetStatuses
  <1>2. rq[r] \in Req /\ LocalsOK(rq[r]) /\ u \in Users /\ TypeOK
    BY <1>1, InFlight
  <1>3. PICK S : read' = [read EXCEPT ![u] = @ \ S]
    BY DEF ResetStatuses
  <1>4. /\ read' \in [Users -> SUBSET Articles] /\ subs' \in [Users -> SUBSET Feeds]
        /\ \A v \in Users : v # u => subs'[v] = subs[v] /\ read'[v] = read[v]
    BY <1>1, <1>2, <1>3 DEF TypeOK
  <1>5. LocalsOK([rq[r] EXCEPT !.pc = "invalidate"])
    BY <1>1, <1>2, NextPlace
  <1> QED
    BY <1>1, <1>4, <1>5, ChangedInv

-----------------------------------------------------------------------------
(* Refreshes, sweeps, restarts and the clock.                                *)

\* Something that no request does changes the articles, or the marks, of some users.
LEMMA ElsewhereInv ==
  ASSUME Inv, NEW U \in SUBSET Users, Disturb(U), UNCHANGED <<env, now, subs, cache, rq>>,
         stored' \in SUBSET Articles, recent' \in SUBSET Articles,
         read' \in [Users -> SUBSET Articles],
         \A v \in Users \ U :
            /\ read'[v] = read[v]
            /\ InFeeds(stored', subs[v]) = InFeeds(stored, subs[v])
            /\ InFeeds(recent', subs[v]) = InFeeds(recent, subs[v])
  PROVE  Inv'
PROOF
  <1>1. TypeOK /\ UNCHANGED <<env, now, subs, cache, rq>>
    BY DEF Inv
  <1>2. now \in Nat /\ env.latency \in Nat
    BY <1>1, EnvType DEF TypeOK
  <1>3. /\ disturbed' \in [Users -> Nat]
        /\ \A v \in Users : disturbed'[v] = IF v \in U THEN now ELSE disturbed[v]
        /\ \A v \in Users : disturbed[v] \in Nat /\ disturbed[v] <= now
    BY <1>1, <1>2 DEF Disturb, TypeOK, Inv, Past
  <1>4. TypeOK'
    BY <1>1, <1>3 DEF TypeOK
  <1>5. Past'
    BY <1>1, <1>2, <1>3 DEF Past
  <1>6. ASSUME NEW v \in Users, v \notin U, NEW F \in SUBSET subs[v]
        PROVE  /\ InFeeds(stored' \cap recent', F) = InFeeds(stored \cap recent, F)
               /\ InFeeds((stored' \cap recent') \ read'[v], F)
                    = InFeeds((stored \cap recent) \ read[v], F)
    <2>1. /\ read'[v] = read[v] /\ InFeeds(stored', subs[v]) = InFeeds(stored, subs[v])
          /\ InFeeds(recent', subs[v]) = InFeeds(recent, subs[v])
      BY <1>6
    <2>2. ASSUME NEW a, FeedOf[a] \in F
          PROVE  (a \in stored' <=> a \in stored) /\ (a \in recent' <=> a \in recent)
      BY <1>6, <2>1, <2>2 DEF InFeeds
    <2> QED
      BY <2>1, <2>2 DEF InFeeds
  <1>7. Requesting'
    <2> SUFFICES ASSUME NEW x \in Requests
                 PROVE  (Timely(rq[x]) /\ Marked(rq[x]) /\ Reads(rq[x]))'
      BY DEF Requesting
    <2> DEFINE y == rq[x]
    <2>1. rq'[x] = y /\ y \in Req /\ LocalsOK(y) /\ Timely(y) /\ Marked(y) /\ Reads(y)
      BY <1>1 DEF TypeOK, Inv, Requesting
    <2>2. y.since \in Nat /\ y.user \in Users \cup {None} /\ y.pc \in PCs
      BY <2>1, ReqFields
    <2> HIDE DEF y
    <2>3. CASE y.pc = "idle"
      BY <1>1, <2>1, <2>3 DEF Timely, Marked, Reads, Reading
    <2>4. CASE y.pc # "idle" /\ y.user \in U
      <3>1. y.user \in Users
        BY <2>1, <2>2, <2>4 DEF LocalsOK
      <3>2. y.since <= now /\ disturbed'[y.user] = now
        BY <1>3, <2>1, <2>4, <3>1 DEF Timely
      <3>3. ~(y.since > disturbed'[y.user]) /\ y.since <= disturbed'[y.user]
        BY <1>2, <2>2, <3>2
      <3> QED
        BY <1>1, <2>1, <3>3 DEF Timely, Marked, Reads
    <2>5. CASE y.pc # "idle" /\ y.user \notin U
      <3>1. y.user \in Users
        BY <2>1, <2>2, <2>5 DEF LocalsOK
      <3>2. disturbed'[y.user] = disturbed[y.user]
        BY <1>3, <2>5, <3>1
      <3>3. Timely(rq[x])' /\ Marked(rq[x])'
        BY <1>1, <2>1, <3>2 DEF Timely, Marked
      <3>4. \A T : subs[y.user] \ T \in SUBSET subs[y.user]
        OBVIOUS
      <3>5. /\ InFeeds(stored' \cap recent', subs[y.user]) = InFeeds(stored \cap recent, subs[y.user])
            /\ InFeeds((stored' \cap recent') \ read'[y.user], subs[y.user])
                 = InFeeds((stored \cap recent) \ read[y.user], subs[y.user])
            /\ InFeeds(stored' \cap recent', subs[y.user] \ y.todo)
                 = InFeeds(stored \cap recent, subs[y.user] \ y.todo)
            /\ InFeeds((stored' \cap recent') \ read'[y.user], subs[y.user] \ y.todo)
                 = InFeeds((stored \cap recent) \ read[y.user], subs[y.user] \ y.todo)
        BY <1>6, <2>5, <3>1, <3>4
      <3>6. InFeeds(recent', subs[y.user]) = InFeeds(recent, subs[y.user])
        BY <2>5, <3>1
      <3>7. Reads(rq[x])'
        BY <1>1, <2>1, <3>2, <3>5, <3>6 DEF Reads, Exact
      <3> QED
        BY <3>3, <3>7
    <2> QED
      BY <2>3, <2>4, <2>5
  <1>8. Entries'
    <2> SUFFICES ASSUME NEW i \in Instances, NEW v \in Users, cache[i][v] # None
                 PROVE  EntryOK(cache[i][v], v)'
      BY <1>1 DEF Entries
    <2> DEFINE e == cache[i][v]
    <2>1. e \in Entry /\ EntryOK(e, v) /\ cache' = cache
      BY <1>1 DEF TypeOK, Inv, Entries
    <2>2. e.until \in Nat
      BY <2>1 DEF Entry
    <2> HIDE DEF e
    <2>3. CASE v \in U
      <3>1. e.until <= now + TTL /\ disturbed'[v] = now
        BY <1>3, <2>1, <2>3 DEF EntryOK
      <3>2. ~(e.until > disturbed'[v] + env.latency + TTL)
        BY <1>2, <2>2, <3>1
      <3> QED
        BY <1>1, <2>1, <3>1, <3>2 DEF EntryOK, e
    <2>4. CASE v \notin U
      <3>1. disturbed'[v] = disturbed[v]
        BY <1>3, <2>4
      <3>2. InFeeds((stored' \cap recent') \ read'[v], subs[v]) = InFeeds((stored \cap recent) \ read[v], subs[v])
        BY <1>6, <2>4
      <3> QED
        BY <1>1, <2>1, <3>1, <3>2 DEF EntryOK, e, Truth
    <2> QED
      BY <2>3, <2>4
  <1>9. CacheBounded'
    BY <1>1 DEF Inv, CacheBounded
  <1> QED
    BY <1>4, <1>5, <1>7, <1>8, <1>9 DEF Inv

\* A new article disturbs the users who have its feed and changes nothing for the others.
LEMMA AddArticleInv ==
  ASSUME Inv, NEW a \in Articles, AddArticle(a)
  PROVE  Inv'
PROOF
  <1> DEFINE U == {u \in Users : FeedOf[a] \in subs[u]}
  <1>1. /\ TypeOK /\ Disturb(U) /\ UNCHANGED <<env, now, recent, subs, read, cache, rq>>
        /\ stored' = stored \cup {a}
    BY DEF AddArticle, Inv
  <1>2. \A v \in Users \ U : InFeeds(stored', subs[v]) = InFeeds(stored, subs[v])
    BY <1>1 DEF InFeeds
  <1>3. U \in SUBSET Users
    OBVIOUS
  <1> HIDE DEF U
  <1>4. /\ stored' \in SUBSET Articles /\ recent' \in SUBSET Articles
        /\ read' \in [Users -> SUBSET Articles]
    BY <1>1 DEF TypeOK
  <1> QED
    BY <1>1, <1>2, <1>3, <1>4, ElsewhereInv

\* So does an article that has grown too old to be counted.
LEMMA GrowOldInv ==
  ASSUME Inv, NEW a \in Articles, GrowOld(a)
  PROVE  Inv'
PROOF
  <1> DEFINE U == {u \in Users : FeedOf[a] \in subs[u]}
  <1>1. /\ TypeOK /\ Disturb(U) /\ UNCHANGED <<env, now, stored, subs, read, cache, rq>>
        /\ recent' = recent \ {a}
    BY DEF GrowOld, Inv
  <1>2. \A v \in Users \ U : InFeeds(recent', subs[v]) = InFeeds(recent, subs[v])
    BY <1>1 DEF InFeeds
  <1>3. U \in SUBSET Users
    OBVIOUS
  <1> HIDE DEF U
  <1>4. /\ stored' \in SUBSET Articles /\ recent' \in SUBSET Articles
        /\ read' \in [Users -> SUBSET Articles]
    BY <1>1 DEF TypeOK
  <1> QED
    BY <1>1, <1>2, <1>3, <1>4, ElsewhereInv

\* A star that is put with an old is_read disturbs its user.
LEMMA PutStarInv ==
  ASSUME Inv, NEW u \in env.users, NEW a \in Articles, PutStar(u, a)
  PROVE  Inv'
PROOF
  <1>1. /\ TypeOK /\ u \in Users /\ Disturb({u})
        /\ UNCHANGED <<env, now, stored, recent, subs, cache, rq>>
    BY EnvType DEF PutStar, Inv
  <1>2. PICK S \in {read[u] \cup {a}, read[u] \ {a}} : read' = [read EXCEPT ![u] = S]
    BY DEF PutStar
  <1>3. /\ stored' \in SUBSET Articles /\ recent' \in SUBSET Articles
        /\ read' \in [Users -> SUBSET Articles] /\ \A v \in Users \ {u} : read'[v] = read[v]
    BY <1>1, <1>2 DEF TypeOK
  <1>4. {u} \in SUBSET Users
    BY <1>1
  <1> QED
    BY <1>1, <1>3, <1>4, ElsewhereInv

\* An instance drops entries and requests.
LEMMA DropInv ==
  ASSUME Inv, NEW i \in Instances, UNCHANGED <<env, now, stored, recent, subs, read, disturbed>>,
         NEW C \in [Users -> Entry \cup {None}], cache' = [cache EXCEPT ![i] = C],
         \A v \in Users : C[v] = cache[i][v] \/ C[v] = None,
         rq' \in [Requests -> Req], \A x \in Requests : rq'[x] = rq[x] \/ rq'[x] = Idle
  PROVE  Inv'
PROOF
  <1>1. TypeOK
    BY DEF Inv
  <1>2. /\ cache' \in [Instances -> [Users -> Entry \cup {None}]]
        /\ cache'[i] = C /\ \A j \in Instances : j # i => cache'[j] = cache[j]
    BY <1>1 DEF TypeOK
  <1>3. TypeOK'
    BY <1>1, <1>2, IdleType DEF TypeOK
  <1>4. Requesting'
    <2> SUFFICES ASSUME NEW x \in Requests
                 PROVE  (Timely(rq[x]) /\ Marked(rq[x]) /\ Reads(rq[x]))'
      BY DEF Requesting
    <2>1. CASE rq'[x] = Idle
      BY <2>1, IdleType DEF Timely, Marked, Reads, Reading
    <2>2. CASE rq'[x] = rq[x]
      <3>1. Timely(rq[x]) /\ Marked(rq[x]) /\ Reads(rq[x])
        BY DEF Inv, Requesting
      <3> QED
        BY <2>2, <3>1 DEF Timely, Marked, Reads, Exact
    <2> QED
      BY <2>1, <2>2
  <1>5. Entries'
    <2> SUFFICES ASSUME NEW j \in Instances, NEW v \in Users, cache'[j][v] # None
                 PROVE  EntryOK(cache[j][v], v)'
      BY DEF Entries
    <2>1. cache'[j][v] = cache[j][v] /\ EntryOK(cache[j][v], v)
      BY <1>2 DEF Inv, Entries
    <2> QED
      BY <2>1 DEF EntryOK, Truth
  <1>6. CacheBounded'
    <2> SUFFICES ASSUME env.maxUsers > 0, NEW j \in Instances
                 PROVE  Cardinality({v \in Users : cache'[j][v] # None}) <= env.maxUsers
      BY DEF CacheBounded
    <2>1. CASE j = i
      <3>1. Cardinality({v \in Users : C[v] # None}) <= env.maxUsers
        BY FewerUsers
      <3> QED
        BY <1>2, <2>1, <3>1
    <2>2. CASE j # i
      <3>1. cache'[j] = cache[j]
        BY <1>2, <2>2
      <3> QED
        BY <3>1 DEF Inv, CacheBounded
    <2> QED
      BY <2>1, <2>2
  <1>7. Past'
    BY DEF Inv, Past
  <1> QED
    BY <1>3, <1>4, <1>5, <1>6, <1>7 DEF Inv

\* Expired entries are swept.
LEMMA SweepInv ==
  ASSUME Inv, NEW i \in Instances, Sweep(i)
  PROVE  Inv'
PROOF
  <1> DEFINE C == [u \in Users |-> IF Valid(cache[i][u]) THEN cache[i][u] ELSE None]
  <1>1. TypeOK
    BY DEF Inv
  <1>2. C \in [Users -> Entry \cup {None}] /\ \A v \in Users : C[v] = cache[i][v] \/ C[v] = None
    BY <1>1 DEF TypeOK
  <1>3. /\ cache' = [cache EXCEPT ![i] = C]
        /\ UNCHANGED <<env, now, stored, recent, subs, read, disturbed, rq>>
    BY DEF Sweep, db
  <1> HIDE DEF C
  <1>4. rq' \in [Requests -> Req] /\ \A x \in Requests : rq'[x] = rq[x] \/ rq'[x] = Idle
    BY <1>1, <1>3 DEF TypeOK
  <1> QED
    BY <1>2, <1>3, <1>4, DropInv, ZenonT(60)

\* An instance starts again with an empty cache.
LEMMA RestartInv ==
  ASSUME Inv, NEW i \in Instances, Restart(i)
  PROVE  Inv'
PROOF
  <1> DEFINE C == [u \in Users |-> None]
  <1>1. TypeOK
    BY DEF Inv
  <1>2. C \in [Users -> Entry \cup {None}] /\ \A v \in Users : C[v] = cache[i][v] \/ C[v] = None
    OBVIOUS
  <1>3. /\ cache' = [cache EXCEPT ![i] = C]
        /\ UNCHANGED <<env, now, stored, recent, subs, read, disturbed>>
    BY DEF Restart, db
  <1> HIDE DEF C
  <1>4. rq' \in [Requests -> Req] /\ \A x \in Requests : rq'[x] = rq[x] \/ rq'[x] = Idle
    BY <1>1, IdleType DEF Restart, TypeOK
  <1> QED
    BY <1>2, <1>3, <1>4, DropInv, ZenonT(60)

\* Time passes, but no request outlives its time.
LEMMA TickInv ==
  ASSUME Inv, Tick
  PROVE  Inv'
PROOF
  <1>1. TypeOK /\ now' = now + 1 /\ UNCHANGED <<env, stored, recent, subs, read, cache, rq, disturbed>>
    BY DEF Tick, Inv
  <1>2. now \in Nat /\ env.latency \in Nat /\ \A u \in Users : disturbed[u] \in Nat
    BY <1>1, EnvType DEF TypeOK
  <1>3. TypeOK'
    BY <1>1, <1>2 DEF TypeOK
  <1>4. Past'
    BY <1>1, <1>2 DEF Inv, Past
  <1>5. Requesting'
    <2> SUFFICES ASSUME NEW x \in Requests
                 PROVE  (Timely(rq[x]) /\ Marked(rq[x]) /\ Reads(rq[x]))'
      BY DEF Requesting
    <2>1. Timely(rq[x]) /\ Marked(rq[x]) /\ Reads(rq[x]) /\ rq[x] \in Req
      BY <1>1 DEF Inv, Requesting, TypeOK
    <2>2. rq[x].since \in Nat
      BY <2>1, ReqFields
    <2>3. Timely(rq[x])'
      BY <1>1, <1>2, <2>1, <2>2 DEF Timely, Tick
    <2> QED
      BY <1>1, <2>1, <2>3 DEF Marked, Reads, Exact
  <1>6. Entries'
    <2> SUFFICES ASSUME NEW i \in Instances, NEW v \in Users, cache[i][v] # None
                 PROVE  EntryOK(cache[i][v], v)'
      BY <1>1 DEF Entries
    <2>1. cache[i][v] \in Entry /\ EntryOK(cache[i][v], v)
      BY <1>1 DEF TypeOK, Inv, Entries
    <2>2. cache[i][v].until \in Nat
      BY <2>1 DEF Entry
    <2> QED
      BY <1>1, <1>2, <2>1, <2>2 DEF EntryOK, Truth
  <1>7. CacheBounded'
    BY <1>1 DEF Inv, CacheBounded
  <1> QED
    BY <1>3, <1>4, <1>5, <1>6, <1>7 DEF Inv

-----------------------------------------------------------------------------
(* The theorems.                                                             *)

\* The invariant holds initially.
LEMMA InitInv ==
  ASSUME Init
  PROVE  Inv
PROOF
  <1>1. TypeOK
    BY IdleType DEF Init, TypeOK
  <1>2. \A r \in Requests : rq[r] = Idle
    BY DEF Init
  <1>3. Past
    BY DEF Init, Past
  <1>4. Requesting
    BY <1>2, IdleType DEF Requesting, Timely, Marked, Reads, Reading
  <1>5. Entries
    BY DEF Init, Entries
  <1>6. CacheBounded
    <2> SUFFICES ASSUME env.maxUsers > 0, NEW i \in Instances
                 PROVE  Cardinality({u \in Users : cache[i][u] # None}) <= env.maxUsers
      BY DEF CacheBounded
    <2>1. {u \in Users : cache[i][u] # None} = {}
      BY DEF Init
    <2>2. Cardinality({}) = 0
      BY FS_EmptySet
    <2>3. env.maxUsers \in Nat
      BY <1>1, EnvType
    <2> QED
      BY <2>1, <2>2, <2>3
  <1> QED
    BY <1>1, <1>3, <1>4, <1>5, <1>6 DEF Inv

\* Every step keeps the invariant.
LEMMA NextInv ==
  ASSUME Inv, [Next]_vars
  PROVE  Inv'
PROOF
  <1>1. ASSUME NEW r \in env.requests, NEW i \in env.instances, NEW u \in env.users,
               Arrive(r, i, u)
        PROVE  Inv'
    BY <1>1, ArriveInv
  <1>2. ASSUME NEW r \in Requests, Step(r)
        PROVE  Inv'
    BY <1>2, GetInv, ReadFeedsInv, CountFeedInv, ReadStatusesInv, SetCacheInv, MarkReadInv,
       UpdateCountInv, MarkAllInv, SubscribeInv, ResetStatusesInv, UnsubscribeInv, InvalidateInv
       DEF Step
  <1>3. ASSUME NEW a \in Articles,
               AddArticle(a) \/ GrowOld(a) \/ \E u \in env.users : PutStar(u, a)
        PROVE  Inv'
    BY <1>3, AddArticleInv, GrowOldInv, PutStarInv
  <1>4. ASSUME NEW i \in env.instances, Sweep(i) \/ Restart(i)
        PROVE  Inv'
    BY <1>4, EnvType, SweepInv, RestartInv DEF Inv
  <1>5. CASE Tick
    BY <1>5, TickInv
  <1>6. CASE UNCHANGED vars
    <2>1. TypeOK' /\ Past'
      BY <1>6 DEF vars, Inv, TypeOK, Past
    <2>2. Requesting'
      BY <1>6 DEF vars, Inv, Requesting, Timely, Marked, Reads, Exact
    <2>3. Entries'
      BY <1>6 DEF vars, Inv, Entries, EntryOK, Truth
    <2>4. CacheBounded'
      BY <1>6 DEF vars, Inv, CacheBounded
    <2> QED
      BY <2>1, <2>2, <2>3, <2>4 DEF Inv
  <1> QED
    BY <1>1, <1>2, <1>3, <1>4, <1>5, <1>6 DEF Next

\* A cached count is a natural number whatever updates were applied to it, and a request
\* has the instance, the user, the article or the feed that its next step reads.
THEOREM TypeCorrect == Spec => []TypeOK
PROOF
  <1>1. Inv => TypeOK
    BY DEF Inv
  <1> QED
    BY <1>1, InitInv, NextInv, PTL DEF Spec

\* A wrong count is not served once the user's counts have been left alone for the time of
\* one request and one cache lifetime.
THEOREM QuietExactHolds == Spec => []QuietExact
PROOF
  <1>1. Inv => QuietExact
    <2> SUFFICES ASSUME Inv, NEW i \in Instances, NEW u \in Users, Valid(cache[i][u]),
                        now > disturbed[u] + env.latency + TTL
                 PROVE  cache[i][u].count = Truth(u)
      BY DEF QuietExact
    <2>1. cache[i][u] \in Entry /\ EntryOK(cache[i][u], u) /\ now <= cache[i][u].until
      BY DEF Inv, Entries, TypeOK, Valid
    <2>2. /\ cache[i][u].until \in Nat /\ now \in Nat /\ disturbed[u] \in Nat
          /\ env.latency \in Nat
      BY <2>1, EnvType DEF Entry, Inv, TypeOK
    <2> QED
      BY <2>1, <2>2 DEF EntryOK
  <1> QED
    BY <1>1, InitInv, NextInv, PTL DEF Spec

\* Eviction keeps every instance's cache within its limit.
THEOREM CacheBoundedHolds == Spec => []CacheBounded
PROOF
  <1>1. Inv => CacheBounded
    BY DEF Inv
  <1> QED
    BY <1>1, InitInv, NextInv, PTL DEF Spec
=============================================================================
