------------------------- MODULE ArticleStatusProofs -------------------------
(***************************************************************************)
(* Proofs about ArticleStatus for every number of users, feeds, articles   *)
(* and overlapping requests.                                               *)
(***************************************************************************)
EXTENDS ArticleStatus, TLAPS

USE FeedOfAssumption, EnvsAssumption, NoneIsNoStatus

-----------------------------------------------------------------------------
(* Types.                                                                    *)

\* A deployment names users and requests that exist.
LEMMA EnvType ==
  ASSUME TypeOK
  PROVE  /\ env.datastore \in BOOLEAN /\ env.kinds \subseteq AllKinds
         /\ env.requests \subseteq Requests /\ env.users \subseteq Users
         /\ env.faults \in BOOLEAN
  BY DEF TypeOK, Env

\* What the fields of a request may hold.
LEMMA ReqFields ==
  ASSUME NEW q \in Req
  PROVE  /\ q.pc \in {"idle", "read", "write", "reset", "scan", "delete"} /\ q.kind \in AllKinds
         /\ q.user \in Users \cup {None} /\ q.art \in Articles \cup {None}
         /\ q.feed \in Feeds \cup {None} /\ q.is \in BOOLEAN
         /\ q.seen \in Status \cup {None} /\ q.keys \in SUBSET Pairs
  BY DEF Req

\* A request slot that is free.
LEMMA IdleType == Idle \in Req /\ LocalsOK(Idle) /\ Idle.pc = "idle" /\ Idle.kind = "mark"
  BY DEF Idle, Request, Req, AllKinds, LocalsOK

\* A row is its two marks.
LEMMA StatusFields ==
  /\ \A m \in Status : m.read \in BOOLEAN /\ m.star \in BOOLEAN /\ m # None
  /\ \A x, y \in BOOLEAN : /\ Mark(x, y) \in Status
                           /\ Mark(x, y).read = x /\ Mark(x, y).star = y
  /\ Unset \in Status /\ Unset = Mark(FALSE, FALSE)
  /\ \A m \in Status, b \in BOOLEAN :
        /\ [m EXCEPT !.read = b] = Mark(b, m.star) /\ [m EXCEPT !.star = b] = Mark(m.read, b)
        /\ m = Mark(m.read, m.star)
  BY DEF Status, Mark, Unset

\* The rows that a step writes, and what it promises, stay well typed.
LEMMA RowsType ==
  ASSUME TypeOK, NEW K, NEW m \in Status \cup {None}, WriteRows(K, m)
  PROVE  status' \in [Users -> [Articles -> Status \cup {None}]]
  BY DEF TypeOK, WriteRows

\* A request that ends, or goes on as q, leaves the others alone.
LEMMA Move ==
  ASSUME TypeOK, NEW r \in Requests, NEW q \in Req, LocalsOK(q), rq' = [rq EXCEPT ![r] = q]
  PROVE  /\ rq' \in [Requests -> Req] /\ rq'[r] = q
         /\ \A x \in Requests : x # r => rq'[x] = rq[x]
         /\ \A x \in Requests : LocalsOK(rq'[x])
  BY DEF TypeOK

\* A request ends and leaves the others alone.
LEMMA EndMove ==
  ASSUME TypeOK, NEW r \in Requests, End(r)
  PROVE  /\ rq' \in [Requests -> Req] /\ rq'[r] = Idle
         /\ \A x \in Requests : x # r => rq'[x] = rq[x]
         /\ \A x \in Requests : LocalsOK(rq'[x])
  BY IdleType, Move DEF End

\* The step of request r to the place pc, with the row it saw and the keys it collected.
LEMMA Advance ==
  ASSUME TypeOK, NEW r \in Requests, NEW pc \in {"write", "reset", "delete"},
         NEW seen \in Status \cup {None}, NEW keys \in SUBSET Pairs,
         rq' = [rq EXCEPT ![r] = [@ EXCEPT !.pc = pc, !.seen = seen, !.keys = keys]],
         LocalsOK([rq[r] EXCEPT !.pc = pc])
  PROVE  /\ rq' \in [Requests -> Req] /\ \A x \in Requests : x # r => rq'[x] = rq[x]
         /\ \A x \in Requests : LocalsOK(rq'[x])
         /\ rq'[r].pc = pc /\ rq'[r].seen = seen /\ rq'[r].keys = keys
         /\ rq'[r].kind = rq[r].kind /\ rq'[r].user = rq[r].user /\ rq'[r].art = rq[r].art
PROOF
  <1> DEFINE q == [rq[r] EXCEPT !.pc = pc, !.seen = seen, !.keys = keys]
  <1>1. rq[r] \in Req
    BY DEF TypeOK
  <1>2. /\ q \in Req /\ q.pc = pc /\ q.seen = seen /\ q.keys = keys /\ q.kind = rq[r].kind
        /\ q.user = rq[r].user /\ q.art = rq[r].art /\ q.feed = rq[r].feed
    BY <1>1 DEF Req
  <1>3. LocalsOK(q)
    BY <1>1, <1>2 DEF LocalsOK, Req
  <1>4. rq' = [rq EXCEPT ![r] = q]
    BY DEF TypeOK
  <1> HIDE DEF q
  <1> QED
    BY <1>2, <1>3, <1>4, Move

\* What SQLite and Datastore write for a mark or a star, and what was asked for.
LEMMA RowType ==
  ASSUME NEW q \in Req, NEW cur \in Status \cup {None}, NEW w \in Status
  PROVE  /\ SqliteRow(q, cur) \in Status \cup {None}
         /\ cur # None => SqliteRow(q, cur) # None
         /\ DatastoreRow(q) \in Status
         /\ Asked(q, w) \in Status
PROOF
  <1>1. /\ q.is \in BOOLEAN /\ q.seen \in Status \cup {None}
        /\ (q.kind = "mark" /\ q.is) \in BOOLEAN /\ (q.kind = "star") \in BOOLEAN
    BY ReqFields
  <1>2. SqliteRow(q, cur) \in Status \cup {None} /\ (cur # None => SqliteRow(q, cur) # None)
    <2>1. CASE q.seen = None /\ cur = None
      <3>1. SqliteRow(q, cur) = [read |-> (q.kind = "mark" /\ q.is), star |-> (q.kind = "star")]
        BY <2>1 DEF SqliteRow, Mark
      <3> QED
        BY <2>1, <3>1 DEF Status
    <2>2. CASE q.seen # None /\ cur # None
      <3>1. cur \in Status /\ q.seen \in Status /\ (~q.seen.star) \in BOOLEAN
        BY <1>1, <2>2
      <3>2. SqliteRow(q, cur) = IF q.kind = "mark" THEN [cur EXCEPT !.read = q.is]
                                  ELSE [cur EXCEPT !.star = ~q.seen.star]
        BY <2>2 DEF SqliteRow
      <3>3. [cur EXCEPT !.read = q.is] \in Status /\ [cur EXCEPT !.star = ~q.seen.star] \in Status
        BY <1>1, <3>1 DEF Status
      <3> QED
        BY <3>2, <3>3, StatusFields
    <2>3. CASE ~(q.seen = None /\ cur = None) /\ ~(q.seen # None /\ cur # None)
      BY <2>3 DEF SqliteRow
    <2> QED
      BY <2>1, <2>2, <2>3
  <1>3. DatastoreRow(q) \in Status
    <2> DEFINE seen == IF q.seen = None THEN Unset ELSE q.seen
    <2>1. seen \in Status
      BY <1>1, StatusFields
    <2> HIDE DEF seen
    <2>2. CASE q.kind = "mark"
      <3>1. DatastoreRow(q) = [read |-> q.is, star |-> seen.star]
        BY <2>2 DEF DatastoreRow, seen, Mark
      <3> QED
        BY <1>1, <2>1, <3>1 DEF Status
    <2>3. CASE q.kind # "mark"
      <3>1. DatastoreRow(q) = [read |-> seen.read, star |-> ~seen.star]
        BY <2>3 DEF DatastoreRow, seen, Mark
      <3> QED
        BY <2>1, <3>1 DEF Status
    <2> QED
      BY <2>2, <2>3
  <1>4. Asked(q, w) \in Status
    BY <1>1 DEF Asked, Status
  <1> QED
    BY <1>2, <1>3, <1>4

\* A request that arrives.
LEMMA BeginType ==
  ASSUME TypeOK, NEW r \in env.requests, NEW k \in env.kinds, NEW u \in env.users,
         NEW a \in Articles, NEW f \in Feeds, NEW b \in BOOLEAN, Begin(r, k, u, a, f, b)
  PROVE  /\ TypeOK' /\ rq'[r].kind = k /\ rq'[r].pc # "delete"
         /\ rq'[r].pc = "write" => rq'[r].kind \notin {"mark", "star"}
         /\ \A x \in Requests : x # r => rq'[x] = rq[x]
PROOF
  <1> DEFINE q == CASE k \in {"mark", "star"} -> Request("read", k, u, a, None, b)
                    [] k = "markAll"          -> Request("read", k, u, None, None, FALSE)
                    [] k = "cleanup"          -> Request("scan", k, None, None, None, FALSE)
                    [] OTHER                  -> Request("write", k, u, None, f, FALSE)
  <1>1. r \in Requests /\ u \in Users /\ k \in AllKinds /\ u # None /\ a # None /\ f # None
    BY EnvType
  <1>2. /\ q \in Req /\ LocalsOK(q) /\ q.kind = k /\ q.pc # "delete"
        /\ q.pc = "write" => q.kind \notin {"mark", "star"}
    <2>1. CASE k \in {"mark", "star"}
      <3>1. q = Request("read", k, u, a, None, b)
        BY <2>1
      <3> HIDE DEF q
      <3>2. /\ q \in Req /\ q.pc = "read" /\ q.kind = k /\ q.user = u /\ q.art = a /\ q.seen = None
        BY <1>1, <3>1 DEF Request, Req
      <3> QED
        BY <1>1, <2>1, <3>2 DEF LocalsOK
    <2>2. CASE k = "markAll"
      <3>1. q = Request("read", k, u, None, None, FALSE)
        BY <2>2
      <3> HIDE DEF q
      <3>2. /\ q \in Req /\ q.pc = "read" /\ q.kind = k /\ q.user = u /\ q.seen = None
        BY <1>1, <3>1 DEF Request, Req
      <3> QED
        BY <1>1, <2>2, <3>2 DEF LocalsOK
    <2>3. CASE k = "cleanup"
      <3>1. q = Request("scan", k, None, None, None, FALSE)
        BY <2>3
      <3> HIDE DEF q
      <3>2. /\ q \in Req /\ q.pc = "scan" /\ q.kind = k /\ q.seen = None
        BY <1>1, <3>1 DEF Request, Req
      <3> QED
        BY <1>1, <2>3, <3>2 DEF LocalsOK
    <2>4. CASE k \in {"subscribe", "unsubscribe"}
      <3>1. q = Request("write", k, u, None, f, FALSE)
        BY <2>4
      <3> HIDE DEF q
      <3>2. /\ q \in Req /\ q.pc = "write" /\ q.kind = k /\ q.user = u /\ q.feed = f /\ q.seen = None
        BY <1>1, <3>1 DEF Request, Req
      <3> QED
        BY <1>1, <2>4, <3>2 DEF LocalsOK
    <2> QED
      BY <1>1, <2>1, <2>2, <2>3, <2>4 DEF AllKinds
  <1>3. rq' = [rq EXCEPT ![r] = q]
    BY DEF Begin
  <1> HIDE DEF q
  <1>4. /\ rq' \in [Requests -> Req] /\ rq'[r] = q /\ \A x \in Requests : LocalsOK(rq'[x])
        /\ \A x \in Requests : x # r => rq'[x] = rq[x]
    BY <1>1, <1>2, <1>3, Move
  <1>5. UNCHANGED <<env, subs, status, old, wanted, left, blurred>>
    BY DEF Begin
  <1>6. gone' \in [Requests -> SUBSET Pairs]
    BY DEF Begin, TypeOK, Unsubscribed
  <1> QED
    BY <1>1, <1>2, <1>4, <1>5, <1>6 DEF TypeOK

-----------------------------------------------------------------------------
(* The inductive invariant.                                                  *)

\* Only Datastore's cleanup has a second step.
DeletesLater == \A r \in Requests : rq[r].pc = "delete" => env.datastore

\* A feed that has not been left since its marks were reset is subscribed to.
KeptFeeds == \A u \in Users, a \in Articles : <<u, a>> \notin left => FeedOf[a] \in subs[u]

\* A request about to UPDATE the row it saw will find it: rows of a feed the user keeps
\* do not go away.
RowFound ==
  ~env.datastore =>
    \A r \in Requests :
      rq[r].pc = "write" /\ rq[r].kind \in {"mark", "star"} /\ rq[r].seen # None =>
        (<<rq[r].user, rq[r].art>> \notin left => status[rq[r].user][rq[r].art] # None)

\* A toggle about to write has seen the star the user wants the other way round, unless
\* the star has been written since.
SeenStar ==
  ~env.datastore =>
    \A r \in Requests :
      rq[r].pc = "write" /\ rq[r].kind = "star" =>
        (<<rq[r].user, rq[r].art>> \notin left \cup blurred
           => Shown(rq[r].seen).star = wanted[rq[r].user][rq[r].art].star)

\* A cleanup knows of every feed the user lacks or has lacked since it began, and
\* Datastore's has collected only rows of old articles of such feeds.
GoneKnown ==
  \A r \in Requests :
    rq[r].kind = "cleanup" =>
      /\ Unsubscribed \subseteq gone[r]
      /\ rq[r].pc = "delete" /\ ~env.faults
           => \A p \in rq[r].keys : p \in gone[r] /\ p[2] \in old

Marks == DeletesLater /\ KeptFeeds /\ RowFound /\ SeenStar /\ NoLostUpdate
Inv   == TypeOK /\ Marks /\ GoneKnown

\* What a step of request r does to the marks: the rows outside left keep their existence
\* or are written, and a star changes only where no other toggle has read it.
LEMMA MarksKept ==
  ASSUME TypeOK, Marks, env' = env, NEW r \in Requests, rq' \in [Requests -> Req],
         \A x \in Requests : x # r => rq'[x] = rq[x],
         rq'[r].pc = "delete" => env.datastore,
         rq'[r].pc = "write" => rq'[r].kind \notin {"mark", "star"},
         \A u \in Users, a \in Articles :
           <<u, a>> \notin left' =>
             /\ FeedOf[a] \in subs'[u]
             /\ ~env.datastore =>
                  /\ \/ <<u, a>> \notin left /\ (status[u][a] # None => status'[u][a] # None)
                     \/ status'[u][a] # None
                  /\ Shown(status'[u][a]).read = wanted'[u][a].read
                  /\ <<u, a>> \notin blurred' =>
                       /\ Shown(status'[u][a]).star = wanted'[u][a].star
                       /\ \/ <<u, a>> \notin left \cup blurred /\ wanted'[u][a].star = wanted[u][a].star
                          \/ <<u, a>> \notin Overtaken(r)
  PROVE  Marks'
PROOF
  <1>1. DeletesLater'
    BY DEF Marks, DeletesLater
  <1>2. KeptFeeds'
    BY DEF KeptFeeds
  <1>3. NoLostUpdate'
    BY DEF NoLostUpdate, Shown
  <1>4. ASSUME NEW x \in Requests, rq'[x].pc = "write", rq'[x].kind \in {"mark", "star"}
        PROVE  /\ x # r /\ rq'[x] = rq[x]
               /\ rq[x].user \in Users /\ rq[x].art \in Articles
               /\ rq[x].kind = "star" => <<rq[x].user, rq[x].art>> \in Overtaken(r)
    <2>1. x # r /\ rq'[x] = rq[x]
      BY <1>4
    <2>2. rq[x] \in Req /\ LocalsOK(rq[x])
      BY DEF TypeOK
    <2>3. rq[x].user \in Users /\ rq[x].art \in Articles
      BY <1>4, <2>1, <2>2, ReqFields DEF LocalsOK
    <2>4. ASSUME rq[x].kind = "star"
          PROVE  <<rq[x].user, rq[x].art>> \in Overtaken(r)
      <3>1. <<rq[x].user, rq[x].art>> \in Pairs
        BY <2>3 DEF Pairs
      <3> QED
        BY <1>4, <2>1, <2>4, <3>1 DEF Overtaken
    <2> QED
      BY <2>1, <2>3, <2>4
  <1>5. RowFound'
    <2> SUFFICES ASSUME ~env.datastore, NEW x \in Requests,
                        rq'[x].pc = "write", rq'[x].kind \in {"mark", "star"}, rq'[x].seen # None,
                        <<rq'[x].user, rq'[x].art>> \notin left'
                 PROVE  status'[rq'[x].user][rq'[x].art] # None
      BY DEF RowFound
    <2>1. x # r /\ rq'[x] = rq[x] /\ rq[x].user \in Users /\ rq[x].art \in Articles
      BY <1>4
    <2>2. <<rq[x].user, rq[x].art>> \notin left => status[rq[x].user][rq[x].art] # None
      BY <2>1 DEF Marks, RowFound
    <2> QED
      BY <2>1, <2>2
  <1>6. SeenStar'
    <2> SUFFICES ASSUME ~env.datastore, NEW x \in Requests,
                        rq'[x].pc = "write", rq'[x].kind = "star",
                        <<rq'[x].user, rq'[x].art>> \notin left' \cup blurred'
                 PROVE  Shown(rq'[x].seen).star = wanted'[rq'[x].user][rq'[x].art].star
      BY DEF SeenStar, Shown
    <2>1. /\ x # r /\ rq'[x] = rq[x] /\ rq[x].user \in Users /\ rq[x].art \in Articles
          /\ <<rq[x].user, rq[x].art>> \in Overtaken(r)
      BY <1>4
    <2>2. /\ <<rq[x].user, rq[x].art>> \notin left \cup blurred
          /\ wanted'[rq[x].user][rq[x].art].star = wanted[rq[x].user][rq[x].art].star
      BY <2>1
    <2>3. Shown(rq[x].seen).star = wanted[rq[x].user][rq[x].art].star
      BY <2>1, <2>2 DEF Marks, SeenStar
    <2> QED
      BY <2>1, <2>2, <2>3
  <1> QED
    BY <1>1, <1>2, <1>3, <1>5, <1>6 DEF Marks

\* What a row shows is a pair of marks.
LEMMA ShownType ==
  ASSUME NEW m \in Status \cup {None}
  PROVE  Shown(m) \in Status /\ Shown(m).read \in BOOLEAN /\ Shown(m).star \in BOOLEAN
  BY StatusFields DEF Shown

\* A step that leaves rows, feeds and promises alone, and readies no mark or star.
LEMMA SameMarks ==
  ASSUME TypeOK, Marks, UNCHANGED <<env, subs, status, wanted, left, blurred>>,
         NEW r \in Requests, rq' \in [Requests -> Req],
         \A x \in Requests : x # r => rq'[x] = rq[x],
         rq'[r].pc = "delete" => env.datastore,
         rq'[r].pc = "write" => rq'[r].kind \notin {"mark", "star"}
  PROVE  Marks'
PROOF
  <1>1. \A u \in Users, a \in Articles :
          <<u, a>> \notin left =>
             /\ FeedOf[a] \in subs[u]
             /\ ~env.datastore =>
                  /\ Shown(status[u][a]).read = wanted[u][a].read
                  /\ <<u, a>> \notin blurred => Shown(status[u][a]).star = wanted[u][a].star
    BY DEF Marks, KeptFeeds, NoLostUpdate
  <1> QED
    BY <1>1, MarksKept

\* A step of request r that takes no feed away leaves what the cleanups know true.
LEMMA GoneKept ==
  ASSUME GoneKnown, env' = env, NEW r \in Requests,
         \A x \in Requests : x # r => rq'[x] = rq[x],
         \A x \in Requests : x # r => gone'[x] = gone[x],
         old \subseteq old', Unsubscribed' \subseteq Unsubscribed,
         rq'[r].kind # "cleanup"
  PROVE  GoneKnown'
PROOF
  <1> SUFFICES ASSUME NEW x \in Requests, rq'[x].kind = "cleanup"
               PROVE  /\ Unsubscribed' \subseteq gone'[x]
                      /\ rq'[x].pc = "delete" /\ ~env.faults
                           => \A p \in rq'[x].keys : p \in gone'[x] /\ p[2] \in old'
    BY DEF GoneKnown
  <1>1. x # r /\ rq'[x] = rq[x] /\ gone'[x] = gone[x]
    OBVIOUS
  <1>2. /\ Unsubscribed \subseteq gone[x]
        /\ rq[x].pc = "delete" /\ ~env.faults
             => \A p \in rq[x].keys : p \in gone[x] /\ p[2] \in old
    BY <1>1 DEF GoneKnown
  <1> QED
    BY <1>1, <1>2

\* A request that ends leaves nothing about itself to know.
LEMMA EndGone ==
  ASSUME TypeOK, GoneKnown, UNCHANGED <<env, subs, old, gone>>, NEW r \in Requests, End(r)
  PROVE  GoneKnown'
PROOF
  <1>1. rq'[r].kind # "cleanup" /\ \A x \in Requests : x # r => rq'[x] = rq[x]
    BY EndMove, IdleType
  <1>2. Unsubscribed' = Unsubscribed
    BY DEF Unsubscribed
  <1> QED
    BY <1>1, <1>2, GoneKept

\* A request that ends without a write.
LEMMA JustEnds ==
  ASSUME Inv, UNCHANGED <<env, subs, status, old, hist>>, NEW r \in Requests, End(r)
  PROVE  Inv'
PROOF
  <1>1. TypeOK /\ Marks /\ GoneKnown
    BY DEF Inv
  <1>2. /\ rq' \in [Requests -> Req] /\ rq'[r].pc = "idle"
        /\ \A x \in Requests : x # r => rq'[x] = rq[x]
        /\ \A x \in Requests : LocalsOK(rq'[x])
    BY <1>1, EndMove, IdleType
  <1>3. UNCHANGED <<wanted, left, blurred, gone>>
    BY DEF hist
  <1>4. TypeOK'
    BY <1>1, <1>2, <1>3 DEF TypeOK
  <1>5. Marks'
    BY <1>1, <1>2, <1>3, SameMarks
  <1>6. GoneKnown'
    BY <1>1, <1>3, EndGone
  <1> QED
    BY <1>4, <1>5, <1>6 DEF Inv

-----------------------------------------------------------------------------
(* One lemma per action.                                                     *)

\* A request begins; a cleanup notes the feeds its users lack.
LEMMA BeginInv ==
  ASSUME Inv, NEW r \in env.requests, NEW k \in env.kinds, NEW u \in env.users,
         NEW a \in Articles, NEW f \in Feeds, NEW b \in BOOLEAN, Begin(r, k, u, a, f, b)
  PROVE  Inv'
PROOF
  <1>1. TypeOK /\ Marks /\ GoneKnown /\ r \in Requests
    BY EnvType DEF Inv
  <1>2. /\ TypeOK' /\ rq'[r].kind = k /\ rq'[r].pc # "delete"
        /\ rq'[r].pc = "write" => rq'[r].kind \notin {"mark", "star"}
        /\ \A x \in Requests : x # r => rq'[x] = rq[x]
    BY <1>1, BeginType
  <1>3. UNCHANGED <<env, subs, status, old, wanted, left, blurred>>
    BY DEF Begin
  <1>4. Marks'
    BY <1>1, <1>2, <1>3, SameMarks DEF TypeOK
  <1>5. Unsubscribed' = Unsubscribed
    BY <1>3 DEF Unsubscribed
  <1>6. /\ \A x \in Requests : x # r => gone'[x] = gone[x]
        /\ k = "cleanup" => gone'[r] = Unsubscribed
    <2> HIDE DEF Unsubscribed
    <2> QED
      BY <1>1 DEF Begin, TypeOK
  <1>7. GoneKnown'
    <2> SUFFICES ASSUME NEW x \in Requests, rq'[x].kind = "cleanup"
                 PROVE  /\ Unsubscribed' \subseteq gone'[x]
                        /\ rq'[x].pc = "delete" /\ ~env'.faults
                             => \A p \in rq'[x].keys : p \in gone'[x] /\ p[2] \in old'
      BY DEF GoneKnown
    <2>1. CASE x = r
      BY <1>2, <1>5, <1>6, <2>1
    <2>2. CASE x # r
      BY <1>1, <1>2, <1>3, <1>5, <1>6, <2>2 DEF GoneKnown
    <2> QED
      BY <2>1, <2>2
  <1> QED
    BY <1>2, <1>4, <1>7 DEF Inv

\* A request reads the row it will change.
LEMMA ReadStatusInv ==
  ASSUME Inv, NEW r \in Requests, ReadStatus(r)
  PROVE  Inv'
PROOF
  <1> DEFINE q == rq[r]
  <1>1. /\ TypeOK /\ Marks /\ GoneKnown /\ q \in Req /\ LocalsOK(q)
        /\ q.pc = "read" /\ q.kind \in {"mark", "star"}
    BY DEF Inv, TypeOK, ReadStatus
  <1>2. q.user \in Users /\ q.art \in Articles /\ q.seen \in Status \cup {None} /\ q.keys \in SUBSET Pairs
    BY <1>1, ReqFields DEF LocalsOK
  <1>3. UNCHANGED <<env, subs, status, old, hist>> /\ UNCHANGED <<wanted, left, blurred, gone>>
    BY DEF ReadStatus, hist
  <1>4. status[q.user][q.art] \in Status \cup {None}
    BY <1>1, <1>2 DEF TypeOK
  <1>5. LocalsOK([q EXCEPT !.pc = "write"])
    BY <1>1 DEF LocalsOK, Req
  <1>6. ASSUME NEW seen \in Status \cup {None}, env.datastore \/ seen = status[q.user][q.art],
               rq' = [rq EXCEPT ![r] = [@ EXCEPT !.pc = "write", !.seen = seen, !.keys = q.keys]]
        PROVE  Inv'
    <2>1. /\ rq' \in [Requests -> Req] /\ \A x \in Requests : x # r => rq'[x] = rq[x]
          /\ \A x \in Requests : LocalsOK(rq'[x])
          /\ rq'[r].pc = "write" /\ rq'[r].seen = seen
          /\ rq'[r].kind = q.kind /\ rq'[r].user = q.user /\ rq'[r].art = q.art
      BY <1>1, <1>2, <1>5, <1>6, Advance, ZenonT(60)
    <2>2. TypeOK'
      BY <1>1, <1>3, <2>1 DEF TypeOK
    <2>3. DeletesLater' /\ KeptFeeds' /\ NoLostUpdate'
      BY <1>1, <1>3, <2>1 DEF Marks, DeletesLater, KeptFeeds, NoLostUpdate, Shown
    <2>4. RowFound'
      <3> SUFFICES ASSUME ~env.datastore, NEW x \in Requests,
                          rq'[x].pc = "write", rq'[x].kind \in {"mark", "star"}, rq'[x].seen # None,
                          <<rq'[x].user, rq'[x].art>> \notin left
                   PROVE  status[rq'[x].user][rq'[x].art] # None
        BY <1>3 DEF RowFound
      <3>1. CASE x = r
        BY <1>6, <2>1, <3>1
      <3>2. CASE x # r
        BY <1>1, <2>1, <3>2 DEF Marks, RowFound
      <3> QED
        BY <3>1, <3>2
    <2>5. SeenStar'
      <3> SUFFICES ASSUME ~env.datastore, NEW x \in Requests,
                          rq'[x].pc = "write", rq'[x].kind = "star",
                          <<rq'[x].user, rq'[x].art>> \notin left \cup blurred
                   PROVE  Shown(rq'[x].seen).star = wanted[rq'[x].user][rq'[x].art].star
        BY <1>3 DEF SeenStar, Shown
      <3>1. CASE x = r
        <4>1. /\ <<q.user, q.art>> \notin left /\ <<q.user, q.art>> \notin blurred
              /\ seen = status[q.user][q.art] /\ rq'[r].seen = seen
              /\ rq'[r].user = q.user /\ rq'[r].art = q.art
          BY <1>6, <2>1, <3>1
        <4>2. Shown(status[q.user][q.art]).star = wanted[q.user][q.art].star
          BY <1>1, <1>2, <4>1 DEF Marks, NoLostUpdate
        <4> QED
          BY <3>1, <4>1, <4>2
      <3>2. CASE x # r
        BY <1>1, <2>1, <3>2 DEF Marks, SeenStar
      <3> QED
        BY <3>1, <3>2
    <2>6. GoneKnown'
      <3>1. rq'[r].kind # "cleanup" /\ Unsubscribed' = Unsubscribed
        BY <1>1, <1>3, <2>1 DEF Unsubscribed
      <3> QED
        BY <1>1, <1>3, <2>1, <3>1, GoneKept
    <2> QED
      BY <2>2, <2>3, <2>4, <2>5, <2>6 DEF Inv, Marks
  <1>7. CASE rq' = [rq EXCEPT ![r].pc = "write", ![r].seen = status[q.user][q.art]]
    <2>1. rq' = [rq EXCEPT ![r] = [@ EXCEPT !.pc = "write", !.seen = status[q.user][q.art], !.keys = q.keys]]
      BY <1>1, <1>7 DEF TypeOK, Req
    <2> QED
      BY <1>4, <1>6, <2>1, Zenon
  <1>8. CASE env.datastore /\ rq' = [rq EXCEPT ![r].pc = "write"]
    <2>1. rq' = [rq EXCEPT ![r] = [@ EXCEPT !.pc = "write", !.seen = q.seen, !.keys = q.keys]]
      BY <1>1, <1>8 DEF TypeOK, Req
    <2> QED
      BY <1>2, <1>6, <1>8, <2>1, Zenon
  <1>9. CASE End(r)
    BY <1>3, <1>9, JustEnds
  <1> QED
    BY <1>7, <1>8, <1>9 DEF ReadStatus

\* What a write of a mark or a star does to its row on SQLite, against what was asked.
LEMMA WrittenRow ==
  ASSUME NEW q \in Req, q.kind \in {"mark", "star"},
         NEW cur \in Status \cup {None}, NEW w \in Status,
         q.seen # None => cur # None, q.seen = None => cur = None,
         Shown(cur).read = w.read
  PROVE  /\ SqliteRow(q, cur) # None
         /\ SqliteRow(q, cur).read = Asked(q, w).read
         /\ q.kind = "mark" => SqliteRow(q, cur).star = Shown(cur).star /\ Asked(q, w).star = w.star
         /\ q.kind = "star" /\ Shown(q.seen).star = w.star => SqliteRow(q, cur).star = Asked(q, w).star
PROOF
  <1>1. /\ q.is \in BOOLEAN /\ q.seen \in Status \cup {None}
        /\ (q.kind = "mark" /\ q.is) \in BOOLEAN /\ (q.kind = "star") \in BOOLEAN
    BY ReqFields
  <1>2. w.read \in BOOLEAN /\ w.star \in BOOLEAN
    BY StatusFields
  <1>3. /\ q.kind = "mark" => Asked(q, w).read = q.is /\ Asked(q, w).star = w.star
        /\ q.kind = "star" => Asked(q, w).read = w.read /\ Asked(q, w).star = ~w.star
    BY <1>1 DEF Asked, Status
  <1>4. CASE q.seen = None
    <2>1. cur = None /\ SqliteRow(q, cur) = Mark(q.kind = "mark" /\ q.is, q.kind = "star")
      BY <1>4 DEF SqliteRow
    <2>2. /\ SqliteRow(q, cur).read = (q.kind = "mark" /\ q.is)
          /\ SqliteRow(q, cur).star = (q.kind = "star")
          /\ SqliteRow(q, cur) # None
      <3>1. SqliteRow(q, cur) = [read |-> (q.kind = "mark" /\ q.is), star |-> (q.kind = "star")]
        BY <2>1 DEF Mark
      <3>2. SqliteRow(q, cur) \in Status
        BY <1>1, <3>1 DEF Status
      <3> QED
        BY <3>1, <3>2, StatusFields
    <2>3. Shown(cur).read = FALSE /\ Shown(cur).star = FALSE /\ Shown(q.seen).star = FALSE
      BY <1>4, <2>1 DEF Shown, Unset
    <2> QED
      BY <1>1, <1>2, <1>3, <2>2, <2>3
  <1>5. CASE q.seen # None
    <2>1. cur \in Status /\ cur # None /\ q.seen \in Status /\ q.seen.star \in BOOLEAN
      BY <1>1, <1>5, StatusFields
    <2>2. SqliteRow(q, cur) = IF q.kind = "mark" THEN [cur EXCEPT !.read = q.is]
                                ELSE [cur EXCEPT !.star = ~q.seen.star]
      BY <1>5, <2>1 DEF SqliteRow
    <2>4. cur.read \in BOOLEAN /\ cur.star \in BOOLEAN /\ Shown(cur) = cur /\ Shown(q.seen) = q.seen
      BY <1>5, <2>1, StatusFields DEF Shown
    <2>5. /\ q.kind = "mark" => SqliteRow(q, cur).read = q.is /\ SqliteRow(q, cur).star = cur.star
          /\ q.kind = "star" => SqliteRow(q, cur).read = cur.read /\ SqliteRow(q, cur).star = ~q.seen.star
      BY <1>1, <2>1, <2>2 DEF Status
    <2>6. SqliteRow(q, cur) # None
      BY <2>1, RowType
    <2> QED
      BY <1>3, <2>4, <2>5, <2>6
  <1> QED
    BY <1>4, <1>5

\* A mark or a star is written, and its user is told so.
LEMMA WriteStatusInv ==
  ASSUME Inv, NEW r \in Requests, WriteStatus(r)
  PROVE  Inv'
PROOF
  <1> DEFINE q   == rq[r]
             cur == status[q.user][q.art]
             key == {<<q.user, q.art>>}
             new == IF env.datastore THEN DatastoreRow(q) ELSE SqliteRow(q, cur)
             w   == wanted[q.user][q.art]
  <1>1. /\ TypeOK /\ Marks /\ GoneKnown /\ q \in Req /\ LocalsOK(q)
        /\ q.pc = "write" /\ q.kind \in {"mark", "star"}
    BY DEF Inv, TypeOK, WriteStatus
  <1>2. q.user \in Users /\ q.art \in Articles /\ q.seen \in Status \cup {None} /\ q.is \in BOOLEAN
    BY <1>1, ReqFields DEF LocalsOK
  <1>3. UNCHANGED <<env, subs, old, left, gone>> /\ End(r)
    BY DEF WriteStatus
  <1>4. cur \in Status \cup {None} /\ w \in Status
    BY <1>1, <1>2 DEF TypeOK
  <1>5. CASE UNCHANGED <<status, wanted, blurred>>
    BY <1>3, <1>5, JustEnds DEF hist
  <1>6. CASE /\ env.datastore \/ q.seen # None \/ cur = None
             /\ WriteRows(key, new)
             /\ wanted' = [u \in Users |-> [a \in Articles |->
                             IF <<u, a>> \in key THEN Asked(q, wanted[u][a]) ELSE wanted[u][a]]]
             /\ blurred' = IF q.kind = "star" THEN blurred \cup (key \cap Overtaken(r)) ELSE blurred
    <2>1. /\ new \in Status \cup {None}
          /\ Asked(q, w) \in Status
      BY <1>1, <1>4, RowType
    <2>2. \A u \in Users, a \in Articles :
             /\ status'[u][a] = IF u = q.user /\ a = q.art THEN new ELSE status[u][a]
             /\ wanted'[u][a] = IF u = q.user /\ a = q.art THEN Asked(q, w) ELSE wanted[u][a]
      BY <1>2, <1>6 DEF WriteRows
    <2>3. wanted' \in [Users -> [Articles -> Status]]
      <3>1. \A u \in Users, a \in Articles :
               (IF <<u, a>> \in key THEN Asked(q, wanted[u][a]) ELSE wanted[u][a]) \in Status
        BY <1>1, <1>2, <2>1 DEF TypeOK
      <3> QED
        BY <1>6, <3>1
    <2>4. status' \in [Users -> [Articles -> Status \cup {None}]]
      BY <1>1, <1>6, <2>1, RowsType
    <2>5. blurred' \subseteq Pairs /\ blurred \subseteq blurred'
      BY <1>1, <1>2, <1>6 DEF TypeOK, Pairs
    <2>6. /\ rq' \in [Requests -> Req] /\ rq'[r].pc = "idle"
          /\ \A x \in Requests : x # r => rq'[x] = rq[x]
          /\ \A x \in Requests : LocalsOK(rq'[x])
      BY <1>1, <1>3, EndMove, IdleType
    <2>7. TypeOK'
      BY <1>1, <1>3, <2>3, <2>4, <2>5, <2>6 DEF TypeOK
    <2>8. ASSUME NEW u \in Users, NEW a \in Articles, <<u, a>> \notin left'
          PROVE  /\ FeedOf[a] \in subs'[u]
                 /\ ~env.datastore =>
                      /\ \/ <<u, a>> \notin left /\ (status[u][a] # None => status'[u][a] # None)
                         \/ status'[u][a] # None
                      /\ Shown(status'[u][a]).read = wanted'[u][a].read
                      /\ <<u, a>> \notin blurred' =>
                           /\ Shown(status'[u][a]).star = wanted'[u][a].star
                           /\ \/ <<u, a>> \notin left \cup blurred /\ wanted'[u][a].star = wanted[u][a].star
                              \/ <<u, a>> \notin Overtaken(r)
      <3>1. <<u, a>> \notin left /\ FeedOf[a] \in subs'[u]
        BY <1>1, <1>3, <2>8 DEF Marks, KeptFeeds
      <3> SUFFICES ASSUME ~env.datastore
                   PROVE  /\ status[u][a] # None => status'[u][a] # None
                          /\ Shown(status'[u][a]).read = wanted'[u][a].read
                          /\ <<u, a>> \notin blurred' =>
                               /\ Shown(status'[u][a]).star = wanted'[u][a].star
                               /\ \/ <<u, a>> \notin blurred /\ wanted'[u][a].star = wanted[u][a].star
                                  \/ <<u, a>> \notin Overtaken(r)
        BY <3>1, Zenon
      <3>2. /\ Shown(status[u][a]).read = wanted[u][a].read
            /\ <<u, a>> \notin blurred => Shown(status[u][a]).star = wanted[u][a].star
        BY <1>1, <3>1 DEF Marks, NoLostUpdate
      <3>3. CASE ~(u = q.user /\ a = q.art)
        <4>1. status'[u][a] = status[u][a] /\ wanted'[u][a] = wanted[u][a]
          BY <2>2, <3>3
        <4> QED
          BY <2>5, <3>2, <4>1
      <3>4. CASE u = q.user /\ a = q.art
        <4>1. status'[u][a] = SqliteRow(q, cur) /\ wanted'[u][a] = Asked(q, w)
          BY <2>2, <3>4
        <4>2. status[u][a] = cur /\ wanted[u][a] = w /\ <<u, a>> = <<q.user, q.art>>
          BY <3>4
        <4>3. q.seen # None => cur # None
          BY <1>1, <3>1, <4>2 DEF Marks, RowFound
        <4>4. q.kind = "star" /\ <<u, a>> \notin blurred => Shown(q.seen).star = w.star
          BY <1>1, <3>1, <4>2 DEF Marks, SeenStar
        <4>5. q.kind = "star" /\ <<u, a>> \notin blurred' => <<u, a>> \notin blurred /\ <<u, a>> \notin Overtaken(r)
          BY <1>6, <4>2
        <4>6. q.kind = "mark" => blurred' = blurred
          BY <1>6
        <4>7. q.seen = None => cur = None
          BY <1>6
        <4> HIDE DEF q, cur, w, new
        <4>8. /\ SqliteRow(q, cur) # None
              /\ SqliteRow(q, cur).read = Asked(q, w).read
              /\ q.kind = "mark" => SqliteRow(q, cur).star = Shown(cur).star /\ Asked(q, w).star = w.star
              /\ q.kind = "star" /\ Shown(q.seen).star = w.star => SqliteRow(q, cur).star = Asked(q, w).star
          BY <1>1, <1>4, <3>2, <4>2, <4>3, <4>7, WrittenRow
        <4>9. Shown(status'[u][a]) = SqliteRow(q, cur) /\ status'[u][a] # None
          BY <4>1, <4>8 DEF Shown
        <4>10. CASE q.kind = "mark"
          BY <3>2, <4>1, <4>2, <4>6, <4>8, <4>9, <4>10
        <4>11. CASE q.kind = "star"
          BY <4>1, <4>4, <4>5, <4>8, <4>9, <4>11
        <4> QED
          BY <1>1, <4>10, <4>11
      <3> QED
        BY <3>3, <3>4
    <2>9. Marks'
      <3> HIDE DEF new, cur, w, key
      <3> QED
        BY <1>1, <1>3, <2>6, <2>8, MarksKept
    <2>10. GoneKnown'
      BY <1>1, <1>3, EndGone
    <2> QED
      BY <2>7, <2>9, <2>10 DEF Inv
  <1> QED
    BY <1>5, <1>6 DEF WriteStatus, Want

\* The rows K become read; the promises keep their stars.
LEMMA SetAllReadInv ==
  ASSUME Inv, NEW r \in Requests, NEW K \in SUBSET Pairs, SetAllRead(r, K),
         UNCHANGED <<env, subs, old, left, gone>>
  PROVE  Inv'
PROOF
  <1>1. TypeOK /\ Marks /\ GoneKnown /\ End(r)
    BY DEF Inv, SetAllRead
  <1>2. /\ rq' \in [Requests -> Req] /\ rq'[r].pc = "idle"
        /\ \A x \in Requests : x # r => rq'[x] = rq[x]
        /\ \A x \in Requests : LocalsOK(rq'[x])
    BY <1>1, EndMove, IdleType
  <1>3. /\ Mark(TRUE, FALSE) \in Status /\ Mark(TRUE, FALSE) # None
        /\ Mark(TRUE, FALSE).read = TRUE /\ Mark(TRUE, FALSE).star = FALSE
    BY StatusFields
  <1>4. \A u \in Users, a \in Articles :
           /\ wanted[u][a] \in Status
           /\ status'[u][a] = IF <<u, a>> \in K THEN Mark(TRUE, FALSE) ELSE status[u][a]
           /\ wanted'[u][a] = IF <<u, a>> \in K THEN [wanted[u][a] EXCEPT !.read = TRUE] ELSE wanted[u][a]
    BY <1>1 DEF SetAllRead, WriteRows, Want, TypeOK
  <1>5. \A u \in Users, a \in Articles :
           /\ wanted'[u][a] \in Status /\ wanted'[u][a].star = wanted[u][a].star
           /\ wanted'[u][a].read = IF <<u, a>> \in K THEN TRUE ELSE wanted[u][a].read
    <2>1. \A m \in Status : /\ [m EXCEPT !.read = TRUE] \in Status
                            /\ [m EXCEPT !.read = TRUE].star = m.star
                            /\ [m EXCEPT !.read = TRUE].read = TRUE
      BY DEF Status
    <2> SUFFICES ASSUME NEW u \in Users, NEW a \in Articles
                 PROVE  /\ wanted'[u][a] \in Status /\ wanted'[u][a].star = wanted[u][a].star
                        /\ wanted'[u][a].read = IF <<u, a>> \in K THEN TRUE ELSE wanted[u][a].read
      BY Zenon
    <2>2. CASE <<u, a>> \in K
      BY <1>4, <2>1, <2>2
    <2>3. CASE <<u, a>> \notin K
      BY <1>4, <2>3
    <2> QED
      BY <2>2, <2>3
  <1>6. status' \in [Users -> [Articles -> Status \cup {None}]]
    BY <1>1, <1>3, RowsType DEF SetAllRead
  <1>7. wanted' \in [Users -> [Articles -> Status]]
    <2>1. \A u \in Users, a \in Articles :
             (IF <<u, a>> \in K THEN [wanted[u][a] EXCEPT !.read = TRUE] ELSE wanted[u][a]) \in Status
      BY <1>4, <1>5, ZenonT(30)
    <2> QED
      BY <2>1 DEF SetAllRead, Want
  <1>8. /\ blurred' \subseteq Pairs /\ blurred \subseteq blurred'
        /\ \A u \in Users, a \in Articles :
              <<u, a>> \in K /\ wanted[u][a].star => <<u, a>> \in blurred'
    BY <1>1 DEF SetAllRead, TypeOK, Pairs
  <1>9. TypeOK'
    BY <1>1, <1>2, <1>6, <1>7, <1>8 DEF TypeOK
  <1>10. ASSUME NEW u \in Users, NEW a \in Articles, <<u, a>> \notin left'
         PROVE  /\ FeedOf[a] \in subs'[u]
                /\ ~env.datastore =>
                     /\ \/ <<u, a>> \notin left /\ (status[u][a] # None => status'[u][a] # None)
                        \/ status'[u][a] # None
                     /\ Shown(status'[u][a]).read = wanted'[u][a].read
                     /\ <<u, a>> \notin blurred' =>
                          /\ Shown(status'[u][a]).star = wanted'[u][a].star
                          /\ \/ <<u, a>> \notin left \cup blurred /\ wanted'[u][a].star = wanted[u][a].star
                             \/ <<u, a>> \notin Overtaken(r)
    <2>1. <<u, a>> \notin left /\ FeedOf[a] \in subs'[u]
      BY <1>1, <1>10 DEF Marks, KeptFeeds
    <2>2. ~env.datastore =>
             /\ Shown(status[u][a]).read = wanted[u][a].read
             /\ <<u, a>> \notin blurred => Shown(status[u][a]).star = wanted[u][a].star
      BY <1>1, <2>1 DEF Marks, NoLostUpdate
    <2>3. CASE <<u, a>> \in K
      <3>1. Shown(status'[u][a]) = Mark(TRUE, FALSE) /\ status'[u][a] # None
        BY <1>3, <1>4, <2>3 DEF Shown
      <3>2. wanted'[u][a].read = TRUE
        BY <1>5, <2>3
      <3>3. <<u, a>> \notin blurred' => wanted'[u][a].star = FALSE /\ <<u, a>> \notin blurred
        BY <1>4, <1>5, <1>8, <2>3, StatusFields
      <3> QED
        BY <1>3, <1>5, <2>1, <3>1, <3>2, <3>3
    <2>4. CASE <<u, a>> \notin K
      <3>1. status'[u][a] = status[u][a] /\ wanted'[u][a] = wanted[u][a]
        BY <1>4, <2>4
      <3> QED
        BY <1>8, <2>1, <2>2, <3>1
    <2> QED
      BY <2>3, <2>4
  <1>11. Marks'
    BY <1>1, <1>2, <1>10, MarksKept
  <1>12. GoneKnown'
    BY <1>1, EndGone
  <1> QED
    BY <1>9, <1>11, <1>12 DEF Inv

\* All rows of a user become read, on Datastore in a second step.
LEMMA MarkAllReadInv ==
  ASSUME Inv, NEW r \in Requests, MarkAllRead(r)
  PROVE  Inv'
PROOF
  <1> DEFINE q   == rq[r]
             all == OfUser(q.user, subs[q.user])
  <1>1. /\ TypeOK /\ Marks /\ GoneKnown /\ q \in Req /\ LocalsOK(q)
        /\ q.kind = "markAll" /\ q.pc \in {"read", "write"}
    BY DEF Inv, TypeOK, MarkAllRead
  <1>2. /\ q.user \in Users /\ q.seen \in Status \cup {None} /\ q.keys \in SUBSET Pairs
        /\ all \in SUBSET Pairs
    BY <1>1, ReqFields DEF LocalsOK, OfUser, Pairs
  <1>3. UNCHANGED <<env, subs, old, left, gone>>
    BY DEF MarkAllRead
  <1>4. CASE SetAllRead(r, all) \/ SetAllRead(r, q.keys)
    BY <1>2, <1>3, <1>4, SetAllReadInv
  <1>5. CASE /\ rq' = [rq EXCEPT ![r].pc = "write", ![r].keys = all]
             /\ UNCHANGED <<status, wanted, blurred>>
    <2>1. rq' = [rq EXCEPT ![r] = [@ EXCEPT !.pc = "write", !.seen = q.seen, !.keys = all]]
      BY <1>1, <1>5 DEF TypeOK, Req
    <2>2. LocalsOK([q EXCEPT !.pc = "write"])
      BY <1>1 DEF LocalsOK, Req
    <2>3. /\ rq' \in [Requests -> Req] /\ \A x \in Requests : x # r => rq'[x] = rq[x]
          /\ \A x \in Requests : LocalsOK(rq'[x])
          /\ rq'[r].pc = "write" /\ rq'[r].kind = q.kind
      <3> HIDE DEF all
      <3> QED
        BY <1>1, <1>2, <2>1, <2>2, Advance, ZenonT(30)
    <2>4. TypeOK'
      BY <1>1, <1>3, <1>5, <2>3 DEF TypeOK
    <2>5. Marks'
      BY <1>1, <1>3, <1>5, <2>3, SameMarks
    <2>6. GoneKnown'
      <3>1. rq'[r].kind # "cleanup" /\ Unsubscribed' = Unsubscribed
        BY <1>1, <1>3, <2>3 DEF Unsubscribed
      <3> QED
        BY <1>1, <1>3, <2>3, <3>1, GoneKept
    <2> QED
      BY <2>4, <2>5, <2>6 DEF Inv
  <1>6. CASE End(r) /\ UNCHANGED <<status, wanted, blurred>>
    BY <1>3, <1>6, JustEnds DEF hist
  <1> QED
    BY <1>4, <1>5, <1>6 DEF MarkAllRead

\* A feed is added; its rows are reset in the next step.
LEMMA SubscribeInv ==
  ASSUME Inv, NEW r \in Requests, Subscribe(r)
  PROVE  Inv'
PROOF
  <1> DEFINE q == rq[r]
  <1>1. /\ TypeOK /\ Marks /\ GoneKnown /\ q \in Req /\ LocalsOK(q)
        /\ q.pc = "write" /\ q.kind = "subscribe"
    BY DEF Inv, TypeOK, Subscribe
  <1>2. /\ q.user \in Users /\ q.feed \in Feeds
        /\ q.seen \in Status \cup {None} /\ q.keys \in SUBSET Pairs
    BY <1>1, ReqFields DEF LocalsOK
  <1>3. UNCHANGED <<env, status, old, hist>> /\ UNCHANGED <<wanted, left, blurred, gone>>
    BY DEF Subscribe, hist
  <1>4. CASE /\ subs' = [subs EXCEPT ![q.user] = @ \cup {q.feed}]
             /\ rq' = [rq EXCEPT ![r].pc = "reset"]
    <2>1. subs' \in [Users -> SUBSET Feeds] /\ \A u \in Users : subs[u] \subseteq subs'[u]
      BY <1>1, <1>2, <1>4 DEF TypeOK
    <2>2. rq' = [rq EXCEPT ![r] = [@ EXCEPT !.pc = "reset", !.seen = q.seen, !.keys = q.keys]]
      BY <1>1, <1>4 DEF TypeOK, Req
    <2>3. LocalsOK([q EXCEPT !.pc = "reset"])
      BY <1>1 DEF LocalsOK, Req
    <2>4. /\ rq' \in [Requests -> Req] /\ \A x \in Requests : x # r => rq'[x] = rq[x]
          /\ \A x \in Requests : LocalsOK(rq'[x])
          /\ rq'[r].pc = "reset" /\ rq'[r].kind = q.kind
      BY <1>1, <1>2, <2>2, <2>3, Advance, ZenonT(60)
    <2>5. TypeOK'
      BY <1>1, <1>3, <2>1, <2>4 DEF TypeOK
    <2>6. Marks'
      <3>1. \A u \in Users, a \in Articles :
              <<u, a>> \notin left =>
                 /\ FeedOf[a] \in subs'[u]
                 /\ ~env.datastore =>
                      /\ Shown(status[u][a]).read = wanted[u][a].read
                      /\ <<u, a>> \notin blurred => Shown(status[u][a]).star = wanted[u][a].star
        BY <1>1, <2>1 DEF Marks, KeptFeeds, NoLostUpdate
      <3> QED
        BY <1>1, <1>3, <2>4, <3>1, MarksKept
    <2>7. Unsubscribed' \subseteq Unsubscribed
      BY <2>1 DEF Unsubscribed, Pairs
    <2>8. GoneKnown'
      BY <1>1, <1>3, <2>4, <2>7, GoneKept
    <2> QED
      BY <2>5, <2>6, <2>8 DEF Inv
  <1>5. CASE End(r) /\ UNCHANGED subs
    BY <1>3, <1>5, JustEnds
  <1> QED
    BY <1>4, <1>5 DEF Subscribe

\* The rows of a re-added feed are reset, and so is what its user was promised.
LEMMA ResetStatusesInv ==
  ASSUME Inv, NEW r \in Requests, ResetStatuses(r)
  PROVE  Inv'
PROOF
  <1>1. TypeOK /\ Marks /\ GoneKnown /\ UNCHANGED <<env, subs, old, gone>> /\ End(r)
    BY DEF Inv, ResetStatuses
  <1>2. PICK K : /\ WriteRows(K, Unset)
                 /\ wanted' = [u \in Users |-> [a \in Articles |->
                                 IF <<u, a>> \in K THEN Unset ELSE wanted[u][a]]]
                 /\ left' = left \ (K \ Unsubscribed)
                 /\ blurred' = (blurred \ K) \cup (K \cap Overtaken(r))
    BY DEF ResetStatuses, Want
  <1>3. /\ rq' \in [Requests -> Req] /\ rq'[r].pc = "idle"
        /\ \A x \in Requests : x # r => rq'[x] = rq[x]
        /\ \A x \in Requests : LocalsOK(rq'[x])
    BY <1>1, EndMove, IdleType
  <1>4. /\ Unset \in Status /\ Unset # None /\ Shown(Unset) = Unset
    BY StatusFields DEF Shown
  <1>5. \A u \in Users, a \in Articles :
           /\ wanted[u][a] \in Status
           /\ status'[u][a] = IF <<u, a>> \in K THEN Unset ELSE status[u][a]
           /\ wanted'[u][a] = IF <<u, a>> \in K THEN Unset ELSE wanted[u][a]
    BY <1>1, <1>2 DEF WriteRows, TypeOK
  <1>6. status' \in [Users -> [Articles -> Status \cup {None}]]
    BY <1>1, <1>2, <1>4, RowsType
  <1>7. wanted' \in [Users -> [Articles -> Status]]
    BY <1>2, <1>4, <1>5
  <1>8. left' \subseteq Pairs /\ blurred' \subseteq Pairs
    BY <1>1, <1>2 DEF TypeOK, Overtaken
  <1>9. TypeOK'
    BY <1>1, <1>3, <1>6, <1>7, <1>8 DEF TypeOK
  <1>10. ASSUME NEW u \in Users, NEW a \in Articles, <<u, a>> \notin left'
         PROVE  /\ FeedOf[a] \in subs'[u]
                /\ ~env.datastore =>
                     /\ \/ <<u, a>> \notin left /\ (status[u][a] # None => status'[u][a] # None)
                        \/ status'[u][a] # None
                     /\ Shown(status'[u][a]).read = wanted'[u][a].read
                     /\ <<u, a>> \notin blurred' =>
                          /\ Shown(status'[u][a]).star = wanted'[u][a].star
                          /\ \/ <<u, a>> \notin left \cup blurred /\ wanted'[u][a].star = wanted[u][a].star
                             \/ <<u, a>> \notin Overtaken(r)
    <2>1. CASE <<u, a>> \in K
      <3>1. status'[u][a] = Unset /\ wanted'[u][a] = Unset
        BY <1>5, <2>1
      <3>2. FeedOf[a] \in subs[u]
        <4>1. <<u, a>> \in Pairs
          BY DEF Pairs
        <4>2. CASE <<u, a>> \in left
          BY <1>2, <1>10, <2>1, <4>1, <4>2 DEF Unsubscribed
        <4>3. CASE <<u, a>> \notin left
          BY <1>1, <4>3 DEF Marks, KeptFeeds
        <4> QED
          BY <4>2, <4>3
      <3>3. <<u, a>> \notin blurred' => <<u, a>> \notin Overtaken(r)
        BY <1>2, <2>1
      <3> QED
        BY <1>1, <1>4, <3>1, <3>2, <3>3
    <2>2. CASE <<u, a>> \notin K
      <3>1. /\ status'[u][a] = status[u][a] /\ wanted'[u][a] = wanted[u][a]
            /\ <<u, a>> \notin left /\ (<<u, a>> \notin blurred' => <<u, a>> \notin blurred)
        BY <1>2, <1>5, <1>10, <2>2
      <3>2. /\ FeedOf[a] \in subs[u]
            /\ ~env.datastore =>
                 /\ Shown(status[u][a]).read = wanted[u][a].read
                 /\ <<u, a>> \notin blurred => Shown(status[u][a]).star = wanted[u][a].star
        BY <1>1, <3>1 DEF Marks, KeptFeeds, NoLostUpdate
      <3> QED
        BY <1>1, <3>1, <3>2
    <2> QED
      BY <2>1, <2>2
  <1>11. Marks'
    BY <1>1, <1>3, <1>10, MarksKept
  <1>12. GoneKnown'
    BY <1>1, EndGone
  <1> QED
    BY <1>9, <1>11, <1>12 DEF Inv

\* A feed is removed; its rows stay, and the cleanups in progress may take them.
LEMMA UnsubscribeInv ==
  ASSUME Inv, NEW r \in Requests, Unsubscribe(r)
  PROVE  Inv'
PROOF
  <1> DEFINE q == rq[r]
             K == OfUser(q.user, {q.feed})
  <1>1. /\ TypeOK /\ Marks /\ GoneKnown /\ q \in Req /\ LocalsOK(q)
        /\ q.pc = "write" /\ q.kind = "unsubscribe"
        /\ UNCHANGED <<env, status, old, wanted, blurred>> /\ End(r)
    BY DEF Inv, TypeOK, Unsubscribe
  <1>2. q.user \in Users /\ q.feed \in Feeds /\ K \in SUBSET Pairs
    BY <1>1, ReqFields DEF LocalsOK, OfUser, Pairs
  <1>3. CASE UNCHANGED <<subs, left, gone>>
    BY <1>1, <1>3, JustEnds DEF hist
  <1>4. CASE /\ subs' = [subs EXCEPT ![q.user] = @ \ {q.feed}]
             /\ left' = left \cup K
             /\ gone' = [x \in Requests |-> IF rq[x].kind = "cleanup" THEN gone[x] \cup K ELSE gone[x]]
    <2>1. /\ rq' \in [Requests -> Req] /\ rq'[r].pc = "idle" /\ rq'[r].kind = "mark"
          /\ \A x \in Requests : x # r => rq'[x] = rq[x]
          /\ \A x \in Requests : LocalsOK(rq'[x])
      BY <1>1, EndMove, IdleType
    <2>2. /\ subs' \in [Users -> SUBSET Feeds]
          /\ \A u \in Users, f \in Feeds : f \in subs[u] /\ ~(u = q.user /\ f = q.feed) => f \in subs'[u]
      BY <1>1, <1>2, <1>4 DEF TypeOK
    <2>3. \A u \in Users, a \in Articles : u = q.user /\ FeedOf[a] = q.feed => <<u, a>> \in K
      BY DEF OfUser
    <2> HIDE DEF K
    <2>4. gone' \in [Requests -> SUBSET Pairs] /\ left' \subseteq Pairs
      BY <1>1, <1>2, <1>4 DEF TypeOK
    <2>5. TypeOK'
      BY <1>1, <2>1, <2>2, <2>4 DEF TypeOK
    <2>6. Marks'
      <3>1. ASSUME NEW u \in Users, NEW a \in Articles, <<u, a>> \notin left'
            PROVE  /\ FeedOf[a] \in subs'[u] /\ <<u, a>> \notin left
                   /\ ~env.datastore =>
                        /\ Shown(status[u][a]).read = wanted[u][a].read
                        /\ <<u, a>> \notin blurred => Shown(status[u][a]).star = wanted[u][a].star
        <4>1. <<u, a>> \notin left /\ ~(u = q.user /\ FeedOf[a] = q.feed)
          BY <1>4, <2>3, <3>1
        <4>2. FeedOf[a] \in subs[u]
          BY <1>1, <4>1 DEF Marks, KeptFeeds
        <4>3. FeedOf[a] \in subs'[u]
          BY <2>2, <4>1, <4>2
        <4> QED
          BY <1>1, <4>1, <4>3 DEF Marks, NoLostUpdate
      <3> QED
        BY <1>1, <2>1, <3>1, MarksKept
    <2>7. Unsubscribed' \subseteq Unsubscribed \cup K
      <3> SUFFICES ASSUME NEW u \in Users, NEW a \in Articles, FeedOf[a] \notin subs'[u], <<u, a>> \notin K
                   PROVE  FeedOf[a] \notin subs[u]
        BY DEF Unsubscribed, Pairs
      <3> QED
        BY <2>2, <2>3
    <2>8. GoneKnown'
      <3> SUFFICES ASSUME NEW x \in Requests, rq'[x].kind = "cleanup"
                   PROVE  /\ Unsubscribed' \subseteq gone'[x]
                          /\ rq'[x].pc = "delete" /\ ~env'.faults
                               => \A p \in rq'[x].keys : p \in gone'[x] /\ p[2] \in old'
        BY DEF GoneKnown
      <3>1. rq'[x] = rq[x] /\ gone'[x] = gone[x] \cup K
        BY <1>4, <2>1
      <3>2. /\ Unsubscribed \subseteq gone[x]
            /\ rq[x].pc = "delete" /\ ~env.faults
                 => \A p \in rq[x].keys : p \in gone[x] /\ p[2] \in old
        BY <1>1, <3>1 DEF GoneKnown
      <3> QED
        BY <1>1, <2>7, <3>1, <3>2
    <2> QED
      BY <2>5, <2>6, <2>8 DEF Inv
  <1> QED
    BY <1>3, <1>4 DEF Unsubscribe

-----------------------------------------------------------------------------
(* The cleanup.                                                              *)

\* Rows are deleted: on SQLite those of feeds the user does not have.
LEMMA DeleteRowsInv ==
  ASSUME Inv, NEW r \in Requests, NEW K, DeleteRows(K), End(r),
         ~env.datastore => K \subseteq Unsubscribed,
         UNCHANGED <<env, subs, old, left, blurred, gone>>
  PROVE  Inv'
PROOF
  <1>1. TypeOK /\ Marks /\ GoneKnown
    BY DEF Inv
  <1>2. /\ rq' \in [Requests -> Req] /\ rq'[r].pc = "idle"
        /\ \A x \in Requests : x # r => rq'[x] = rq[x]
        /\ \A x \in Requests : LocalsOK(rq'[x])
    BY <1>1, EndMove, IdleType
  <1>3. status' \in [Users -> [Articles -> Status \cup {None}]]
    BY <1>1, RowsType DEF DeleteRows
  <1>4. wanted' \in [Users -> [Articles -> Status]]
    <2>1. wanted' = [u \in Users |-> [a \in Articles |->
                       IF <<u, a>> \in K \cap Unsubscribed THEN Unset ELSE wanted[u][a]]]
      BY DEF DeleteRows, Want
    <2>2. \A u \in Users, a \in Articles : wanted[u][a] \in Status
      BY <1>1 DEF TypeOK
    <2>3. Unset \in Status
      BY StatusFields
    <2> HIDE DEF Unsubscribed
    <2> QED
      BY <2>1, <2>2, <2>3
  <1>5. TypeOK'
    BY <1>1, <1>2, <1>3, <1>4 DEF TypeOK
  <1>6. ASSUME NEW u \in Users, NEW a \in Articles, <<u, a>> \notin left
        PROVE  /\ FeedOf[a] \in subs[u] /\ <<u, a>> \notin Unsubscribed
               /\ ~env.datastore => /\ status'[u][a] = status[u][a] /\ wanted'[u][a] = wanted[u][a]
                                    /\ Shown(status[u][a]).read = wanted[u][a].read
                                    /\ <<u, a>> \notin blurred => Shown(status[u][a]).star = wanted[u][a].star
    <2>1. FeedOf[a] \in subs[u] /\ <<u, a>> \notin Unsubscribed
      BY <1>1, <1>6 DEF Marks, KeptFeeds, Unsubscribed
    <2>2. ~env.datastore => status'[u][a] = status[u][a] /\ wanted'[u][a] = wanted[u][a]
      <3> HIDE DEF Unsubscribed
      <3> QED
        BY <2>1 DEF DeleteRows, WriteRows, Want
    <2> QED
      BY <1>1, <1>6, <2>1, <2>2 DEF Marks, NoLostUpdate
  <1>7. Marks'
    BY <1>1, <1>2, <1>6, MarksKept
  <1>8. GoneKnown'
    BY <1>1, EndGone
  <1> QED
    BY <1>5, <1>7, <1>8 DEF Inv

\* The clean-up deletes on SQLite, or collects keys on Datastore.
LEMMA CleanupInv ==
  ASSUME Inv, NEW r \in Requests, Cleanup(r)
  PROVE  Inv'
PROOF
  <1> DEFINE q == rq[r]
  <1>1. /\ TypeOK /\ Marks /\ GoneKnown /\ q \in Req /\ LocalsOK(q)
        /\ q.pc = "scan" /\ q.kind = "cleanup"
    BY DEF Inv, TypeOK, Cleanup, LocalsOK
  <1>2. q.seen \in Status \cup {None}
    BY <1>1, ReqFields
  <1>3. UNCHANGED <<env, subs, old, left, blurred, gone>>
    BY DEF Cleanup
  <1>4. Orphans \subseteq Unsubscribed /\ Orphans \subseteq Pairs /\ \A p \in Orphans : p[2] \in old
    BY DEF Orphans, Orphan, Unsubscribed
  <1>5. CASE DeleteRows(Orphans) /\ End(r)
    BY <1>3, <1>4, <1>5, DeleteRowsInv
  <1>6. ASSUME env.datastore, NEW keys \in SUBSET Pairs,
               ~env.faults => \A p \in keys : p \in Unsubscribed /\ p[2] \in old,
               rq' = [rq EXCEPT ![r].pc = "delete", ![r].keys = keys], UNCHANGED <<status, wanted>>
        PROVE  Inv'
    <2>1. rq' = [rq EXCEPT ![r] = [@ EXCEPT !.pc = "delete", !.seen = q.seen, !.keys = keys]]
      BY <1>1, <1>6, ZenonT(60) DEF TypeOK, Req
    <2>2. LocalsOK([q EXCEPT !.pc = "delete"])
      BY <1>1 DEF LocalsOK, Req
    <2>3. /\ rq' \in [Requests -> Req] /\ \A x \in Requests : x # r => rq'[x] = rq[x]
          /\ \A x \in Requests : LocalsOK(rq'[x])
          /\ rq'[r].pc = "delete" /\ rq'[r].kind = q.kind /\ rq'[r].keys = keys
      BY <1>1, <1>2, <2>1, <2>2, Advance, ZenonT(60)
    <2>4. TypeOK'
      BY <1>1, <1>3, <1>6, <2>3 DEF TypeOK
    <2>5. Marks'
      BY <1>1, <1>3, <1>6, <2>3, SameMarks
    <2>6. Unsubscribed' = Unsubscribed
      BY <1>3 DEF Unsubscribed
    <2>7. GoneKnown'
      <3> SUFFICES ASSUME NEW x \in Requests, rq'[x].kind = "cleanup"
                   PROVE  /\ Unsubscribed \subseteq gone[x]
                          /\ rq'[x].pc = "delete" /\ ~env.faults
                               => \A p \in rq'[x].keys : p \in gone[x] /\ p[2] \in old
        BY <1>3, <2>6 DEF GoneKnown
      <3>1. CASE x = r
        <4>1. Unsubscribed \subseteq gone[r]
          BY <1>1 DEF GoneKnown
        <4> QED
          BY <1>6, <2>3, <3>1, <4>1
      <3>2. CASE x # r
        BY <1>1, <2>3, <3>2 DEF GoneKnown
      <3> QED
        BY <3>1, <3>2
    <2> QED
      BY <2>4, <2>5, <2>7 DEF Inv
  <1>7. ASSUME env.datastore, NEW L \in SUBSET Articles, env.faults \/ L = {},
               rq' = [rq EXCEPT ![r].pc = "delete",
                        ![r].keys = Orphans \cup {p \in Users \X L : status[p[1]][p[2]] # None}],
               UNCHANGED <<status, wanted>>
        PROVE  Inv'
    <2> DEFINE keys == Orphans \cup {p \in Users \X L : status[p[1]][p[2]] # None}
    <2>1. keys \in SUBSET Pairs
      BY <1>4 DEF Pairs
    <2>2. ~env.faults => \A p \in keys : p \in Unsubscribed /\ p[2] \in old
      <3>1. ASSUME NEW p \in keys, L = {}
            PROVE  p \in Orphans
        BY <3>1
      <3> QED
        BY <1>4, <1>7, <3>1, Zenon
    <2>3. rq' = [rq EXCEPT ![r].pc = "delete", ![r].keys = keys]
      BY <1>7
    <2> HIDE DEF keys
    <2> QED
      BY <1>6, <1>7, <2>1, <2>2, <2>3, Zenon
  <1> QED
    BY <1>5, <1>7 DEF Cleanup

\* Datastore deletes the keys it collected.
LEMMA CleanupDeleteInv ==
  ASSUME Inv, NEW r \in Requests, CleanupDelete(r)
  PROVE  Inv'
PROOF
  <1>1. env.datastore
    BY DEF Inv, Marks, DeletesLater, CleanupDelete
  <1> QED
    BY <1>1, DeleteRowsInv DEF CleanupDelete

\* The clean-up fails.
LEMMA CleanupFailsInv ==
  ASSUME Inv, NEW r \in Requests, CleanupFails(r)
  PROVE  Inv'
  BY JustEnds DEF CleanupFails

\* Articles grow old.
LEMMA WeekInv ==
  ASSUME Inv, Week
  PROVE  Inv'
PROOF
  <1>1. UNCHANGED <<env, subs, status, rq, wanted, left, blurred, gone>> /\ old' = Articles
    BY DEF Week, hist
  <1>2. TypeOK'
    BY <1>1 DEF Inv, TypeOK
  <1>3. Marks'
    BY <1>1 DEF Inv, Marks, DeletesLater, KeptFeeds, RowFound, SeenStar, NoLostUpdate, Shown
  <1>4. old \subseteq old' /\ Unsubscribed' = Unsubscribed
    BY <1>1 DEF Inv, TypeOK, Unsubscribed
  <1>5. GoneKnown'
    BY <1>1, <1>4 DEF Inv, GoneKnown
  <1> QED
    BY <1>2, <1>3, <1>5 DEF Inv

-----------------------------------------------------------------------------
(* The theorems.                                                             *)

\* The invariant holds initially.
LEMMA InitInv ==
  ASSUME Init
  PROVE  Inv
PROOF
  <1>1. TypeOK
    BY IdleType, StatusFields DEF Init, TypeOK
  <1>2. DeletesLater /\ KeptFeeds /\ RowFound /\ SeenStar /\ GoneKnown
    BY IdleType DEF Init, DeletesLater, KeptFeeds, RowFound, SeenStar, GoneKnown
  <1>3. NoLostUpdate
    BY DEF Init, NoLostUpdate, Shown
  <1> QED
    BY <1>1, <1>2, <1>3 DEF Inv, Marks

\* Every step keeps the invariant.
LEMMA NextInv ==
  ASSUME Inv, [Next]_vars
  PROVE  Inv'
PROOF
  <1>1. ASSUME NEW r \in env.requests, NEW k \in env.kinds, NEW u \in env.users,
               NEW a \in Articles, NEW f \in Feeds, NEW b \in BOOLEAN, Begin(r, k, u, a, f, b)
        PROVE  Inv'
    BY <1>1, BeginInv
  <1>2. ASSUME NEW r \in Requests, Step(r)
        PROVE  Inv'
    BY <1>2, ReadStatusInv, WriteStatusInv, MarkAllReadInv, SubscribeInv, ResetStatusesInv,
       UnsubscribeInv, CleanupInv, CleanupDeleteInv, CleanupFailsInv DEF Step
  <1>3. CASE Week
    BY <1>3, WeekInv
  <1>4. CASE UNCHANGED vars
    BY <1>4 DEF vars, hist, Inv, TypeOK, Marks, DeletesLater, KeptFeeds, RowFound, SeenStar,
       NoLostUpdate, Shown, GoneKnown, Unsubscribed
  <1> QED
    BY <1>1, <1>2, <1>3, <1>4 DEF Next

\* Requests and rows keep their types, and a request in flight has the user, the
\* article or the feed that its next step reads.
THEOREM TypeCorrect == Spec => []TypeOK
PROOF
  <1>1. Inv => TypeOK
    BY DEF Inv
  <1> QED
    BY <1>1, InitInv, NextInv, PTL DEF Spec

\* On SQLite, whatever the interleaving of marks, stars, marks of all articles, feeds left
\* and re-added and cleanups, the rows of the feeds a user has kept show what was asked
\* for: the last read mark, and the sum of the toggles where no toggle was overtaken and
\* no mark-all met a star.
THEOREM NoLostUpdateHolds == Spec => []NoLostUpdate
PROOF
  <1>1. Inv => NoLostUpdate
    BY DEF Inv, Marks
  <1> QED
    BY <1>1, InitInv, NextInv, PTL DEF Spec

\* Only a cleanup removes rows, and it knows the feed as one its user has lacked since it
\* began: every other step writes rows or leaves them.
LEMMA Spares ==
  ASSUME Inv, Next, ~env.faults, NEW u \in Users, NEW a \in Articles,
         status[u][a] # None, status'[u][a] = None
  PROVE  a \in old /\ \E r \in Requests : rq[r].kind = "cleanup" /\ <<u, a>> \in gone[r]
PROOF
  <1>1. TypeOK /\ GoneKnown
    BY DEF Inv
  <1>2. ASSUME NEW K, NEW m \in Status, WriteRows(K, m)
        PROVE  FALSE
    <2>1. status'[u][a] = IF <<u, a>> \in K THEN m ELSE status[u][a]
      BY <1>2 DEF WriteRows
    <2> QED
      BY <2>1, StatusFields
  <1>3. ASSUME NEW K, DeleteRows(K)
        PROVE  <<u, a>> \in K
    BY <1>3 DEF DeleteRows, WriteRows
  <1>4. CASE status' = status
    BY <1>4
  <1>5. PICK r \in Requests : Step(r)
    BY <1>4 DEF Next, Begin, Week
  <1>6. CASE ReadStatus(r) \/ Subscribe(r) \/ Unsubscribe(r) \/ CleanupFails(r)
    BY <1>4, <1>6 DEF ReadStatus, Subscribe, Unsubscribe, CleanupFails
  <1>7. CASE WriteStatus(r)
    <2> DEFINE q   == rq[r]
               cur == status[q.user][q.art]
               new == IF env.datastore THEN DatastoreRow(q) ELSE SqliteRow(q, cur)
    <2>1. q \in Req /\ LocalsOK(q) /\ q.pc = "write" /\ q.kind \in {"mark", "star"}
      BY <1>1, <1>7 DEF TypeOK, WriteStatus
    <2>2. q.user \in Users /\ q.art \in Articles
      BY <2>1, ReqFields DEF LocalsOK
    <2>3. cur \in Status \cup {None} /\ wanted[q.user][q.art] \in Status
      BY <1>1, <2>2 DEF TypeOK
    <2>4. cur # None => new # None
      <3>1. DatastoreRow(q) \in Status /\ (cur # None => SqliteRow(q, cur) # None)
        BY <2>1, <2>3, RowType
      <3>2. \A m \in Status : m # None
        BY StatusFields
      <3> HIDE DEF q, cur
      <3> QED
        BY <3>1, <3>2
    <2>5. WriteRows({<<q.user, q.art>>}, new)
      BY <1>4, <1>7 DEF WriteStatus
    <2>6. status'[u][a] = IF u = q.user /\ a = q.art THEN new ELSE status[u][a]
      BY <2>5 DEF WriteRows
    <2> HIDE DEF new
    <2> QED
      BY <2>4, <2>6
  <1>8. CASE MarkAllRead(r)
    <2>1. Mark(TRUE, FALSE) \in Status
      BY StatusFields
    <2> QED
      BY <1>2, <1>4, <1>8, <2>1 DEF MarkAllRead, SetAllRead
  <1>9. CASE ResetStatuses(r)
    BY <1>2, <1>9, StatusFields DEF ResetStatuses
  <1>10. CASE Cleanup(r)
    <2>1. DeleteRows(Orphans) /\ rq[r].pc = "scan"
      BY <1>4, <1>10 DEF Cleanup
    <2>2. <<u, a>> \in Orphans
      BY <1>3, <2>1
    <2>3. a \in old /\ <<u, a>> \in Unsubscribed
      BY <2>2 DEF Orphans, Orphan, Unsubscribed
    <2>4. rq[r].kind = "cleanup"
      BY <1>1, <2>1 DEF TypeOK, LocalsOK
    <2>5. Unsubscribed \subseteq gone[r]
      BY <1>1, <2>4 DEF GoneKnown
    <2> QED
      BY <2>3, <2>4, <2>5
  <1>11. CASE CleanupDelete(r)
    <2>1. DeleteRows(rq[r].keys) /\ rq[r].pc = "delete"
      BY <1>11 DEF CleanupDelete
    <2>2. <<u, a>> \in rq[r].keys
      BY <1>3, <2>1
    <2>3. rq[r].kind = "cleanup"
      BY <1>1, <2>1 DEF TypeOK, LocalsOK
    <2>4. <<u, a>> \in gone[r] /\ <<u, a>>[2] \in old
      BY <1>1, <2>1, <2>2, <2>3 DEF GoneKnown
    <2> QED
      BY <2>3, <2>4
  <1> QED
    BY <1>5, <1>6, <1>7, <1>8, <1>9, <1>10, <1>11 DEF Step

\* On both backends, while articles load, a row goes away only for an old article, and
\* only by a cleanup during which its user has been without the feed.
THEOREM CleanupSparesHolds == Spec => CleanupSpares
PROOF
  <1>1. Inv /\ [Next]_vars
          => [\A u \in Users, a \in Articles :
                ~env.faults /\ status[u][a] # None /\ status'[u][a] = None
                  => /\ a \in old
                     /\ \E r \in Requests : rq[r].kind = "cleanup" /\ <<u, a>> \in gone[r]]_vars
    BY Spares DEF vars
  <1> QED
    BY <1>1, InitInv, NextInv, PTL DEF Spec, CleanupSpares
=============================================================================
