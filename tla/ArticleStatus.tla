---------------------------- MODULE ArticleStatus ----------------------------
(***************************************************************************)
(* The read and star marks of articles (user_articles), the subscriptions  *)
(* they depend on (user_feeds), and the cleanup of the marks of feeds a    *)
(* user has left.                                                          *)
(*                                                                         *)
(* Neither backend wraps the read and the write of an operation in a       *)
(* transaction.  SQLite writes the one column it means to change; Datastore*)
(* puts back the whole entity.                                             *)
(***************************************************************************)
EXTENDS Naturals

CONSTANTS
    Users, Feeds, Articles, Requests,
    FeedOf,     \* the feed of an article
    Envs,       \* the deployments and workloads considered
    None

ASSUME FeedOfAssumption == FeedOf \in [Articles -> Feeds]

AllKinds == {"mark", "star", "markAll", "subscribe", "unsubscribe", "cleanup"}
\* The backend InitDB opened, the workload (the kinds of request, how many at a time,
\* and the users they come from), and whether single articles may fail to load.
Env == [datastore: BOOLEAN, kinds: SUBSET AllKinds, requests: SUBSET Requests,
        users: SUBSET Users, faults: BOOLEAN]

ASSUME EnvsAssumption == Envs \subseteq Env

Status == [read: BOOLEAN, star: BOOLEAN]
Unset  == [read |-> FALSE, star |-> FALSE]
Mark(read, star) == [read |-> read, star |-> star]
Pairs  == Users \X Articles

ASSUME NoneIsNoStatus == None \notin Status \cup Users \cup Feeds \cup Articles

VARIABLES
    env,      \* chosen when the server starts
    subs,     \* user_feeds
    status,   \* user_articles: a row or none
    old,      \* the articles created more than seven days ago
    rq,       \* the requests in flight
    wanted,   \* history: what the users asked for in the requests that were acknowledged
    left,     \* history: the rows of feeds the user has left since they were last reset
    blurred,  \* history: the rows whose star a known race or a mark-all may have lost
    gone      \* history: the rows of feeds a user has not had since a cleanup began

hist == <<wanted, left, blurred, gone>>
vars == <<env, subs, status, old, rq, hist>>

\* The local variables of a request; "seen" is the row it read, "keys" the rows
\* it is about to write or delete.
Req == [pc: {"idle", "read", "write", "reset", "scan", "delete"},
        kind: AllKinds,
        user: Users \cup {None}, art: Articles \cup {None}, feed: Feeds \cup {None},
        is: BOOLEAN, seen: Status \cup {None}, keys: SUBSET Pairs]

Request(pc, kind, u, a, f, is) ==
    [pc |-> pc, kind |-> kind, user |-> u, art |-> a, feed |-> f, is |-> is,
     seen |-> None, keys |-> {}]

Idle == Request("idle", "mark", None, None, None, FALSE)

\* What the next step of a request reads: the user, the article or the feed.
LocalsOK(q) ==
    /\ q.pc # "idle" /\ q.kind # "cleanup" => q.user # None
    /\ q.pc \in {"read", "write"} /\ q.kind \in {"mark", "star"} => q.art # None
    /\ q.pc \in {"write", "reset"} /\ q.kind \in {"subscribe", "unsubscribe"} => q.feed # None
    /\ q.pc = "reset" => q.kind = "subscribe"
    /\ q.pc \in {"scan", "delete"} <=> q.kind = "cleanup"

TypeOK ==
    /\ env \in Envs
    /\ subs \in [Users -> SUBSET Feeds]
    /\ status \in [Users -> [Articles -> Status \cup {None}]]
    /\ old \subseteq Articles
    /\ rq \in [Requests -> Req]
    /\ \A r \in Requests : LocalsOK(rq[r])
    /\ wanted \in [Users -> [Articles -> Status]]
    /\ left \subseteq Pairs /\ blurred \subseteq Pairs
    /\ gone \in [Requests -> SUBSET Pairs]

\* A database in which the user has subscribed to everything and marked nothing.
Init ==
    /\ env \in Envs
    /\ subs = [u \in Users |-> Feeds]
    /\ status = [u \in Users |-> [a \in Articles |-> None]]
    /\ old \in SUBSET Articles
    /\ rq = [r \in Requests |-> Idle]
    /\ wanted = [u \in Users |-> [a \in Articles |-> Unset]]
    /\ left = {} /\ blurred = {}
    /\ gone = [r \in Requests |-> {}]

End(r)   == rq' = [rq EXCEPT ![r] = Idle]
OfUser(u, F) == {u} \X {a \in Articles : FeedOf[a] \in F}
\* The rows in K become m.
WriteRows(K, m) ==
    status' = [u \in Users |-> [a \in Articles |-> IF <<u, a>> \in K THEN m ELSE status[u][a]]]
\* What the users want of the rows in K from now on.
Want(K, F(_)) ==
    wanted' = [u \in Users |-> [a \in Articles |-> IF <<u, a>> \in K THEN F(wanted[u][a])
                                                                   ELSE wanted[u][a]]]

\* The rows whose star another request has read and is about to write.
Overtaken(r) ==
    {p \in Pairs : \E x \in Requests \ {r} :
                     rq[x].pc = "write" /\ rq[x].kind = "star" /\ <<rq[x].user, rq[x].art>> = p}
\* The rows of feeds the user does not have.
Unsubscribed == {p \in Pairs : FeedOf[p[2]] \notin subs[p[1]]}

\* An article shown to the user; a request of one of the kinds arrives.
Begin(r, kind, u, a, f, is) ==
    /\ rq[r].pc = "idle"
    /\ rq' = [rq EXCEPT ![r] =
                CASE kind \in {"mark", "star"} -> Request("read", kind, u, a, None, is)
                  [] kind = "markAll"          -> Request("read", kind, u, None, None, FALSE)
                  [] kind = "cleanup"          -> Request("scan", kind, None, None, None, FALSE)
                  [] OTHER                     -> Request("write", kind, u, None, f, FALSE)]
    /\ gone' = [gone EXCEPT ![r] = IF kind = "cleanup" THEN Unsubscribed ELSE {}]
    /\ UNCHANGED <<env, subs, status, old, wanted, left, blurred>>

-----------------------------------------------------------------------------
(* MarkUserArticleRead and ToggleUserArticleStar: read the row, write it.    *)

\* The SELECT, or GetUserArticleStatus.  SQLite gives up on an error; Datastore
\* goes on as if there were no entity.
ReadStatus(r) ==
    LET q == rq[r]
    IN  /\ q.pc = "read" /\ q.kind \in {"mark", "star"}
        /\ \/ rq' = [rq EXCEPT ![r].pc = "write", ![r].seen = status[q.user][q.art]]
           \/ env.datastore /\ rq' = [rq EXCEPT ![r].pc = "write"]
           \/ ~env.datastore /\ End(r)
        /\ UNCHANGED <<env, subs, status, old, hist>>

\* The row after SQLite's INSERT or UPDATE: an INSERT finds no row or fails, an
\* UPDATE finds a row or changes nothing.
SqliteRow(q, cur) ==
    CASE q.seen = None /\ cur = None -> Mark(q.kind = "mark" /\ q.is, q.kind = "star")
      [] q.seen # None /\ cur # None -> IF q.kind = "mark" THEN [cur EXCEPT !.read = q.is]
                                          ELSE [cur EXCEPT !.star = ~q.seen.star]
      [] OTHER -> cur

\* The entity Datastore puts.
DatastoreRow(q) ==
    LET seen == IF q.seen = None THEN Unset ELSE q.seen
    IN  IF q.kind = "mark" THEN Mark(q.is, seen.star) ELSE Mark(seen.read, ~seen.star)

\* What the user asks for: the article read or unread, or the star the other way
\* round than it was asked for before.
Asked(q, w) == IF q.kind = "mark" THEN [w EXCEPT !.read = q.is] ELSE [w EXCEPT !.star = ~@]

\* Mutant of WriteStatus: INSERT OR REPLACE for a row that is there already.
WriteReplace(r) ==
    LET q == rq[r]
        G(w) == Asked(q, w)
    IN  /\ q.pc = "write" /\ q.kind \in {"mark", "star"}
        /\ WriteRows({<<q.user, q.art>>}, Mark(q.kind = "mark" /\ q.is, q.kind = "star"))
        /\ Want({<<q.user, q.art>>}, G)
        /\ End(r)
        /\ UNCHANGED <<env, subs, old, left, blurred, gone>>

\* Mutant of WriteStatus: the INSERT of a mark leaves is_starred NULL.
WriteNull(r) ==
    LET q == rq[r]
    IN  /\ q.pc = "write" /\ q.kind \in {"mark", "star"}
        /\ WriteRows({<<q.user, q.art>>}, Mark(q.kind = "mark" /\ q.is, None))
        /\ End(r)
        /\ UNCHANGED <<env, subs, old, hist>>

\* A star written while another request has read it as well: one of the two toggles
\* will be lost.
WriteStatus(r) ==
    LET q    == rq[r]
        key  == {<<q.user, q.art>>}
        cur  == status[q.user][q.art]
        G(w) == Asked(q, w)
    IN  /\ q.pc = "write" /\ q.kind \in {"mark", "star"}
        /\ \/ /\ env.datastore \/ q.seen # None \/ cur = None
              /\ WriteRows(key, IF env.datastore THEN DatastoreRow(q) ELSE SqliteRow(q, cur))
              /\ Want(key, G)
              /\ blurred' = IF q.kind = "star" THEN blurred \cup (key \cap Overtaken(r)) ELSE blurred
           \/ UNCHANGED <<status, wanted, blurred>>     \* the write fails
        /\ End(r)
        /\ UNCHANGED <<env, subs, old, left, gone>>

-----------------------------------------------------------------------------
(* The operations on many rows.                                              *)

\* MarkAllUserArticlesRead.  SQLite replaces the rows in one statement; Datastore
\* first collects the articles of the user's feeds.  The user asked for nothing but
\* "read"; the rows are written without their stars.
SetAllRead(r, K) ==
    LET G(w) == [w EXCEPT !.read = TRUE]
    IN  /\ WriteRows(K, Mark(TRUE, FALSE))
        /\ Want(K, G)
        /\ blurred' = blurred \cup {p \in K : wanted[p[1]][p[2]].star}
        /\ End(r)

MarkAllRead(r) ==
    LET q     == rq[r]
        all   == OfUser(q.user, subs[q.user])
    IN  /\ q.kind = "markAll"
        /\ \/ /\ q.pc = "read" /\ env.datastore
              /\ rq' = [rq EXCEPT ![r].pc = "write", ![r].keys = all]
              /\ UNCHANGED <<status, wanted, blurred>>
           \/ q.pc = "read" /\ ~env.datastore /\ SetAllRead(r, all)
           \/ q.pc = "write" /\ SetAllRead(r, q.keys)
           \/ q.pc \in {"read", "write"} /\ End(r) /\ UNCHANGED <<status, wanted, blurred>>
        /\ UNCHANGED <<env, subs, old, left, gone>>

\* SubscribeUserToFeed, also for a feed the user has already.
Subscribe(r) ==
    LET q == rq[r]
    IN  /\ q.pc = "write" /\ q.kind = "subscribe"
        /\ \/ /\ subs' = [subs EXCEPT ![q.user] = @ \cup {q.feed}]
              /\ rq' = [rq EXCEPT ![r].pc = "reset"]
           \/ End(r) /\ UNCHANGED subs
        /\ UNCHANGED <<env, status, old, hist>>

\* markExistingArticlesAsUnreadForUser: the feed's articles, or the newest of them
\* up to the user's limit, become unread and unstarred; an error is only logged.
ResetStatuses(r) ==
    LET q     == rq[r]
        G(w)  == Unset
    IN  /\ q.pc = "reset"
        /\ \E K \in SUBSET OfUser(q.user, {q.feed}) :
             /\ WriteRows(K, Unset) /\ Want(K, G)
             /\ left' = left \ (K \ Unsubscribed)
             /\ blurred' = (blurred \ K) \cup (K \cap Overtaken(r))
        /\ End(r)
        /\ UNCHANGED <<env, subs, old, gone>>

\* UnsubscribeUserFromFeed leaves the marks to the cleanup.
Unsubscribe(r) ==
    LET q == rq[r]
        K == OfUser(q.user, {q.feed})
    IN  /\ q.pc = "write" /\ q.kind = "unsubscribe"
        /\ \/ /\ subs' = [subs EXCEPT ![q.user] = @ \ {q.feed}]
              /\ left' = left \cup K
              /\ gone' = [x \in Requests |-> IF rq[x].kind = "cleanup" THEN gone[x] \cup K ELSE gone[x]]
           \/ UNCHANGED <<subs, left, gone>>
        /\ End(r)
        /\ UNCHANGED <<env, status, old, wanted, blurred>>

-----------------------------------------------------------------------------
(* CleanupOrphanedUserArticles(7).                                           *)

\* A row of a feed the user has left, for an article created over seven days ago.
Orphan(u, a) == status[u][a] # None /\ FeedOf[a] \notin subs[u] /\ a \in old
Orphans      == {p \in Pairs : Orphan(p[1], p[2])}

DeleteRows(K) ==
    LET G(w) == Unset
    IN  WriteRows(K, None) /\ Want(K \cap Unsubscribed, G)

\* Mutant of Cleanup: the join with user_feeds forgets the user.
CleanupAnyUser(r) ==
    /\ rq[r].pc = "scan"
    /\ DeleteRows({p \in Pairs : status[p[1]][p[2]] # None /\ p[2] \in old
                                   /\ \E u \in Users : FeedOf[p[2]] \notin subs[u]})
    /\ End(r)
    /\ UNCHANGED <<env, subs, old, left, blurred, gone>>

\* Mutant of Cleanup: the age test is the wrong way round.
CleanupRecent(r) ==
    /\ rq[r].pc = "scan"
    /\ DeleteRows({p \in Pairs : FeedOf[p[2]] \notin subs[p[1]] /\ p[2] \notin old})
    /\ End(r)
    /\ UNCHANGED <<env, subs, old, left, blurred, gone>>

\* SQLite deletes in one statement.  Datastore reads a page of keys, the articles
\* and the subscriptions, and deletes keys in a later call: the orphaned ones, and
\* those of the articles L that fail to load.
Cleanup(r) ==
    /\ rq[r].pc = "scan"
    /\ \/ ~env.datastore /\ DeleteRows(Orphans) /\ End(r)
       \/ /\ env.datastore
          /\ \E L \in SUBSET Articles :
               /\ env.faults \/ L = {}
               /\ rq' = [rq EXCEPT ![r].pc = "delete",
                          ![r].keys = Orphans \cup {p \in Users \X L : status[p[1]][p[2]] # None}]
          /\ UNCHANGED <<status, wanted>>
    /\ UNCHANGED <<env, subs, old, left, blurred, gone>>

CleanupDelete(r) ==
    /\ rq[r].pc = "delete"
    /\ DeleteRows(rq[r].keys)
    /\ End(r)
    /\ UNCHANGED <<env, subs, old, left, blurred, gone>>

\* An error ends the cleanup, or a subscription cannot be read and its row is left
\* alone; cron starts it again the next day.
CleanupFails(r) ==
    /\ rq[r].pc \in {"scan", "delete"}
    /\ End(r)
    /\ UNCHANGED <<env, subs, status, old, hist>>

\* Seven days pass.
Week ==
    /\ old' = Articles
    /\ \A r \in Requests : rq[r].pc = "idle"
    /\ UNCHANGED <<env, subs, status, rq, hist>>

Step(r) ==
    \/ ReadStatus(r) \/ WriteStatus(r) \/ MarkAllRead(r)
    \/ Subscribe(r) \/ ResetStatuses(r) \/ Unsubscribe(r)
    \/ Cleanup(r) \/ CleanupDelete(r) \/ CleanupFails(r)

Next ==
    \/ \E r \in env.requests, k \in env.kinds, u \in env.users, a \in Articles, f \in Feeds, b \in BOOLEAN :
          Begin(r, k, u, a, f, b)
    \/ \E r \in Requests : Step(r)
    \/ Week

Spec == Init /\ [][Next]_vars

\* Requests run to their end, cron starts a cleanup again and again, and not every
\* cleanup fails.
FairSpec ==
    /\ Spec
    /\ \A r \in Requests : WF_vars(Step(r))
    /\ SF_vars(\E r \in env.requests, k \in env.kinds \cap {"cleanup"}, u \in env.users,
                  a \in Articles, f \in Feeds : Begin(r, k, u, a, f, FALSE))
    /\ SF_vars(\E r \in Requests : Cleanup(r))
    /\ SF_vars(\E r \in Requests : CleanupDelete(r))

-----------------------------------------------------------------------------
(* Correctness.                                                              *)

\* What a row, or none, shows the user.
Shown(m) == IF m = None THEN Unset ELSE m

\* On SQLite, of requests and cleanups at the same time none undoes what another one was
\* asked for and acknowledged (MarkUserArticleRead, ToggleUserArticleStar,
\* MarkAllUserArticlesRead, BatchSetUserArticleStatus, CleanupOrphanedUserArticles): in
\* the feeds a user has kept, read marks are what the last request made them, and stars
\* are what the toggles since the feed was added amount to.  Stars have two exceptions,
\* both in the code: a toggle whose star is written between its SELECT and its UPDATE
\* undoes that write (blurred by WriteStatus and ResetStatuses), and mark-all erases
\* the stars it meets (StarsKept).  A feed that is left and taken back is excepted until
\* its marks are reset: a cleanup may delete the row a waiting UPDATE has seen.
NoLostUpdate ==
    ~env.datastore
      => \A u \in Users, a \in Articles :
           <<u, a>> \notin left
             => /\ Shown(status[u][a]).read = wanted[u][a].read
                /\ <<u, a>> \notin blurred => Shown(status[u][a]).star = wanted[u][a].star

Starred(u, a) == status[u][a] # None /\ status[u][a].star

\* docs/features.md: "Use stars to bookmark articles for later reference".  While the
\* user has the feed, only a star or a re-added feed takes the star of an article.
StarsKept ==
    [][\A u \in Users, a \in Articles :
         FeedOf[a] \in subs[u] /\ Starred(u, a) /\ ~Starred(u, a)'
           => \E r \in Requests : rq[r].kind \in {"star", "subscribe"} /\ rq'[r] # rq[r]]_vars

\* datastore.go, CleanupOrphanedUserArticles "removes UserArticle entities that
\* reference articles from feeds the user is no longer subscribed to", and no others, on
\* both backends: a row goes away only by a cleanup during which, at some moment, the
\* user did not have the feed, and only for an article over seven days old.  Datastore
\* decides and deletes in two steps, so the feed may be back (and marked again) when
\* its rows go; a feed the user kept throughout loses nothing, unless an article
\* fails to load.
CleanupSpares ==
    [][\A u \in Users, a \in Articles :
         ~env.faults /\ status[u][a] # None /\ status'[u][a] = None
           => /\ a \in old
              /\ \E r \in Requests : rq[r].kind = "cleanup" /\ <<u, a>> \in gone[r]]_vars

\* The marks of a feed the user has left do not stay for ever, unless the user
\* takes the feed back.
OrphansRemoved == \A u \in Users, a \in Articles : Orphan(u, a) ~> ~Orphan(u, a)
=============================================================================
