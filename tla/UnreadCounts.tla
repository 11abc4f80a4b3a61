---------------------------- MODULE UnreadCounts ----------------------------
(***************************************************************************)
(* The unread counts of internal/services and internal/cache: what the     *)
(* database says a user has not read, the UnreadCache every instance keeps *)
(* of it, and the requests that read, update and invalidate that cache.    *)
(*                                                                         *)
(* The cache has a lock of its own and the database another: a request     *)
(* changes the database in one step and the cache in a later one, and a    *)
(* miss reads the database in several steps before it fills the cache.     *)
(***************************************************************************)
EXTENDS Integers, FiniteSets

CONSTANTS
    Users, Feeds, Articles, Instances, Requests,
    FeedOf,     \* the feed of an article
    Initially,  \* the articles stored when the model starts
    TTL,        \* life of a cache entry (5 minutes)
    MaxCount,   \* bound of a cached count that is still raised
    Envs,       \* the deployments and workloads considered
    None

ASSUME ContentAssumption ==
    /\ FeedOf \in [Articles -> Feeds]
    /\ Initially \subseteq Articles
    /\ IsFiniteSet(Articles) /\ IsFiniteSet(Users)
ASSUME BoundAssumption == TTL \in Nat /\ MaxCount \in Nat

AllKinds == {"counts", "mark", "markAll", "subscribe", "unsubscribe"}
\* A deployment: the backend InitDB opened, the instances that run, the limit given
\* to SetMaxUsers (10000; 0 is none) and the longest time a request takes; and its
\* workload: the kinds of request, how many at a time, the users they come from,
\* and the bound of the clock.
Env == [datastore: BOOLEAN, instances: SUBSET Instances, maxUsers: Nat, latency: Nat,
        kinds: SUBSET AllKinds, requests: SUBSET Requests, users: SUBSET Users, maxTime: Nat]

ASSUME EnvsAssumption == Envs \subseteq Env

Counts == [Feeds -> Nat]                  \* a feed without a key counts 0
Entry  == [count: Counts, until: Nat]     \* counts[user] and refreshAt[user]

ASSUME NoneIsNoEntry == None \notin Entry \cup Users \cup Instances \cup Feeds \cup Articles

VARIABLES
    env,        \* chosen when the server starts
    now,
    stored,     \* the articles table
    recent,     \* the articles published in the last 90 days, the only ones counted
    subs,       \* user_feeds
    read,       \* user_articles with is_read
    cache,      \* UnreadCache of every instance
    rq,         \* the requests in flight
    disturbed   \* history: when the counts of the user last changed, or were misread

vars == <<env, now, stored, recent, subs, read, cache, rq, disturbed>>
db   == <<stored, recent, subs, read, disturbed>>

-----------------------------------------------------------------------------
\* The local variables of a request: "valid" are the feeds the handler read, "window"
\* the articles that Datastore's cutoff lets in, "todo" the feeds still to be counted
\* and "unread" the articles counted so far; "was" and "is" are was_read and is_read
\* of the body of MarkRead.
PCs == {"idle", "get", "feeds", "count", "status", "set",
        "mark", "update", "markAll", "subscribe", "reset", "unsubscribe", "invalidate"}
Req == [pc: PCs, inst: Instances \cup {None}, user: Users \cup {None}, since: Nat,
        valid: SUBSET Feeds, window: SUBSET Articles, todo: SUBSET Feeds, unread: SUBSET Articles,
        feed: Feeds \cup {None}, art: Articles \cup {None}, was: BOOLEAN, is: BOOLEAN]

Request(pc, i, u) ==
    [pc |-> pc, inst |-> i, user |-> u, since |-> now, valid |-> {}, window |-> {},
     todo |-> {}, unread |-> {}, feed |-> None, art |-> None, was |-> FALSE, is |-> FALSE]

Idle == [Request("idle", None, None) EXCEPT !.since = 0]

\* What the next step of a request reads: instance and user, the article or the feed.
LocalsOK(q) ==
    /\ q.pc # "idle" => q.inst # None /\ q.user # None
    /\ q.pc \in {"mark", "update"} => q.art # None
    /\ q.pc \in {"subscribe", "reset", "unsubscribe"} => q.feed # None

TypeOK ==
    /\ env \in Envs
    /\ now \in Nat
    /\ stored \subseteq Articles
    /\ recent \subseteq Articles
    /\ subs \in [Users -> SUBSET Feeds]
    /\ read \in [Users -> SUBSET Articles]
    /\ cache \in [Instances -> [Users -> Entry \cup {None}]]
    /\ rq \in [Requests -> Req]
    /\ \A r \in Requests : LocalsOK(rq[r])
    /\ disturbed \in [Users -> Nat]

InFeeds(S, F)  == {a \in S : FeedOf[a] \in F}
CountOf(S)     == [f \in Feeds |-> Cardinality(InFeeds(S, {f}))]
\* What the database would answer for user u now.
Truth(u)       == CountOf(InFeeds((stored \cap recent) \ read[u], subs[u]))

Init ==
    /\ env \in Envs
    /\ now = 0
    /\ stored = Initially
    /\ recent = Articles
    /\ subs \in [Users -> SUBSET Feeds]
    /\ \A u \in Users \ env.users : subs[u] = {}
    /\ read = [u \in Users |-> {}]
    /\ cache = [i \in Instances |-> [u \in Users |-> None]]
    /\ rq = [r \in Requests |-> Idle]
    /\ disturbed = [u \in Users |-> 0]

Valid(e)        == e # None /\ now <= e.until
Disturb(U)      == disturbed' = [u \in Users |-> IF u \in U THEN now ELSE disturbed[u]]
End(r)          == rq' = [rq EXCEPT ![r] = Idle]
Goto(r, pc)     == rq' = [rq EXCEPT ![r].pc = pc]
Put(r, u, e)    == cache' = [cache EXCEPT ![rq[r].inst][u] = e]

-----------------------------------------------------------------------------
(* GetUserUnreadCounts                                                       *)

\* The handler reads the user's feeds, then the service looks at the cache.
BeginCounts(r, i, u) ==
    /\ rq[r].pc = "idle"
    /\ rq' = [rq EXCEPT ![r] = [Request("get", i, u) EXCEPT !.valid = subs[u]]]
    /\ UNCHANGED <<env, now, cache, db>>

\* Mutant of Get: a hit renews the entry.
GetSliding(r) ==
    LET e == cache[rq[r].inst][rq[r].user]
    IN  /\ rq[r].pc = "get"
        /\ \/ Valid(e) /\ End(r) /\ Put(r, rq[r].user, [e EXCEPT !.until = now + TTL])
           \/ ~Valid(e) /\ Goto(r, "feeds") /\ UNCHANGED cache
        /\ UNCHANGED <<env, now, db>>

\* UnreadCache.Get: a hit is the answer.
Get(r) ==
    /\ rq[r].pc = "get"
    /\ \/ Valid(cache[rq[r].inst][rq[r].user]) /\ End(r)
       \/ ~Valid(cache[rq[r].inst][rq[r].user]) /\ Goto(r, "feeds")
    /\ UNCHANGED <<env, now, cache, db>>

\* db.GetUserUnreadCounts reads the user's feeds again, and Datastore the clock; an error
\* ends the request.
ReadFeeds(r) ==
    /\ rq[r].pc = "feeds"
    /\ \/ End(r)
       \/ rq' = [rq EXCEPT ![r].pc = "count", ![r].todo = subs[rq[r].user],
                            ![r].window = IF env.datastore THEN recent ELSE {}]
    /\ UNCHANGED <<env, now, cache, db>>

\* Feed after feed.  SQLite counts the articles that are unread and recent now; Datastore
\* collects the keys of all since the cutoff.
CountFeed(r) ==
    /\ rq[r].pc = "count"
    /\ \/ /\ rq[r].todo = {}
          /\ Goto(r, IF env.datastore /\ rq[r].unread # {} THEN "status" ELSE "set")
       \/ \E f \in rq[r].todo :
            rq' = [rq EXCEPT ![r].todo = @ \ {f}, ![r].unread = @ \cup InFeeds(
                     IF env.datastore THEN stored \cap rq[r].window
                                      ELSE (stored \cap recent) \ read[rq[r].user], {f})]
       \/ End(r)
    /\ UNCHANGED <<env, now, cache, db>>

\* Datastore: one GetMulti of the user's statuses.  When it fails as a whole every
\* article stays unread and the answer is cached all the same.
ReadStatuses(r) ==
    /\ rq[r].pc = "status"
    /\ \/ /\ rq' = [rq EXCEPT ![r].pc = "set", ![r].unread = @ \ read[rq[r].user]]
          /\ UNCHANGED disturbed
       \/ Goto(r, "set") /\ Disturb({rq[r].user})
    /\ UNCHANGED <<env, now, cache, stored, recent, subs, read>>

\* The cache of instance i when user u is to get an entry: at env.maxUsers another
\* entry, one of those closest to their expiry, is evicted.
Evict(i, u) ==
    LET cached == {v \in Users : cache[i][v] # None}
    IN  IF env.maxUsers = 0 \/ u \in cached \/ Cardinality(cached) < env.maxUsers
          THEN {{}}
          ELSE {{v} : v \in {x \in cached :
                               \A y \in cached : cache[i][x].until <= cache[i][y].until}}

\* Mutant of SetCache: a full cache takes one more user.
SetOverLimit(r) ==
    LET q == rq[r]
    IN  /\ q.pc = "set"
        /\ Put(r, q.user, [count |-> CountOf(InFeeds(q.unread, q.valid)), until |-> now + TTL])
        /\ End(r)
        /\ UNCHANGED <<env, now, db>>

\* The counts of feeds the handler did not see are dropped; UnreadCache.Set.
SetCache(r) ==
    LET q == rq[r]
        e == [count |-> CountOf(InFeeds(q.unread, q.valid)), until |-> now + TTL]
    IN  /\ q.pc = "set"
        /\ \E out \in Evict(q.inst, q.user) :
             cache' = [cache EXCEPT ![q.inst] =
                         [v \in Users |-> CASE v = q.user -> e
                                            [] v \in out  -> None
                                            [] OTHER      -> cache[q.inst][v]]]
        /\ End(r)
        /\ UNCHANGED <<env, now, db>>

-----------------------------------------------------------------------------
(* MarkUserArticleRead                                                       *)

\* The client shows article a of a feed of the user, tells the status it showed and
\* the one it wants, and may leave out the feed.
BeginMark(r, i, u, a, f, is) ==
    /\ rq[r].pc = "idle"
    /\ a \in stored /\ FeedOf[a] \in subs[u]
    /\ f \in {None, FeedOf[a]}
    /\ \A j \in Instances : Valid(cache[j][u]) => cache[j][u].count[FeedOf[a]] < MaxCount
    /\ rq' = [rq EXCEPT ![r] = [Request("mark", i, u) EXCEPT !.art = a, !.feed = f,
                                   !.was = a \in read[u], !.is = is]]
    /\ UNCHANGED <<env, now, cache, db>>

\* db.MarkUserArticleRead.  It fails without effect or, on Datastore, with one the
\* client is not told of.
MarkRead(r) ==
    LET q == rq[r]
    IN  /\ q.pc = "mark"
        /\ \/ /\ read' = [read EXCEPT ![q.user] = IF q.is THEN @ \cup {q.art}
                                                          ELSE @ \ {q.art}]
              /\ Disturb({q.user})
              /\ Goto(r, "update") \/ (env.datastore /\ End(r))
           \/ End(r) /\ UNCHANGED <<read, disturbed>>
        /\ UNCHANGED <<env, now, cache, stored, recent, subs>>

\* Mutant of UpdateCount: the count is not kept from falling below zero.
UpdateUnclamped(r) ==
    LET q == rq[r]
        e == cache[q.inst][q.user]
    IN  /\ q.pc = "update"
        /\ \/ /\ q.feed # None /\ Valid(e) /\ q.was # q.is
              /\ Put(r, q.user, [e EXCEPT !.count[q.feed] = IF q.was THEN @ + 1 ELSE @ - 1])
           \/ q.feed # None /\ ~(Valid(e) /\ q.was # q.is) /\ UNCHANGED cache
           \/ q.feed = None /\ Put(r, q.user, None)
        /\ End(r)
        /\ UNCHANGED <<env, now, db>>

\* UnreadCache.UpdateCount on a valid entry, or Invalidate when the feed is unknown.
\* was_read is what the client showed, not what the database held.
UpdateCount(r) ==
    LET q == rq[r]
        e == cache[q.inst][q.user]
    IN  /\ q.pc = "update"
        /\ \/ /\ q.feed # None /\ Valid(e) /\ q.was # q.is
              /\ Put(r, q.user, [e EXCEPT !.count[q.feed] =
                                   IF q.was THEN @ + 1 ELSE IF @ = 0 THEN 0 ELSE @ - 1])
           \/ q.feed # None /\ ~(Valid(e) /\ q.was # q.is) /\ UNCHANGED cache
           \/ q.feed = None /\ Put(r, q.user, None)
        /\ End(r)
        /\ UNCHANGED <<env, now, db>>

-----------------------------------------------------------------------------
(* The operations that change many counts and then invalidate the entry.     *)

Begin(r, kind, i, u, f) ==
    /\ rq[r].pc = "idle"
    /\ rq' = [rq EXCEPT ![r] = [Request(kind, i, u) EXCEPT !.feed = f]]
    /\ UNCHANGED <<env, now, cache, db>>

\* MarkAllUserArticlesRead: every article of the user's feeds, old ones too.
MarkAll(r) ==
    LET u == rq[r].user
    IN  /\ rq[r].pc = "markAll"
        /\ \/ /\ read' = [read EXCEPT ![u] = @ \cup InFeeds(stored, subs[u])]
              /\ Disturb({u})
              /\ Goto(r, "invalidate") \/ (env.datastore /\ End(r))
           \/ End(r) /\ UNCHANGED <<read, disturbed>>
        /\ UNCHANGED <<env, now, cache, stored, recent, subs>>

\* SubscribeUserToFeed, then the status of the feed's articles is reset to unread;
\* that may fail, or stop at the user's article limit, and is only logged.
Subscribe(r) ==
    /\ rq[r].pc = "subscribe"
    /\ \/ /\ subs' = [subs EXCEPT ![rq[r].user] = @ \cup {rq[r].feed}]
          /\ Disturb({rq[r].user})
          /\ Goto(r, "reset") \/ (env.datastore /\ End(r))
       \/ End(r) /\ UNCHANGED <<subs, disturbed>>
    /\ UNCHANGED <<env, now, cache, stored, recent, read>>

ResetStatuses(r) ==
    /\ rq[r].pc = "reset"
    /\ \E S \in SUBSET InFeeds(stored, {rq[r].feed}) :
         read' = [read EXCEPT ![rq[r].user] = @ \ S]
    /\ Disturb({rq[r].user})
    /\ Goto(r, "invalidate")
    /\ UNCHANGED <<env, now, cache, stored, recent, subs>>

\* UnsubscribeUserFromFeed leaves the statuses behind.
Unsubscribe(r) ==
    /\ rq[r].pc = "unsubscribe"
    /\ \/ /\ subs' = [subs EXCEPT ![rq[r].user] = @ \ {rq[r].feed}]
          /\ Disturb({rq[r].user})
          /\ Goto(r, "invalidate") \/ (env.datastore /\ End(r))
       \/ End(r) /\ UNCHANGED <<subs, disturbed>>
    /\ UNCHANGED <<env, now, cache, stored, recent, read>>

\* UnreadCache.Invalidate, on the instance that served the request.
Invalidate(r) ==
    /\ rq[r].pc = "invalidate"
    /\ Put(r, rq[r].user, None)
    /\ End(r)
    /\ UNCHANGED <<env, now, db>>

-----------------------------------------------------------------------------
\* The refresh of a feed stores a new article and touches no cache.
AddArticle(a) ==
    /\ a \notin stored
    /\ stored' = stored \cup {a}
    /\ Disturb({u \in Users : FeedOf[a] \in subs[u]})
    /\ UNCHANGED <<env, now, recent, subs, read, cache, rq>>

\* 90 days have passed since a was published, be it stored or not.
GrowOld(a) ==
    /\ a \in recent
    /\ recent' = recent \ {a}
    /\ Disturb({u \in Users : FeedOf[a] \in subs[u]})
    /\ UNCHANGED <<env, now, stored, subs, read, cache, rq>>

\* ToggleUserArticleStar touches no cache, but Datastore puts the whole entity, with the
\* is_read that it read earlier (ArticleStatus has the race): a Put that changes it.
PutStar(u, a) ==
    /\ env.datastore /\ a \in stored
    /\ \E S \in {read[u] \cup {a}, read[u] \ {a}} :
         S # read[u] /\ read' = [read EXCEPT ![u] = S]
    /\ Disturb({u})
    /\ UNCHANGED <<env, now, stored, recent, subs, cache, rq>>

\* The sweep of cleanupExpiredEntries.
Sweep(i) ==
    /\ \E u \in Users : cache[i][u] # None /\ ~Valid(cache[i][u])
    /\ cache' = [cache EXCEPT ![i] = [u \in Users |-> IF Valid(cache[i][u])
                                                        THEN cache[i][u] ELSE None]]
    /\ UNCHANGED <<env, now, rq, db>>

\* App Engine replaces an instance: its cache and its requests are lost.
Restart(i) ==
    /\ cache' = [cache EXCEPT ![i] = [u \in Users |-> None]]
    /\ rq' = [r \in Requests |-> IF rq[r].inst = i THEN Idle ELSE rq[r]]
    /\ UNCHANGED <<env, now, db>>

\* Time passes; no request takes longer than env.latency.
Tick ==
    /\ now < env.maxTime
    /\ \A r \in Requests : rq[r].pc # "idle" => now < rq[r].since + env.latency
    /\ now' = now + 1
    /\ UNCHANGED <<env, stored, recent, subs, read, cache, rq, disturbed>>

Arrive(r, i, u) ==
    \/ "counts" \in env.kinds /\ BeginCounts(r, i, u)
    \/ "mark" \in env.kinds /\ \E a \in Articles, f \in Feeds \cup {None}, is \in BOOLEAN :
                             BeginMark(r, i, u, a, f, is)
    \/ "markAll" \in env.kinds /\ Begin(r, "markAll", i, u, None)
    \/ \E k \in env.kinds \cap {"subscribe", "unsubscribe"}, f \in Feeds : Begin(r, k, i, u, f)

Step(r) ==
    \/ Get(r) \/ ReadFeeds(r) \/ CountFeed(r) \/ ReadStatuses(r) \/ SetCache(r)
    \/ MarkRead(r) \/ UpdateCount(r)
    \/ MarkAll(r) \/ Subscribe(r) \/ ResetStatuses(r) \/ Unsubscribe(r) \/ Invalidate(r)

Next ==
    \/ \E r \in env.requests, i \in env.instances, u \in env.users : Arrive(r, i, u)
    \/ \E r \in Requests : Step(r)
    \/ \E a \in Articles : AddArticle(a) \/ GrowOld(a) \/ \E u \in env.users : PutStar(u, a)
    \/ \E i \in env.instances : Sweep(i) \/ Restart(i)
    \/ Tick

Spec == Init /\ [][Next]_vars

-----------------------------------------------------------------------------
(* Correctness.                                                              *)

\* Whatever went wrong with an entry (a count read before a mark and cached after
\* it, an update applied twice, an invalidation on another instance, a failed read
\* of the statuses, an article that has grown too old) is gone once the user's counts
\* have been left alone for the time of one request and one cache lifetime: from then
\* on every entry that can be served equals what the database says.
QuietExact ==
    \A i \in Instances, u \in Users :
        Valid(cache[i][u]) /\ now > disturbed[u] + env.latency + TTL
          => cache[i][u].count = Truth(u)

\* docs/caching.md: the cache holds at most maxUsers users.
CacheBounded ==
    env.maxUsers > 0 => \A i \in Instances :
        Cardinality({u \in Users : cache[i][u] # None}) <= env.maxUsers
=============================================================================
