------------------------------- MODULE AddFeed -------------------------------
(***************************************************************************)
(* Adding feeds: the handlers AddFeed and ImportOPML, the goroutine that   *)
(* AddFeedForUser starts and waits for at most 15 seconds, the feeds and   *)
(* user_feeds tables, and the feed limit of trial users.                   *)
(*                                                                         *)
(* The goroutine outlives the wait: its network calls are cancelled with   *)
(* the context, its database calls are not.                                *)
(***************************************************************************)
EXTENDS Naturals, FiniteSets

CONSTANTS
    Users, URLs,
    FeedIDs,    \* ids the database hands out, in order; bounds the feeds ever created
    Handlers,   \* HTTP requests
    Workers,    \* goroutines of AddFeedForUser
    Trial,      \* the users whose trial is running; the others have no limit
    Limit,      \* FreeTrialFeedLimit (20)
    Envs,       \* the deployments and workloads considered
    None

ASSUME SetsAssumption ==
    /\ Trial \subseteq Users
    /\ FeedIDs \subseteq Nat
    /\ IsFiniteSet(Handlers) /\ IsFiniteSet(Workers) /\ IsFiniteSet(FeedIDs)
ASSUME LimitAssumption == Limit \in Nat \ {0}

\* The backend InitDB opened, and the workload: the requests and the goroutines that
\* can be there at a time, the users the requests come from and the urls they name.
Env == [datastore: BOOLEAN, handlers: SUBSET Handlers, workers: SUBSET Workers,
        users: SUBSET Users, urls: SUBSET URLs]

ASSUME EnvsAssumption == Envs \subseteq Env
ASSUME NoneAssumption ==
    None \notin Users \cup URLs \cup FeedIDs \cup Handlers \cup Workers

VARIABLES
    env,      \* chosen when the server starts
    feed,     \* the feeds table: the url of an id
    subs,     \* user_feeds
    handler,  \* the requests: the urls still to add, the goroutine waited for
    worker    \* the goroutines

vars == <<env, feed, subs, handler, worker>>

Handler == [pc: {"idle", "check", "start", "wait"}, user: Users \cup {None}, todo: SUBSET URLs,
            worker: Workers \cup {None}]
\* "late": the context of the goroutine is cancelled and nobody waits for it.
Worker  == [pc: {"free", "discover", "find", "fetch", "insert", "save", "subscribe", "done"},
            user: Users \cup {None}, url: URLs \cup {None}, fid: FeedIDs \cup {None},
            late: BOOLEAN]

NoHandler == [pc |-> "idle", user |-> None, todo |-> {}, worker |-> None]
Free      == [pc |-> "free", user |-> None, url |-> None, fid |-> None, late |-> FALSE]

TypeOK ==
    /\ env \in Envs
    /\ feed \in [FeedIDs -> URLs \cup {None}]
    /\ subs \in [Users -> SUBSET FeedIDs]
    /\ handler \in [Handlers -> Handler]
    /\ worker \in [Workers -> Worker]
    /\ \A h \in Handlers : handler[h].pc # "idle" => handler[h].user # None
    /\ \A w \in Workers : worker[w].pc # "free" => worker[w].user # None
    /\ \A w \in Workers : worker[w].pc \in {"save", "subscribe"} => worker[w].fid # None

Init ==
    /\ env \in Envs
    /\ feed = [f \in FeedIDs |-> None]
    /\ subs = [u \in Users |-> {}]
    /\ handler = [h \in Handlers |-> NoHandler]
    /\ worker = [w \in Workers |-> Free]

NextID(f)       == feed[f] = None /\ \A g \in FeedIDs : feed[g] = None => f <= g
FeedsOf(url)    == {f \in FeedIDs : feed[f] = url}
Subscribed(u)   == {feed[f] : f \in subs[u]}
Answer(h)       == handler' = [handler EXCEPT ![h] = NoHandler]
Goto(w, pc)     == worker' = [worker EXCEPT ![w].pc = pc]

-----------------------------------------------------------------------------
(* The handlers.                                                             *)

BeginAdd(h, u, url) ==
    /\ handler[h].pc = "idle"
    /\ handler' = [handler EXCEPT ![h] = [NoHandler EXCEPT !.pc = "check", !.user = u,
                                            !.todo = {url}]]
    /\ UNCHANGED <<env, feed, subs, worker>>

\* ImportOPMLWithLimits skips the feeds the user has when the import starts.
BeginImport(h, u, S) ==
    /\ handler[h].pc = "idle"
    /\ S \ Subscribed(u) # {}
    /\ handler' = [handler EXCEPT ![h] = [NoHandler EXCEPT !.pc = "check", !.user = u,
                                            !.todo = S \ Subscribed(u)]]
    /\ UNCHANGED <<env, feed, subs, worker>>

\* Mutant of CanUserAddFeed: a user at the limit may still add one.
OneMore(u) == u \in Trial => Cardinality(subs[u]) <= Limit

CanUserAddFeed(u) == u \in Trial => Cardinality(subs[u]) < Limit

\* CanUserAddFeed is asked first, and before every url of an import.  The handler
\* answers when it refuses, when a read fails and when the body cannot be parsed.
Check(h) ==
    LET q == handler[h]
    IN  /\ q.pc = "check"
        /\ \/ Answer(h)
           \/ CanUserAddFeed(q.user) /\ handler' = [handler EXCEPT ![h].pc = "start"]
        /\ UNCHANGED <<env, feed, subs, worker>>

\* Once AddFeed has read the body of the request, AddFeedForUser starts its goroutine.
Start(h) ==
    LET q == handler[h]
    IN  /\ q.pc = "start"
        /\ \E w \in env.workers, url \in q.todo :
             /\ worker[w].pc = "free"
             /\ worker' = [worker EXCEPT ![w] = [Free EXCEPT !.pc = "discover",
                                                   !.user = q.user, !.url = url]]
             /\ handler' = [handler EXCEPT ![h].pc = "wait", ![h].worker = w,
                                           ![h].todo = @ \ {url}]
        /\ UNCHANGED <<env, feed, subs>>

\* AddFeedForUser returns, with a result or an error: AddFeed answers, an import
\* goes on with its next url.
Return(h) ==
    IF handler[h].todo = {} THEN Answer(h)
      ELSE handler' = [handler EXCEPT ![h].pc = "check", ![h].worker = None]

Finish(h) ==
    LET w == handler[h].worker
    IN  /\ handler[h].pc = "wait"
        /\ worker[w].pc = "done"
        /\ worker' = [worker EXCEPT ![w] = Free]
        /\ Return(h)
        /\ UNCHANGED <<env, feed, subs>>

\* Mutant of Timeout: the context has no deadline.
NeverTimeout(h) == handler[h].pc = "none" /\ UNCHANGED vars

\* The 15 seconds are over before the goroutine is done.
Timeout(h) ==
    LET w == handler[h].worker
    IN  /\ handler[h].pc = "wait"
        /\ worker[w].pc # "done"
        /\ worker' = [worker EXCEPT ![w].late = TRUE]
        /\ Return(h)
        /\ UNCHANGED <<env, feed, subs>>

-----------------------------------------------------------------------------
(* addFeedForUserInternal.                                                   *)

\* The goroutine returns an error or a feed; if nobody waits for it, it is gone.
Done(w) == worker' = [worker EXCEPT ![w] = IF @.late THEN Free ELSE [@ EXCEPT !.pc = "done"]]

\* DiscoverFeedURL.  When every fetch fails it still returns guesses, so a
\* cancelled context need not end it with an error.
Discover(w) ==
    /\ worker[w].pc = "discover"
    /\ Goto(w, "find") \/ Done(w)
    /\ UNCHANGED <<env, feed, subs, handler>>

\* Mutant of Find: the feed that was found is not kept.
FindForgets(w) ==
    /\ worker[w].pc = "find"
    /\ Goto(w, IF FeedsOf(worker[w].url) = {} THEN "fetch" ELSE "subscribe")
    /\ UNCHANGED <<env, feed, subs, handler>>

\* GetFeedByURL; an error ends the goroutine.
Find(w) ==
    LET found == FeedsOf(worker[w].url)
    IN  /\ worker[w].pc = "find"
        /\ \/ \E f \in found :
                worker' = [worker EXCEPT ![w].pc = "subscribe", ![w].fid = f]
           \/ found = {} /\ Goto(w, "fetch")
           \/ Done(w)
        /\ UNCHANGED <<env, feed, subs, handler>>

\* fetchFeed honours the context.
Fetch(w) ==
    /\ worker[w].pc = "fetch"
    /\ (~worker[w].late /\ Goto(w, "insert")) \/ Done(w)
    /\ UNCHANGED <<env, feed, subs, handler>>

\* Mutant of Insert: the table has no UNIQUE constraint.
InsertDuplicate(w) ==
    /\ worker[w].pc = "insert"
    /\ \E f \in FeedIDs :
         /\ NextID(f)
         /\ feed' = [feed EXCEPT ![f] = worker[w].url]
         /\ worker' = [worker EXCEPT ![w].pc = "save", ![w].fid = f]
    /\ UNCHANGED <<env, subs, handler>>

\* AddFeed.  SQLite refuses a url it has; Datastore gives every Put a new id.
Insert(w) ==
    /\ worker[w].pc = "insert"
    /\ \/ \E f \in FeedIDs :
            /\ NextID(f)
            /\ env.datastore \/ FeedsOf(worker[w].url) = {}
            /\ feed' = [feed EXCEPT ![f] = worker[w].url]
            /\ worker' = [worker EXCEPT ![w].pc = "save", ![w].fid = f]
       \/ Done(w) /\ UNCHANGED feed
    /\ UNCHANGED <<env, subs, handler>>

\* GetUserByID and saveArticlesFromFeedWithLimit; when either fails the feed stays
\* and the user is not subscribed.
Save(w) ==
    /\ worker[w].pc = "save"
    /\ Goto(w, "subscribe") \/ Done(w)
    /\ UNCHANGED <<env, feed, subs, handler>>

\* SubscribeUserToFeed.  The marks of the feed's articles are then reset and the
\* caches invalidated (modules ArticleStatus and UnreadCounts).
Subscribe(w) ==
    /\ worker[w].pc = "subscribe"
    /\ \/ subs' = [subs EXCEPT ![worker[w].user] = @ \cup {worker[w].fid}]
       \/ UNCHANGED subs                   \* the write fails
    /\ Done(w)
    /\ UNCHANGED <<env, feed, handler>>

\* The handler DeleteFeed.
Unsubscribe(u, f) ==
    /\ f \in subs[u]
    /\ subs' = [subs EXCEPT ![u] = @ \ {f}]
    /\ UNCHANGED <<env, feed, handler, worker>>

-----------------------------------------------------------------------------
Network(w)  == Discover(w) \/ Fetch(w)
Database(w) == Find(w) \/ Insert(w) \/ Save(w) \/ Subscribe(w)
Serve(h)    == Check(h) \/ Start(h) \/ Finish(h) \/ Timeout(h)

Next ==
    \/ \E h \in env.handlers, u \in env.users :
          \/ \E url \in env.urls : BeginAdd(h, u, url)
          \/ \E S \in SUBSET env.urls : BeginImport(h, u, S)
    \/ \E h \in Handlers : Serve(h)
    \/ \E w \in Workers : Network(w) \/ Database(w)
    \/ \E u \in Users, f \in FeedIDs : Unsubscribe(u, f)

Spec == Init /\ [][Next]_vars

\* A handler goes on, and a database call ends; a call to a site ends at the latest
\* when its context is cancelled.  Go always starts another goroutine: a handler that
\* finds one of the bounded Workers free again and again gets one (SF).
FairSpec ==
    /\ Spec
    /\ \A h \in Handlers : WF_vars(Serve(h)) /\ SF_vars(Start(h))
    /\ \A w \in Workers : WF_vars(Database(w) \/ (worker[w].late /\ Network(w)))

-----------------------------------------------------------------------------
(* Correctness.                                                              *)

\* The limit is checked before the body is read and the goroutine started, and not when
\* the goroutine subscribes: a trial user ends up over the limit by no more than the
\* other requests and goroutines that can be on their way when the last one passes the
\* check (FeedHandler.AddFeed, CanUserAddFeed, AddFeedForUser).
LimitOverrun ==
    \A u \in Trial :
        Cardinality(subs[u]) + 1 <= Limit + Cardinality(env.handlers) + Cardinality(env.workers)

\* On SQLite two users who add the same site at the same time share one feed, as the
\* UNIQUE url of the feeds table says: the refresh looks at one feed per url only,
\* and the subscribers of a second one would get no articles.
OneFeedPerURL ==
    ~env.datastore => \A f, g \in FeedIDs : feed[f] # None /\ feed[f] = feed[g] => f = g

\* A request to add feeds is answered although the site never answers.
Answered == \A h \in Handlers : handler[h].pc # "idle" ~> handler[h].pc = "idle"
=============================================================================
