----------------------------- MODULE FeedRefresh -----------------------------
(***************************************************************************)
(* Refreshing feeds: runs of FeedScheduler.RefreshFeedsStaggered (or of    *)
(* FeedService.RefreshFeeds where there is no scheduler), started by cron, *)
(* by Cloud Tasks or by hand, possibly several at a time.  A run reads all *)
(* feeds, and for every feed that is due fetches the site, saves the       *)
(* articles it does not have and writes the tracking fields back.  Beside  *)
(* the runs, AddFeedForUser inserts feeds and saves their first articles.  *)
(*                                                                         *)
(* Times only matter as differences: a timestamp is kept as its age, which *)
(* grows with the clock up to MaxAge.                                      *)
(***************************************************************************)
EXTENDS Naturals, FiniteSets

CONSTANTS
    Feeds, Articles,   \* an article is its url
    Runs,              \* refreshes, and requests to add a feed, in flight
    HalfHour, Hour, SixHours, Week, Month,   \* of shouldCheckFeed
    MaxAge,            \* bound of an age
    Envs,              \* the deployments and workloads considered
    None               \* the zero time, no cache entry, no ETag

ASSUME FeedsAssumption == IsFiniteSet(Feeds)
ASSUME TimeAssumption ==
    /\ HalfHour \in Nat /\ Hour \in Nat /\ SixHours \in Nat /\ Week \in Nat /\ Month \in Nat
    /\ MaxAge \in Nat
    /\ HalfHour <= Hour /\ Hour <= SixHours /\ SixHours <= MaxAge

\* The backend InitDB opened, whether there is a scheduler (main.go passes one) and
\* how many feeds it fetches at a time; and the workload: the runs at a time, the
\* requests to add feeds, the feeds and which of them are to be added, what their sites
\* may publish, whether articles get old and whether database calls and instances fail.
Env == [datastore: BOOLEAN, scheduler: BOOLEAN, maxConcurrent: Nat, runs: SUBSET Runs,
        adders: SUBSET Runs, feeds: SUBSET Feeds, fresh: SUBSET Feeds,
        articles: SUBSET Articles, aging: BOOLEAN, faults: BOOLEAN]

ASSUME EnvsAssumption == Envs \subseteq Env

Ages == 0 .. MaxAge
\* The feeds table: last_checked, last_had_new_content, average_update_interval and
\* etag.  The ETag of a site stands for the articles it was sent with.
Row  == [checked: Ages \cup {None}, newest: Ages \cup {None}, interval: Ages,
         etag: (SUBSET Articles) \cup {None}]

ASSUME NoneAssumption == /\ None \notin Nat /\ None \notin Articles /\ None \notin Row
                         /\ None \notin [Feeds -> Row \cup {None}]
                         /\ \A S \in SUBSET Articles : S # None

VARIABLES
    env,      \* chosen when the server starts
    site,     \* what the site of a feed lists
    copies,   \* the articles table: how many rows a feed has for a url
    old,      \* the urls stored more than 90 days ago
    known,    \* the feeds that have a row in the feeds table
    row,      \* the feeds table
    list,     \* FeedListCache: the rows it holds, None for a feed that was not there
    work,     \* the runs: where the update of every feed is
    skipped   \* history: articles left out of a save that stored others

vars == <<env, site, copies, old, known, row, list, work, skipped>>
db   == <<copies, known, row>>

\* The update of one feed.  "snap" is the row as the run read it, "body" what the
\* site answered, "tag" the ETag to keep, "todo" the articles still to save, "saved"
\* whether savedCount > 0, "ok" whether saveArticlesFromFeed returned no error, "out"
\* the entity Datastore is about to put, "new" whether this adds the feed.
PCs == {"done", "queued", "insert", "fetch", "filter", "add", "put", "track", "trackPut",
        "last", "lastPut"}
Work == [pc: PCs, snap: Row \cup {None}, body: SUBSET Articles,
         tag: (SUBSET Articles) \cup {None}, todo: SUBSET Articles,
         art: Articles \cup {None}, saved: BOOLEAN, ok: BOOLEAN,
         out: Row \cup {None}, new: BOOLEAN]

Queue(pc, snap) == [pc |-> pc, snap |-> snap, body |-> {}, tag |-> None, todo |-> {}, art |-> None,
                    saved |-> FALSE, ok |-> FALSE, out |-> None, new |-> FALSE]
Done == Queue("done", None)

NewRow == [checked |-> None, newest |-> None, interval |-> 0, etag |-> None]

\* What the next step of an update reads: the feed's row, the article or the entity.
LocalsOK(w) ==
    /\ w.pc # "done" => w.snap # None
    /\ w.pc = "put" => w.art # None
    /\ w.pc \in {"trackPut", "lastPut"} => w.out # None

TypeOK ==
    /\ env \in Envs
    /\ site \in [Feeds -> SUBSET Articles]
    /\ copies \in [Feeds -> [Articles -> Nat]]
    /\ old \subseteq Articles
    /\ known \subseteq Feeds
    /\ row \in [Feeds -> Row]
    /\ list \in [Feeds -> Row \cup {None}] \cup {None}
    /\ work \in [Runs -> [Feeds -> Work]]
    /\ \A r \in Runs, f \in Feeds : LocalsOK(work[r][f])
    /\ skipped \subseteq Articles

Init ==
    /\ env \in Envs
    /\ site = [f \in Feeds |-> {}]
    /\ copies = [f \in Feeds |-> [a \in Articles |-> 0]]
    /\ old = {}
    /\ known = env.feeds \ env.fresh
    /\ row = [f \in Feeds |-> NewRow]
    /\ list = None
    /\ work = [r \in Runs |-> [f \in Feeds |-> Done]]
    /\ skipped = {}

Stored(a)    == \E f \in Feeds : copies[f][a] > 0
Move(r, f, w) == work' = [work EXCEPT ![r][f] = w]
Finish(r, f) == Move(r, f, Done)

\* The semaphore of processScheduledFeeds; RefreshFeeds takes one feed after the other.
Slots   == IF env.scheduler THEN env.maxConcurrent ELSE 1
Slot(r) == Cardinality({f \in Feeds : work[r][f].pc \notin {"done", "queued"}}) < Slots

-----------------------------------------------------------------------------
(* Which feeds are due.                                                      *)

\* Mutant of ShouldCheckFeed: a feed with a known interval is never due again.
ForgetsKnown(w) == \/ w.checked = None
                   \/ w.checked # None /\ w.interval = 0 /\ w.checked >= Hour

ShouldCheckFeed(w) ==
    \/ w.checked = None
    \/ w.interval > 0 /\ 2 * w.checked >= w.interval
    \/ /\ w.checked # None /\ w.interval = 0
       /\ w.checked >= (IF w.newest = None THEN Hour
                          ELSE IF w.newest < Week THEN HalfHour
                          ELSE IF w.newest < Month THEN Hour ELSE SixHours)

\* getAllUniqueFeeds, or the feedListCache of RefreshFeeds, whose rows win over the
\* fresh ones; RefreshFeeds decides for all feeds at once which are due.
RowOf(f) == IF ~env.scheduler /\ list # None /\ list[f] # None THEN list[f] ELSE row[f]

Idle(r) == \A f \in Feeds : work[r][f].pc = "done"

BeginRun(r) ==
    /\ Idle(r)
    /\ work' = [work EXCEPT ![r] = [f \in Feeds |->
                  IF f \in known /\ (env.scheduler \/ ShouldCheckFeed(RowOf(f)))
                    THEN Queue("queued", RowOf(f)) ELSE Done]]
    /\ \/ UNCHANGED list
       \/ /\ ~env.scheduler /\ list = None
          /\ list' = [f \in Feeds |-> IF f \in known THEN row[f] ELSE None]
    /\ UNCHANGED <<env, site, old, db, skipped>>

\* The entry of FeedListCache expires, or a subscription to a known feed drops it.
DropList ==
    /\ list # None
    /\ list' = None
    /\ UNCHANGED <<env, site, old, db, work, skipped>>

\* shouldCheckFeed and the rate limiter of updateSingleFeed.  The delay that the
\* schedule gives a feed is any delay.
Start(r, f) ==
    /\ work[r][f].pc = "queued"
    /\ Slot(r)
    /\ ~env.scheduler \/ ShouldCheckFeed(work[r][f].snap)
    /\ Move(r, f, [work[r][f] EXCEPT !.pc = "fetch"])
    /\ UNCHANGED <<env, site, old, db, list, skipped>>

\* A feed that is not due, or whose domain has no token left.
Skip(r, f) ==
    /\ work[r][f].pc = "queued"
    /\ Slot(r) /\ env.scheduler
    /\ Finish(r, f)
    /\ UNCHANGED <<env, site, old, db, list, skipped>>

-----------------------------------------------------------------------------
(* Fetching and saving.                                                      *)

\* addFeedForUserInternal: the feed is not there, its site is fetched.  The limit of
\* the user keeps a part of what it lists.  A failed fetch ends the request.
AddFetch(r, f) ==
    /\ Idle(r) /\ f \notin known
    /\ \E b \in SUBSET site[f] :
         /\ b = {} => site[f] = {}
         /\ Move(r, f, [Queue("insert", NewRow) EXCEPT !.body = b, !.new = TRUE])
    /\ UNCHANGED <<env, site, old, db, list, skipped>>

\* db.AddFeed and GetUserByID, which may fail.  The url is UNIQUE on SQLite (a second
\* entity that Datastore would keep is another feed here).  The feed is due at once.
InsertFeed(r, f) ==
    LET w == work[r][f]
    IN  /\ w.pc = "insert"
        /\ \/ /\ f \notin known
              /\ known' = known \cup {f} /\ row' = [row EXCEPT ![f] = NewRow]
              /\ Move(r, f, [w EXCEPT !.pc = "filter"]) \/ (env.faults /\ Finish(r, f))
           \/ /\ f \in known \/ env.faults
              /\ Finish(r, f)
              /\ UNCHANGED <<known, row>>
        /\ UNCHANGED <<env, site, old, copies, list, skipped>>

\* fetchFeed.  Only RefreshFeeds sends the ETag, and may be told "not modified"; if the
\* site sends none it keeps the one it has.
Fetch(r, f) ==
    /\ work[r][f].pc = "fetch"
    /\ env.scheduler \/ work[r][f].snap.etag # site[f]
    /\ \E e \in IF env.scheduler THEN {None} ELSE {site[f], work[r][f].snap.etag} :
         Move(r, f, [work[r][f] EXCEPT !.pc = "filter", !.body = site[f], !.tag = e])
    /\ UNCHANGED <<env, site, old, db, list, skipped>>

\* An error, or 304: only the tracking fields are written.
FetchNothing(r, f) ==
    /\ work[r][f].pc = "fetch"
    /\ Move(r, f, [work[r][f] EXCEPT !.pc = "track"])
    /\ UNCHANGED <<env, site, old, db, list, skipped>>

\* FilterExistingArticleURLs; Datastore looks at the last 90 days only.  After an
\* error every article is tried.
Filter(r, f) ==
    LET w     == work[r][f]
        found == {a \in w.body : copies[f][a] > 0 /\ ~(env.datastore /\ a \in old)}
    IN  /\ w.pc = "filter"
        /\ \E K \in {found} \cup (IF env.faults THEN {{}} ELSE {}) :
              Move(r, f, [w EXCEPT !.pc = "add", !.todo = @ \cup (w.body \ K)])
        /\ UNCHANGED <<env, site, old, db, list, skipped>>

\* Mutant of AddArticle: a plain INSERT.
AddBlindly(r, f, a) ==
    LET w == work[r][f]
    IN  /\ w.pc = "add" /\ a \in w.todo
        /\ copies' = [copies EXCEPT ![f][a] = @ + 1]
        /\ Move(r, f, [w EXCEPT !.todo = @ \ {a}, !.saved = TRUE])
        /\ UNCHANGED <<env, site, old, known, row, list, skipped>>

\* db.AddArticle.  A url that is there already, for whichever feed, is no error and
\* counts as saved.  SQLite inserts in one statement, Datastore asks first.
AddArticle(r, f, a) ==
    LET w     == work[r][f]
        saved == [w EXCEPT !.todo = @ \ {a}, !.saved = TRUE]
    IN  /\ w.pc = "add" /\ a \in w.todo
        /\ \/ Stored(a) /\ Move(r, f, saved) /\ UNCHANGED copies
           \/ /\ ~Stored(a) /\ ~env.datastore
              /\ copies' = [copies EXCEPT ![f][a] = 1]
              /\ Move(r, f, saved)
           \/ /\ ~Stored(a) /\ env.datastore
              /\ Move(r, f, [w EXCEPT !.pc = "put", !.art = a])
              /\ UNCHANGED copies
        /\ UNCHANGED <<env, site, old, known, row, list, skipped>>

\* The Put of Datastore's AddArticle.
PutArticle(r, f) ==
    LET w == work[r][f]
    IN  /\ w.pc = "put"
        /\ copies' = [copies EXCEPT ![f][w.art] = @ + 1]
        /\ Move(r, f, [w EXCEPT !.pc = "add", !.todo = @ \ {w.art}, !.art = None,
                                 !.saved = TRUE])
        /\ UNCHANGED <<env, site, old, known, row, list, skipped>>

\* An article that cannot be saved is logged and left out.
AddFails(r, f, a) ==
    LET w == work[r][f]
    IN  /\ env.faults
        /\ \/ w.pc = "add" /\ a \in w.todo
           \/ w.pc = "put" /\ a = w.art
        /\ Move(r, f, [w EXCEPT !.pc = "add", !.todo = @ \ {a}, !.art = None])
        /\ UNCHANGED <<env, site, old, db, list, skipped>>

\* Mutant of EndSave: saving nothing is no error either.
EndSaveAlways(r, f) ==
    /\ work[r][f].pc = "add" /\ work[r][f].todo = {} /\ ~work[r][f].new
    /\ Move(r, f, [work[r][f] EXCEPT !.pc = "track", !.ok = TRUE])
    /\ UNCHANGED <<env, site, old, db, list, skipped>>

\* saveArticlesFromFeed returns: an error if the site listed articles and none was
\* saved, also when there was none to save.
EndSave(r, f) ==
    LET w == work[r][f]
    IN  /\ w.pc = "add" /\ w.todo = {} /\ ~w.new
        /\ Move(r, f, [w EXCEPT !.pc = "track", !.ok = w.saved \/ w.body = {}])
        /\ skipped' = IF w.saved THEN skipped \cup {a \in w.body : ~Stored(a)} ELSE skipped
        /\ UNCHANGED <<env, site, old, db, list>>

\* The same at the end of addFeedForUserInternal: unless something failed the user is
\* subscribed and the cached list dropped.  Nothing is tracked, no ETag kept.
EndAdd(r, f) ==
    LET w == work[r][f]
    IN  /\ w.pc = "add" /\ w.todo = {} /\ w.new
        /\ Finish(r, f)
        /\ \/ (w.saved \/ w.body = {}) /\ list' = None
           \/ (env.faults \/ ~(w.saved \/ w.body = {})) /\ UNCHANGED list
        /\ UNCHANGED <<env, site, old, db, skipped>>

-----------------------------------------------------------------------------
(* Writing the tracking fields.                                              *)

\* Mutant of Average: the weights are not divided out.
Weighted(w) ==
    IF w.newest = None THEN w.interval
      ELSE IF w.interval > 0 THEN w.interval * 7 + w.newest * 3 ELSE w.newest

\* The running average: 7 parts old, 3 parts new.
Average(w) ==
    IF w.newest = None THEN w.interval
      ELSE IF w.interval > 0 THEN (w.interval * 7 + w.newest * 3) \div 10 ELSE w.newest

\* What UpdateFeedTracking, or UpdateFeedAfterRefresh, makes of a row: the values
\* come from the row the run has read.  Datastore keeps a time that is not zero.
Tracked(w, cur) ==
    LET new    == w.ok /\ w.saved
        newest == IF new THEN 0 ELSE w.snap.newest
    IN  [checked  |-> 0,
         newest   |-> IF env.datastore /\ newest = None THEN cur.newest ELSE newest,
         interval |-> IF new THEN Average(w.snap) ELSE w.snap.interval,
         etag     |-> IF w.ok /\ ~env.scheduler THEN w.tag ELSE cur.etag]

\* updateFeedTracking, updateFeedAfterRefreshSuccess: an UPDATE, or a Get and a Put of
\* the whole entity.  An error is ignored.
AfterTrack(w) == IF w.ok /\ env.scheduler THEN [w EXCEPT !.pc = "last", !.out = None] ELSE Done

Track(r, f) ==
    LET w == work[r][f]
    IN  /\ w.pc = "track"
        /\ \/ /\ ~env.datastore
              /\ row' = [row EXCEPT ![f] = Tracked(w, row[f])]
              /\ Move(r, f, AfterTrack(w))
           \/ /\ env.datastore
              /\ Move(r, f, [w EXCEPT !.pc = "trackPut", !.out = Tracked(w, row[f])])
              /\ UNCHANGED row
           \/ env.faults /\ Move(r, f, AfterTrack(w)) /\ UNCHANGED row
        /\ UNCHANGED <<env, site, old, copies, known, list, skipped>>

TrackPut(r, f) ==
    LET w == work[r][f]
    IN  /\ w.pc = "trackPut"
        /\ row' = [row EXCEPT ![f] = w.out] \/ (env.faults /\ UNCHANGED row)
        /\ Move(r, f, AfterTrack(w))
        /\ UNCHANGED <<env, site, old, copies, known, list, skipped>>

\* UpdateFeedLastFetch writes a field that is not modelled; on Datastore with it goes
\* the rest of the entity as it was read.
LastFetch(r, f) ==
    LET w == work[r][f]
    IN  /\ w.pc = "last"
        /\ \/ (~env.datastore \/ env.faults) /\ Finish(r, f)
           \/ env.datastore /\ Move(r, f, [w EXCEPT !.pc = "lastPut", !.out = row[f]])
        /\ UNCHANGED <<env, site, old, db, list, skipped>>

LastFetchPut(r, f) ==
    LET w == work[r][f]
    IN  /\ w.pc = "lastPut"
        /\ row' = [row EXCEPT ![f] = w.out] \/ (env.faults /\ UNCHANGED row)
        /\ Finish(r, f)
        /\ UNCHANGED <<env, site, old, copies, known, list, skipped>>

-----------------------------------------------------------------------------
\* A site publishes an article.
Publish(f, a) ==
    /\ a \notin site[f]
    /\ site' = [site EXCEPT ![f] = @ \cup {a}]
    /\ UNCHANGED <<env, old, db, list, work, skipped>>

\* 90 days pass for an article.
GrowOld(a) ==
    /\ env.aging /\ Stored(a) /\ a \notin old
    /\ old' = old \cup {a}
    /\ UNCHANGED <<env, site, db, list, work, skipped>>

\* The instance that runs a refresh stops.
Crash(r) ==
    /\ env.faults /\ ~Idle(r)
    /\ work' = [work EXCEPT ![r] = [f \in Feeds |-> Done]]
    /\ UNCHANGED <<env, site, old, db, list, skipped>>

\* Time passes: every timestamp, also in the copies of the runs, is older.
Older(n) == IF n = None THEN None ELSE IF n < MaxAge THEN n + 1 ELSE MaxAge
Later(w) == IF w = None THEN None
              ELSE [w EXCEPT !.checked = Older(@), !.newest = Older(@)]
Tick ==
    /\ row'  = [f \in Feeds |-> Later(row[f])]
    /\ list' = IF list = None THEN None ELSE [f \in Feeds |-> Later(list[f])]
    /\ work' = [r \in Runs |-> [f \in Feeds |->
                  [work[r][f] EXCEPT !.snap = Later(@), !.out = Later(@)]]]
    /\ UNCHANGED <<env, site, old, copies, known, skipped>>

Update(r, f) ==
    \/ InsertFeed(r, f) \/ EndAdd(r, f)
    \/ Start(r, f) \/ Skip(r, f) \/ Fetch(r, f) \/ FetchNothing(r, f) \/ Filter(r, f)
    \/ \E a \in Articles : AddArticle(r, f, a) \/ AddFails(r, f, a)
    \/ PutArticle(r, f) \/ EndSave(r, f)
    \/ Track(r, f) \/ TrackPut(r, f) \/ LastFetch(r, f) \/ LastFetchPut(r, f)

\* Whoever saves articles.
Writers == env.runs \cup env.adders

Next ==
    \/ \E r \in env.runs : BeginRun(r)
    \/ \E r \in env.adders, f \in env.feeds : AddFetch(r, f)
    \/ \E r \in Writers : Crash(r) \/ \E f \in env.feeds : Update(r, f)
    \/ \E f \in env.feeds, a \in env.articles : Publish(f, a)
    \/ \E a \in env.articles : GrowOld(a)
    \/ DropList
    \/ Tick

Spec == Init /\ [][Next]_vars

\* Time passes and cron starts run after run; updates go on; the rate limiter and the
\* site do not refuse a feed every time they are asked.
FairSpec ==
    /\ Spec
    /\ WF_vars(Tick)
    /\ SF_vars(\E r \in env.runs : BeginRun(r))
    /\ \A f \in Feeds : /\ WF_vars(\E r \in Writers : Update(r, f))
                        /\ SF_vars(\E r \in env.runs : Start(r, f))
                        /\ SF_vars(\E r \in env.runs : Fetch(r, f))

-----------------------------------------------------------------------------
(* Correctness.                                                              *)

\* Overlapping refreshes, a feed being added that a refresh already finds due, a failed
\* duplicate check and feeds that list the same url store an article once: on SQLite
\* always.  Datastore's AddArticle asks and then puts: a feed gets an article once while
\* refreshes and requests to add feeds do not overlap, and two feeds do not both get it
\* while, on top of that, a refresh updates one feed at a time.
OneCopy ==
    LET alone == \A r, s \in Writers : r = s
    IN  /\ ~env.datastore \/ alone => \A f \in Feeds, a \in Articles : copies[f][a] <= 1
        /\ ~env.datastore \/ (alone /\ Slots <= 1)
             => \A a \in Articles : \A f, g \in Feeds :
                   copies[f][a] > 0 /\ copies[g][a] > 0 => f = g

\* RefreshFeeds keeps an ETag only for what it has stored: a site that answers "not
\* modified" hides no article but those whose INSERT failed beside one that worked.
EtagFresh ==
    \A f \in Feeds, a \in Articles :
        row[f].etag = site[f] /\ a \in site[f] => Stored(a) \/ a \in skipped

\* An article that the site of a feed keeps listing is stored in the end, whatever
\* intervals the scheduler has computed and however few articles were kept when the feed
\* was added (without failing database calls and instances).
PublishedStored ==
    \A f \in Feeds, a \in Articles :
        env.scheduler /\ ~env.faults /\ f \in known /\ a \in site[f] ~> Stored(a)
=============================================================================
