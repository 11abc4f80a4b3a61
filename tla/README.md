# A TLA+ model of GoRead2

GoRead2 is a multi-user RSS reader in Go: one HTTP server (gin) that runs against
SQLite or Google Datastore, in one process or in up to ten App Engine instances
(`app.yaml`), with a web and an iOS client, Google OAuth, Stripe and cron jobs.
This directory models the parts of the server that keep state and are hard to
test: what happens between two database calls of a request when another request,
another instance, a cron job or a failure comes in between.

Paths below are relative to the repository.

## 1. Inventory

| Component | State | Operations | Interacts with |
|---|---|---|---|
| Session store, auth middleware (`internal/auth/session.go`, `middleware.go`, `csrf.go`) | `sessions` table; per instance a cache of sessions with the user | `GetSession`, `RefreshSession`, `DeleteSession`, `CreateSession`, cleanup cron, `RequireAuth`, `RequireAdmin`, CSRF | every handler; admin changes in `users` |
| Unread counts (`internal/cache/unread_cache.go`, `feed_service.go`) | per instance: counts per user and feed, expiry per user | `Get`, `Set` with eviction, `UpdateCount`, `Invalidate`, sweep | articles, marks, subscriptions; the client's idea of a status |
| Article status (`schema.go`, `datastore.go`) | `user_articles` (read, star), `user_feeds` | mark, star, mark all, subscribe with reset, unsubscribe, orphan cleanup | unread counts, cron |
| Adding feeds (`feed_handler.go`, `feed_service.go`, `subscription_service.go`) | `feeds`, `user_feeds`, goroutines that outlive the request | add, OPML import, limit check, remove | discovery and fetching, article saving |
| Feed refresh (`feed_scheduler.go`, `feed_service.go`, `feed_list_cache.go`) | tracking fields of `feeds`, `articles`, feed list cache | staggered and plain refresh, due times, conditional GET, duplicate filter, tracking | cron, Cloud Tasks, domain rate limiter |
| OAuth login, mobile codes (`session.go`, `auth.go`, `auth_handler.go`) | states and one-time codes in the memory of an instance; `users` | login, callback (consume the state, exchange with Google, find or create the user, replace the session), code exchange, clean-up | Google, sessions, cron |
| Payments (`payment_service.go`, `payment_handler.go`, `subscription_service.go`) | subscription fields of `users`; Stripe's subscriptions | checkout, portal, webhooks, who may add feeds | Stripe, feed limit |
| Administration (`admin_handler.go`, `cmd/admin`, `audit_service.go`) | `is_admin`, free months, admin tokens, audit log | promote, demote, grant, repair a subscription, create, use and revoke tokens, initial admins at start-up | sessions, feed limit, payments |
| Article listing (`schema.go`, `datastore.go`, `feed_handler.go`) | none of its own: the cursor is with the client | pages of all feeds and of one feed, unread filter | articles, marks, subscriptions that change between two pages |
| Rate limiters (`auth/rate_limiter.go`, `services/rate_limiter.go`) | token buckets per address and per domain | allow, eviction | login, refresh |
| Stateless parts | none | parsing, sanitising, OPML, discovery, URL checks | handlers |
| Start-up, clients, tools | none at run time | configuration, secrets, schema, `cmd/*`, web and iOS clients, monitoring | |

What is hard in this code:

* **No transactions around read-then-write.** On Datastore nearly every update is a
  `Get` and a `Put` of the whole entity; on SQLite it is one statement, or a
  `SELECT` and a statement. The same handler therefore has different guarantees on
  the two backends.
* **Caches that are filled after an unlocked read**: sessions, unread counts and the
  feed list are all read from the database without a lock and stored later, and each
  instance has its own copy.
* **Work that outlives its request**: `AddFeedForUser` stops waiting after 15
  seconds, its goroutine does not stop.
* **Runs that overlap**: cron, Cloud Tasks and the button all start refreshes.
* **State with others**: Stripe, Google and the browser hold what the server needs, and
  tell it twice, late, in another order or at another instance.
* **Failures that are logged and forgotten**: a failed delete, refresh, reset or save
  does not fail its caller.

`PROJECT.json` lists the hazards line by line with the properties that cover them.

## 2. How the modules are built

One step of a model is one database call, one network call or one critical section;
everything between two of them is local to its goroutine. Every call that can fail
has a failing outcome, and what the caller does with the error is in the action.

**Environments.** Each module has a constant `Envs`, a set of records, and a variable
`env` that `Init` picks from it and no step changes. A record says which backend
`InitDB` opened, how many instances, requests, users and kinds of request there are
and how long things take. The configurations of TLC are such sets (the `MC` modules);
proofs hold for every set. Properties that only SQLite guarantees say `~env.datastore`.

**Data.** Users, sessions, feeds, urls and articles are model values. An article is
its url and its feed; an ETag stands for what the site listed when it sent it; OPML,
XML, HTML and JSON are left out.

| Module | Code | State and actions |
|---|---|---|
| `Sessions` | session store, middlewares, Logout, Callback's replacement of a session, Me, cleanup-sessions cron, SetUserAdmin | `row`, `cache[i]`, `isAdmin`, one record per request. `Lookup` is the read lock of `cacheMu`; `ReadRow`, `LoadUser` the two database calls of a miss; `Fill` the write lock; `Refresh`, `Put`, `Touch` are RefreshSession; `DropRow`, `DropCache` are DeleteSession |
| `UnreadCounts` | UnreadCache, GetUserUnreadCounts, MarkRead, MarkAllRead, subscribe, unsubscribe | `stored`, `recent` (the 90 days that count), `subs`, `read`, `cache[i]`. A miss is `Get`, `ReadFeeds`, `CountFeed` for every feed, `ReadStatuses` (Datastore) and `SetCache`; articles arrive, grow old (`GrowOld`), and a star of Datastore puts an old `is_read` back (`PutStar`) |
| `ArticleStatus` | marks and stars, MarkAllUserArticlesRead, reset on subscribe, CleanupOrphanedUserArticles | `status` rows, `subs`; the histories `wanted` (what acknowledged requests asked for, whatever they wrote), `left`, `blurred` and `gone` |
| `AddFeed` | AddFeed, ImportOPML(WithLimits), AddFeedForUser, addFeedForUserInternal, CanUserAddFeed, DeleteFeed | `feed`, `subs`, a record per request and per goroutine; `Check` asks for the limit, `Start` is the goroutine once the body was read; `Timeout` lets the request go on without its goroutine |
| `FeedRefresh` | RefreshFeedsStaggered, RefreshFeeds, shouldCheckFeed, fetchFeed, saveArticlesFromFeed, UpdateFeedTracking, UpdateFeedAfterRefresh, FeedListCache; the articles that addFeedForUserInternal saves | `copies` of articles, the feed rows, the feeds that are `known`, `list`, and per run (or request that adds a feed) and feed where the update is; timestamps are kept as ages |
| `SessionService` | what `Sessions` promises to its callers | sessions with an owner and an end, and whom a request is served as: no cache, row or instance |
| `LoginFlow` | Login, Callback, Token, HandleCallback, StoreOAuthState, ValidateAndConsumeOAuthState, CreateAuthCode, ExchangeAuthCode, clean-up | `states[i]`, `codes[i]`, `users`, `rows`, what each browser holds, a record per callback: `Callback` consumes the state, then `Exchange`, `GetUserByGoogleID`, `CreateUser`, `DeleteOldSession`, `CreateSession` and the answer are one step each |
| `SignIn` | what `LoginFlow` promises | logins with their browser and account, the session made of each, codes, and what browsers and apps hold: no instance, state, cookie or callback |
| `Accounts` | CreateCheckoutSession, WebhookHandler, HandleSubscriptionUpdate, SetAdminStatus, GrantFreeMonths, UpdateMaxArticles, InitializeAdminUsers, the commands of `cmd/admin`, CanUserAddFeed, GetUserSubscriptionInfo | `user` rows, `stripe`, `pending` events, `audit`, a `job` per process: `Lookup`, `ReadStripe`, then `Exec` (one UPDATE) or `Get` and `Put`, `Commit` (transaction) |
| `AdminTokens` (extended by `Accounts`) | create-token, revoke-token, ValidateAdminToken | `token`, `shell` |
| `Paging` | GetUserArticlesPaginated, GetUserFeedArticlesPaginated on both backends, the client that follows `next_cursor` | `article`, `subs`, `read`, and `walk`, the client's list; `UnixNano` is the date as the cursor holds it |

Two components meet where one changes what another has cached: subscriptions and
marks are part of `UnreadCounts` as well as of `ArticleStatus` (with the cache, and
with the rows in full), the addition of a feed is part of `AddFeed` and, as a writer of
articles, of `FeedRefresh`, an admin change is part of `Sessions`, and new articles are
`AddArticle` of `UnreadCounts`. `Accounts` composes the web server, the command line
(`AdminTokens`), start-ups and Stripe over one table of users. `LoginFlow` makes the
sessions whose later life is `Sessions`.

History variables (`owner`, `deletedAt`, `demotedAt`, `disturbed`, `wanted`, `left`,
`blurred`, `gone`, `skipped`,
`paid`, `settled`, `swap`, the fields `alone`, `seen`, `again` and `must`) record the
past for the properties; no guard reads them. Three also stand for something: `owner` and
`born` say which session ids exist, and `link` is what Google knows of a login.

## 3. Runs

Every component has one passing run over several environments, and a run of its own
for each statement of the docs or comments that the code does not keep.

### sessions (`Sessions.cfg`)
Environments: SQLite with all kinds of request and lookups that take time; Datastore
with two instances and a user who gains and loses admin rights; two users with two
sessions and logins that replace sessions; Datastore with the cron.

* `SessionIdentity`: a request runs as the user its session was created for.
* `RevocationBound` (SQLite): after a deletion no instance admits the session once a
  fill and a cache lifetime have passed. A plain "never after logout" is false: a
  lookup in flight puts the session back into the cache.
* `NoResurrection` (SQLite): a deleted row never comes back.
* `AdminBound` (both backends): admin rights outlive their removal by less than a
  fill and a cache lifetime.
* `ExpiredRowsRemoved` (liveness): expired rows go away although the cleanup fails.
* `ImplementsService` (refinement): with `serving` read off the requests that were let
  through, `grace` a fill and a cache lifetime, and `ended` the time the row was deleted,
  every step is one of `SessionService` or changes nothing there. On Datastore the
  grace period is not promised (`strict`).

### unread (`UnreadCounts.cfg`)
* `QuietExact`: whatever went wrong with a cached count, it is gone once the user's
  counts have been left alone for the time of one request and one cache lifetime.
  Anything stronger is false: a miss may cache counts read before a mark. "Left alone"
  includes articles that arrive or pass 90 days in one of his feeds, and on Datastore a
  star that puts an old `is_read` back.
* `CacheBounded`: never more users than `maxUsers`.
* `TypeOK` holds the counts to naturals: the clamp of `UpdateCount` is needed because
  the same article can be marked twice from two clients.

### status (`ArticleStatus.cfg`)
* `NoLostUpdate` (SQLite): `wanted` is kept from the requests and not from what the code
  writes: a mark sets it, a toggle turns it round, mark-all asks for "read" only. In the
  feeds a user has kept every row shows it, whatever marks, toggles, marks of all, resets
  and cleanups overlap, with two exceptions for stars that the code really has and `blurred`
  names: two overlapping toggles read the same star, write the same one and are both
  answered "toggled" (`schema.go:1115-1134`, `feed_handler.go:284`), and mark-all erases
  stars (run `status_mark_all`). After an unsubscription (`left`) nothing is promised until
  the feed's marks are reset: a cleanup may take the row that a waiting UPDATE has seen.
* `CleanupSpares` (both backends): a row goes away only by a cleanup during which the user
  was without the feed at some moment (`gone`), and only for an old article. On SQLite that
  is one statement, on Datastore the feed may be back when the rows are deleted, but a feed
  the user had all the while loses nothing, unless an article fails to load (`faults`).
* `OrphansRemoved` (liveness, both backends).

### addfeed (`AddFeed.cfg`)
* `OneFeedPerURL` (SQLite): whoever adds a url at the same time, it is one feed.
* `LimitOverrun`: a trial user exceeds the limit by fewer feeds than there can be requests
  past the check and goroutines at the same time. The two numbers add up: requests pass the
  check together before any goroutine runs (`AddFeed` reads the body in between), and
  goroutines that their requests left behind subscribe later still.
* `Answered` (liveness): every request and import is answered although a site never
  answers.

### refresh (`FeedRefresh.cfg`)
* `OneCopy`: an article is stored once, for one feed, on SQLite. Datastore asks before it
  puts: a feed gets an article once while runs and additions of feeds do not overlap (a
  feed being added is due at once, and its articles are saved by both), and two feeds that
  list the same url both get it unless a run also updates one feed at a time (`TurnsEnv`;
  `SCHEDULER_MAX_CONCURRENT` is 10 by default).
* `EtagFresh`: an ETag hides only articles whose insertion failed beside one that
  succeeded.
* `PublishedStored` (liveness): what a site keeps listing is stored in the end,
  whatever intervals were computed.

### accounts (`Accounts.cfg`)
Seven environments: payments with failing, repeated and overlapping events; the same on
Datastore while the user changes a setting; two admins and start-ups on both backends;
tokens on both backends; the commands that repair a subscription.

* `SettledMirrors`: when no event is open and no sync under way, a user whose status was
  last written by a sync that no other overlapped has the status Stripe gives. Without
  "that no other overlapped" it is false: the sync that asked first may write last.
* `ActiveWasPaid`: nobody is active without a subscription of his own that was active
  once, whatever ids an operator sets and whichever old entity a Put brings back.
* `GrantsKept` (SQLite): every grant of the audit log is in the row.
* `InfoAgrees`: the subscription page and the check of AddFeed decide alike, for 0 to
  `Limit + 1` feeds and all rows that can be reached. Two cases are left out where they
  differ in the code: the very instant a trial ends, and statuses like `past_due`, which
  AddFeed lets through (`subscription_service.go`) and the page does not.
* `RevokedStays` (SQLite): a revoked token stays revoked although it is being used.
* `StatusCatchesUp` (liveness): failed and repeated deliveries end in rows that mirror
  Stripe.
* `AdminsRestored` (liveness): once a configured admin has signed in there is an admin
  again and again, although two admins may demote each other.

### login (`LoginFlow.cfg`)
Environments: two browsers with overlapping callbacks on SQLite and a Google and a
database that fail; the app with two instances that restart while time passes; both
clients on one instance of Datastore.

* `StateOnce`: a state is accepted once, wherever and however often the callback is sent.
* `OwnSession`: a browser or app holds only sessions of its own logins, for the account
  that signed in there.
* `ImplementsSignIn`: states, cookies, callbacks, codes and users together implement
  `SignIn`: a login makes at most one session, of the account that signed in, and only
  the browser that began it gets it, or its app for a code that works once and in time.
  `LoginView`, `SessionView` and `HoldView` are the refinement mapping; the account of a
  session is the one its *user row* stands for, so that a wrong user would show.
  `CodeOnce`, a part of it, is proved separately.
* `OneUser` (SQLite): overlapping first logins make one user.
* `Forgotten` (liveness): on a single instance no state and no code stays for good.

### paging (`Paging.cfg`)
Environments: SQLite with pages of one and two articles, and feeds that come and go;
Datastore within its window; Datastore with failing queries and the unread filter; dates
that a cursor cannot hold.

* `NoRepeat`, `NoMiss`: following `next_cursor` returns nothing twice and misses nothing
  that was in the list all the time, where `Sound` holds: all dates are between 1678 and
  2262 (`DatesFit`), on SQLite in one zone; on Datastore for the unfiltered list of stable
  subscriptions. The cursor's `UnixNano` wraps around outside those years, which
  `parseFeedDate` accepts: a page that ends in year 1 comes back for ever, one that ends
  after 2262 hides articles. No doc speaks of such dates, so there is no run for it.
* `WalkEnds` (liveness): the client comes to the end.

### Statements the code does not keep

| Run | Property | What happens |
|---|---|---|
| `sessions_logout` | `LogoutEnds` | Datastore: `UpdateSessionExpiry` Gets the entity, a logout deletes it, the Put brings it back for seven days |
| `status_mark_all` | `StarsKept` | SQLite: mark-all-read deletes every star |
| `paging_end` | `PagesDisjoint` | Datastore, unread only: a cursor that nothing follows means the first page, and a full page gets such a cursor |
| `paging_zones` | `PagesDisjoint` | SQLite: dates are compared as texts in the publishers' zones, the cursor is in the server's; an article comes back on the next page |

`PROJECT.json` quotes the statements.

### Bounds, and why they are enough

* **Two requests, one or two instances, one or two sessions.** Every property relates
  one session (user, article, url) to the steps of at most two requests or instances:
  a race needs the two that race. A second user or session is present where mixing
  them up is the question (`TwoUsersEnv`, `FullEnv`, `CleanupEnv`).
* **Clock.** `CacheTTL = 1`, `SessionTTL = 2`, fill or request times 0 and 1, and
  `maxTime` past the sum each bound speaks of, so that the bound is reached and not
  only approached.
* **FeedRefresh** has no end of time: ages stop at `MaxAge`, above every threshold of
  `shouldCheckFeed`, in which `HalfHour < Hour < SixHours` are 1, 2, 3 (weeks and
  months use the same scale: only the order of a feed's age and the thresholds
  matters). The environments with one article suffice for `EtagFresh` without the
  scheduler; it was also checked with two articles outside the listed runs. Feeds are added
  beside a refresh (`AddingEnv` and its variants) and between two (`TurnsEnv`); an addition
  of a second entity with the same url on Datastore would be another feed.
* **AddFeed** has two requests and two goroutines at a time, three ids and a limit of 1 in
  place of 20: the overrun is counted in requests and goroutines. `LimitEnv`, with one of
  each, reaches the bound.
* **UnreadCounts** has one article, which arrives, is marked and grows old at any time.
  `PutStar` is any Put that changes `is_read`: which ones happen is with `ArticleStatus`.
* `MaxCount` stops the marks that would raise a cached count further.
* **Accounts** bounds requests, changes at Stripe and faults per environment (`ops`,
  `changes`, `faults`), with two processes. Two events of one user, or an event and a
  setting, are enough to collide; the limit of 20 feeds is 2, with all counts around it.
  Deadlock is not checked: when the bounds are used up and no start-up is configured the
  system may rest.
* **LoginFlow** has two logins, two callbacks at a time and two sessions: a confusion of
  logins needs two. Lifetimes are 1 and the clock goes to 2, past both.
* **Paging** has three articles with two dates (three in `ErasEnv`, where `NanoMin` and
  `Span` leave room for two and the first becomes the last), so that equal dates, a page boundary
  between them and an article that arrives on either side of the cursor occur; `Cap` (200
  per feed and page on Datastore) is never reached.

### Fairness

`Spec` has none; safety is checked under it or under `FairSpec`.

* `Sessions`: cron starts the handler again and again (`cron.yaml`, with retries), and
  its deletion does not fail forever (`SF`).
* `ArticleStatus`: the same for the orphan cleanup; goroutines go on (`WF`).
* `AddFeed`: handlers and database calls go on; a request that passed the check starts its
  goroutine although others come and go (`SF` of `Start`: the number of goroutines is a
  bound of the model, not of the code); a *network* call only ends because its
  context is cancelled, so `WF` covers it for a goroutine that is late and not before.
* `FeedRefresh`: time passes, cron starts runs, updates go on; the rate limiter and
  the site do not refuse a feed every time (`SF` of `Start` and of `Fetch`).
* `Accounts`: a process goes on until its job ends (`WF`); Stripe delivers an event until
  it is answered, and App Engine starts instances again and again (`SF`).
* `LoginFlow`: time passes, and the daily clean-up runs (`cron.yaml`). The handler deletes
  expired sessions first and clears no state or code when that fails
  (`auth_handler.go:272-276`), so `WF` of `Cleanup` assumes that the database does not fail
  it for ever.
* `Paging`: the client that has a cursor asks for the next page; `WalkEnds` is about such
  a client.

Otherwise clients are never fair: no liveness rests on a user doing something.

## 4. Proofs

TLAPS checks the following for every set of users, sessions, instances, requests,
urls, articles, subscriptions, tokens and goroutines, every lifetime and every set of
environments. The assumptions on the constants are the named `ASSUME`s of the component
modules: lifetimes are naturals, limits and page sizes positive, the thresholds of the
scheduler in order, `None` is no value of anything, environments are of type `Env`, and
(for counting) users, articles, feeds, feed ids, article ids, goroutines and the processes
of `Accounts` are finitely many. TLC evaluates them too.

In every module `TypeOK` contains what a request, callback, update or job in flight must
have at hand for its next step (`LocalsOK`), and a proof has one lemma per action that
shows what the action does to the record of its process; a few general lemmas (`MoveInv`,
`StartInv`, `EndInv`, ...) say what a step that only changes such a record keeps.

**`SessionsProofs`**: `TypeCorrect`; `IdentityHolds`, `NoResurrectionHolds`,
`RevocationHolds`, `AdminHolds` (`SessionIdentity`, `NoResurrection`, `RevocationBound`,
`AdminBound`); `Refinement` (`ImplementsService`). `TypeOK` is inductive.
None of the four is: a request is admitted because of a cache entry, the
entry is there because of an earlier lookup, and the lookup read a row. The invariant
`IInv` therefore says of every copy whose it is and how old it can be:

* `Owned`: rows, entries and requests of a session carry the user it was created for;
* `Timely`: no entry lives longer than `CacheTTL` from now and no lookup is older than
  `env.fillTime`;
* `Revoked` (SQLite): a lookup in flight on a deleted session read its row before the
  deletion, hence an entry made of it expires at the latest a fill and a cache lifetime
  after the deletion; and no request is between a Datastore Get and Put;
* `Demoted`: the same for admin rights, on both backends.

The proof first reduces a step to what it does to a request (`Learns`), a row
(`RowStep`) and an entry (`EntryStep`); each part of `IInv` is then preserved by such a
step (`Works`), by a change of admin rights and by the clock. On Datastore `Revoked`
fails at exactly one step, `Put`, which is what run `sessions_logout` shows.

For the refinement each step of a request changes what is served in one of three ways
(`ServingStep`): not at all, it ends, or it is let through; `IInv` gives the user and, on
SQLite, the time of the last one. Deleting rows is the service's `End`.

**`UnreadCountsProofs`**: `TypeCorrect`, `QuietExactHolds`, `CacheBoundedHolds`. A served
count comes from an entry, the entry from a read of several steps. `Inv` says of a read in
progress that, if it began after the user was last disturbed, what it has collected is
the truth about the feeds it has done (`Exact`, for each of its steps and both backends);
of an update, that its own change is a later disturbance (`Marked`); and of an entry, that
it is exact if it expires later than a request time and a lifetime after the
disturbance (`EntryOK`). `CacheBounded` counts the users that eviction leaves.

**`ArticleStatusProofs`**: `TypeCorrect`, `NoLostUpdateHolds`, `CleanupSparesHolds`. A
request writes what it makes of a row it saw earlier, so `NoLostUpdate` needs to know about
requests in flight: `RowFound` (the row an UPDATE relies on is still there while the feed is
kept), `SeenStar` (a toggle has seen the star that its user wants turned round, unless the
star was written meanwhile, and then the row is blurred), `KeptFeeds` and
`DeletesLater`. For `CleanupSpares`, `GoneKnown`: a cleanup's `gone` has every feed the user
lacks, and what Datastore has collected to delete is old and among them.

**`FeedRefreshProofs`**: `TypeCorrect`, `OneCopyHolds`, `EtagFreshHolds`. For `OneCopy`,
`PutFresh` says that between Datastore's question and its Put nobody else stored the
article, under the conditions in which that is so, and `OneActive` that one slot means one
active update; `Confined` says that there are no other writers of articles than the
refreshes and additions of the workload. For `EtagFresh`, `Tags` follows every copy of an ETag (the row, the cached
list, the row an update has read, the entity it is about to put, the answer of the
site) and says that it stands for articles that are stored or were skipped.

**`AccountsProofs`**: `TypeCorrect`, `SettledMirrorsHolds`, `ActiveWasPaidHolds`,
`GrantsKeptHolds`, `InfoAgreesHolds`, `RevokedStaysHolds`.

* `Good` says of a job: the row it is about to change exists, an "active" it is about to
  write, or to put back with an old entity, belongs to a user who has paid, and a sync
  writes the row of the subscription's owner. With `Bills` (what is active at Stripe was
  paid) it gives `ActiveWasPaid`.
* `SettledMirrors` needs to know where the news is. `Settled`: a settled row mirrors Stripe
  or an event of its subscription is on its way (not delivered, or delivered and not
  written). `Fresh`: what an undisturbed sync is about to write is what Stripe says, or an
  event is coming that will ask again; when that one asks, the sync is no longer alone.
  `EventsKept` is what every other step does: a webhook ends only after its write, or is
  delivered again.
* `GrantsKept` is not inductive, since the row is written before the log. `Granted` counts
  the jobs between the two: logged grants + grants still to be logged <= free months.
* `RevokedStays` looks at all steps of both modules; on SQLite only `GenerateAdminToken`
  and `RevokeAdminToken` write a token.


**`AddFeedProofs`**: `TypeCorrect`, `OneFeedHolds`, `OverrunHolds` (`TypeOK`,
`OneFeedPerURL`, `LimitOverrun`). `OneFeedPerURL` is inductive with the types.
`LimitOverrun` is not: between the check and the subscription of a goroutine the count
says nothing. `LimitInv` counts the requests that have passed the check (`Admitted`) and
the goroutines that may still subscribe (`Active`) as if they had: subscriptions + these of
a trial user < limit + requests + goroutines. Only the check, below the limit, adds to the
left side; a start and a subscription move one from one number to the next.

**`LoginProofs`**: `TypeCorrect`, `StateOnceHolds`, `OwnSessionHolds`, `OneUserHolds`,
`CodeOnceHolds`, `Refinement` (`ImplementsSignIn`). What a browser holds depends on who asked for the state that led to it,
so the invariant follows a login through its places: in the memory of exactly one instance
(`Issued`), or with exactly one callback (`Alone`), which serves the browser of the login
and the account that signed in (`Callbacks`), or in exactly one session (`Made`), and
cookies and codes come from the browser's own logins (`Cookies`). A step is reduced to
what it takes back (`Grows`: nothing) and what it does to a callback (`Goes`); only the
beginning of a login, of a callback and of a session are treated by themselves. `CodeInv`
adds that a code is in one instance's memory, unused, and that no callback will make it
again. The refinement needs all of it: `Make` is allowed because no session has the
callback's state (`Callbacks`), `Deliver` and `Offer` go to the owner because a callback
serves the browser of its login and no code was made yet (`CodeInv`), `Redeem` because the
app's code is of its own login (`Cookies`). `SessionsSeen` shows that creating a user
changes nothing to be seen: no user goes over to another account.

**`PagingProofs`**: `TypeCorrect`, `NoRepeatHolds`, `NoMissHolds`, on both backends and
wherever `Sound` holds. `PagesInv` splits the articles at the cursor: what was returned lies
up to it and what is still owed lies beyond it (`Split`). On SQLite `OneZone` makes the texts
of the dates compare like the dates, and `DatesFit` those of the cursor too. On Datastore a page takes two steps, so the references
collected by the first lie between what is owed and what is listed; and a cursor is only
given when something follows it, so that `startIdx` is never left at 0, which is what
`paging_end` shows for the filtered list. The lemmas about LIMIT: what it returns comes
before what it leaves out (`TopIsFirst`), a LIMIT that is large enough leaves nothing out
(`TopAll`), and one that leaves something out returns exactly its number of rows
(`TopCount`, for the last of the returned rows: a set of naturals has a least element,
`Least`, because `<` is well-founded). They count the rows before a row (`Rank`). `Sound` may fail in one state and hold again only when
a new list is opened (`SoundBefore`), since articles are never removed.

The inductive invariant of `Accounts`, the largest, was checked by TLC on the
environments of its run before it was proved.

**What the proofs changed.** Three attempts failed for a good reason:

* `OneCopy` used to promise one copy on Datastore whenever runs do not overlap. It is false:
  a single run updates several feeds at a time, and two of them that list the same url
  both ask before either puts. The environments had one feed per run there; the
  statement now has the condition and `TurnsEnv` the case.
* `QuietExact` allowed two request times. The proof needs one.
* Some `CASE` expressions had guards that overlap, for which TLA+ does not say which arm is
  taken although TLC takes the first; each guard now excludes the ones before it.

**Only model-checked**: liveness (`ExpiredRowsRemoved`, `OrphansRemoved`, `Answered`,
`PublishedStored`, `StatusCatchesUp`, `AdminsRestored`, `Forgotten`, `WalkEnds`), which is
out of the prover's reach. Every other property of a passing run (the safety invariants,
the action properties and both refinements) is proved as it is checked.

## 5. What the modelling showed besides the runs

Noticed while translating; the models contain the steps, and no run is spent on them.

* A cache hit does not look at `ExpiresAt` (`session.go:118`), and `RefreshSession` then
  renews the expired row; `docs/api.md:804-806` says the session "hasn't expired".
* The Datastore cleanup treats an article it failed to load as orphaned
  (`datastore.go:1809`) and deletes from subscriptions read earlier; its grace period
  counts from the article's creation and not from the unsubscription
  (`feed_handler.go:437`).
* Datastore has no unique url: two additions at the same time make two feeds
  (`datastore.go:182`), of which a refresh updates one.
* Article urls are unique over all feeds: an article that two feeds list is stored for
  the first only, and counts as new content of the second.
* Marking an article older than 90 days changes a cached unread count that never
  contained it, until the entry expires (`unread_cache.go`, `UpdateCount`).
* Datastore looks for duplicates among the last 90 days only: a listed article stored
  before that counts as new content in every refresh.
* Datastore: a mark and a star of one article at the same time undo each other, both
  acknowledged (whole-entity Puts). On both backends one of two overlapping toggles is
  lost, and both are acknowledged.
* Datastore: an article of a feed being added is stored twice when a refresh comes in
  between (`feed_service.go:304-314`).
* Dates outside 1678 to 2262 overflow in a cursor (`schema.go:985`).
* Requests pass the limit check together, before their bodies are read, and a goroutine
  that outlived its request subscribes after the limit was checked for the next url; `LimitOverrun` is the bound that remains.
* Datastore: `ValidateAdminToken` puts the token back as it was read and can undo a
  revocation (`cmd/admin/main.go:625` says the token "cannot be used").
* Checkout looks at the status and not at Stripe: a user can pay twice, and then the
  events of two subscriptions write one status in turn.
* A failed lookup of a user counts as "no such user"; on Datastore a second user of the
  same account is made.
* States and codes live in one instance: a callback that reaches another one fails. The
  comment at `session.go:350` calls the clean-up of states opportunistic; only the cron
  does it, on the one instance it reaches.
* The answer of a callback clears the state cookie, also that of a second login begun in
  the meantime, which then fails.
* Errors of the audit log are ignored (`docs/admin.md:237`: "All admin
  operations are automatically logged").
* Datastore: a feed whose query fails is listed as if it had no articles
  (`datastore.go:945`).
* Overlapping refreshes write `last_had_new_content` from the rows they read
  (`datastore.go:228`).
* The scheduler never sends an ETag (`docs/performance.md:97-99` describes conditional
  requests), and takes one token of the domain's rate limit where the fetch takes a
  second.
* The hash that staggers feeds is taken as nanoseconds: delays are below 4.3 s.

## 6. Not modelled

Listed in `PROJECT.json` with the reasons:

* **Rate limiters**: the token buckets are `golang.org/x/time/rate`; `FeedRefresh` lets
  the limiter refuse at any time. `CleanupOldLimiters` is called only by the loop of
  `FeedScheduler.Start`, which `main.go` does not start (nor is that loop modelled).
* **Cloud Tasks and cron verification**: a call to a Google service and header checks; the
  work they start is in the modules.
* **Parsing, sanitising, OPML, discovery, URL validation**: text without state; of
  discovery and OPML the outcomes are inputs of `AddFeed`.
* **Request cache**: lives for one request.
* **Configuration, secrets, logging, schema creation and migration**: start-up code; the
  choices it makes are the environments.
* **Clients, other command-line tools, monitoring.**

Of the modelled parts: UNIQUE email and the choice of the redirect url in the login, the
Stripe customer, the billing portal and the dates of payment (nothing decides on them),
and read-only listings.

## 7. Plan

1. The change of a user's plan while feeds are added (`AddFeed` has fixed plans).
2. An abstract specification for `UnreadCounts`, whose promise (`QuietExact`) is so far an
   invariant of the detailed module.
