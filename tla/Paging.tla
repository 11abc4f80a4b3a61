-------------------------------- MODULE Paging --------------------------------
(***************************************************************************)
(* Reading a list of articles page by page: GetUserArticlesPaginated and   *)
(* GetUserFeedArticlesPaginated on both backends, and a client that        *)
(* follows next_cursor while articles arrive, are marked, and feeds come   *)
(* and go.                                                                 *)
(*                                                                         *)
(* A page is a set here; its order is that of the times and ids.           *)
(***************************************************************************)
EXTENDS Integers, FiniteSets

CONSTANTS
    Feeds,
    Ids,       \* article ids; bounds the articles
    Times,     \* the dates that publishers give
    Cap,       \* maxArticlesPerFeed (200)
    NanoMin,   \* the first date that int64 nanoseconds can hold (in 1677)
    Span,      \* how many dates they can hold (up to 2262)
    Envs,      \* the deployments and workloads considered
    None

ASSUME SetsAssumption == Ids \subseteq Nat /\ Times \subseteq Nat /\ IsFiniteSet(Ids)
ASSUME CapAssumption == Cap \in Nat \ {0}
ASSUME NanoAssumption == NanoMin \in Nat /\ Span \in Nat \ {0}

\* limit: the page size the client asks for.  unread: the filters it uses.  zones:
\* publishers date in zones other than the server's.  eras: they date centuries ago or
\* ahead.  churn: the user subscribes and unsubscribes meanwhile.  faults: queries of
\* single feeds and of the marks may fail.
Env == [datastore: BOOLEAN, limit: Nat \ {0}, unread: SUBSET BOOLEAN, zones: BOOLEAN,
        eras: BOOLEAN, churn: BOOLEAN, faults: BOOLEAN]

ASSUME EnvsAssumption == Envs \subseteq Env

VARIABLES
    env,      \* chosen when the server starts
    article,  \* articles: feed, date and the zone of the date
    subs,     \* user_feeds of the user
    read,     \* user_articles of the user: the articles marked read
    walk      \* the client's list

vars == <<env, article, subs, read, walk>>

\* zone 0 is the server's, zone 1 is one hour ahead of it and zone -1 one behind.
Article == [feed: Feeds, time: Times, zone: -1..1]
Cursor  == [time: Int, id: Ids]

ASSUME NoneAssumption == None \notin Feeds \cup Article \cup Cursor

\* The date in a cursor: publishedAt.UnixNano() is an int64 and wraps around.  The
\* dates of publishers may be any from year 1 on.
UnixNano(time) == NanoMin + ((time - NanoMin) % Span)

\* "page": a page is being put together from refs (Datastore).  seen: the articles
\* returned so far; again: one of them was returned before; must: the articles that
\* belonged in the list since it was opened.
Walk == [pc: {"closed", "open", "page"}, feed: Feeds \cup {None}, unread: BOOLEAN,
         cursor: Cursor \cup {None}, refs: SUBSET Ids, seen: SUBSET Ids, again: BOOLEAN,
         must: SUBSET Ids]

TypeOK ==
    /\ env \in Envs
    /\ article \in [Ids -> Article \cup {None}]
    /\ subs \subseteq Feeds
    /\ read \subseteq Ids
    /\ walk \in Walk
    /\ \A i \in walk.seen \cup walk.refs \cup walk.must : article[i] # None
    /\ walk.cursor # None => /\ walk.cursor.id \in walk.seen
                             /\ walk.cursor.time = UnixNano(article[walk.cursor.id].time)

Init ==
    /\ env \in Envs
    /\ article = [i \in Ids |-> None]
    /\ subs = Feeds
    /\ read = {}
    /\ walk = [pc |-> "closed", feed |-> None, unread |-> FALSE, cursor |-> None, refs |-> {},
               seen |-> {}, again |-> FALSE, must |-> {}]

Stored == {i \in Ids : article[i] # None}

\* The rows of the query: the user's feeds or the one asked for, and the filter.
Listed(feed, unread) ==
    {i \in Stored : /\ article[i].feed \in subs
                    /\ feed # None => article[i].feed = feed
                    /\ unread => i \notin read}

\* The articles of S need no longer be in an open list.
Drop(S) == walk' = IF walk.pc = "closed" THEN walk ELSE [walk EXCEPT !.must = @ \ S]

-----------------------------------------------------------------------------
(* What happens meanwhile.                                                   *)

\* A refresh saves an article; ids ascend on SQLite only.
Arrive(i, a) ==
    /\ article[i] = None
    /\ ~env.datastore => \A j \in Ids : article[j] = None => i <= j
    /\ ~env.zones => a.zone = 0
    /\ ~env.eras => UnixNano(a.time) = a.time
    /\ article' = [article EXCEPT ![i] = a]
    /\ UNCHANGED <<env, subs, read, walk>>

Mark(i) ==
    /\ i \in Stored
    /\ read' = IF i \in read THEN read \ {i} ELSE read \cup {i}
    /\ Drop(IF walk.unread THEN {i} ELSE {})
    /\ UNCHANGED <<env, article, subs>>

ToggleFeed(f) ==
    /\ env.churn
    /\ subs' = IF f \in subs THEN subs \ {f} ELSE subs \cup {f}
    /\ Drop({i \in Stored : article[i].feed = f})
    /\ UNCHANGED <<env, article, read>>

-----------------------------------------------------------------------------
(* The client and the pages.                                                 *)

\* A list is opened.  One that the client gives up is forgotten, so that opening needs
\* to be considered only when there is none.
Open(feed, unread) ==
    /\ walk.pc = "closed"
    /\ unread \in env.unread
    /\ walk' = [pc |-> "open", feed |-> feed, unread |-> unread, cursor |-> None, refs |-> {},
                seen |-> {}, again |-> FALSE, must |-> Listed(feed, unread)]
    /\ UNCHANGED <<env, article, subs, read>>

\* How published_at compares: SQLite keeps the text of the date in the publisher's zone
\* and compares texts, wall clock first and then the zone, of which +00:00 comes first
\* and -01:00 last; Datastore compares instants.
Key(time, zone) == IF env.datastore THEN time ELSE 3 * (time + zone) + (zone % 3)
KeyOf(i)        == Key(article[i].time, article[i].zone)

\* j comes after i in the list.
After(i, j) == KeyOf(j) < KeyOf(i) \/ (KeyOf(j) = KeyOf(i) /\ j < i)

\* Mutant of Beyond: the id is not compared.
BeyondDate(c, i) == KeyOf(i) < Key(c.time, 0)
\* Mutant of Beyond: it takes in the cursor's own article.
BeyondSame(c, i) == KeyOf(i) < Key(c.time, 0) \/ (KeyOf(i) = Key(c.time, 0) /\ i <= c.id)

\* The condition on the cursor; its time is an instant (time.Unix), so its text has the
\* server's zone.
Beyond(c, i) == KeyOf(i) < Key(c.time, 0) \/ (KeyOf(i) = Key(c.time, 0) /\ i < c.id)

From(S) == IF walk.cursor = None THEN S ELSE {i \in S : Beyond(walk.cursor, i)}

\* The n first of S.
Top(S, n) == {i \in S : Cardinality({j \in S : After(j, i)}) < n}

\* Mutant of Return: the cursor has the id of one article and the date of another.
ReturnMixed(page, more) ==
    /\ \E first, last \in page :
         /\ more
         /\ \A i \in page : ~After(last, i) /\ ~After(i, first)
         /\ walk' = [walk EXCEPT !.pc = "open", !.refs = {}, !.seen = @ \cup page,
                       !.cursor = [time |-> UnixNano(article[last].time), id |-> first]]
    /\ UNCHANGED <<env, article, subs, read>>

\* The client gets a page and the cursor of its last article, or none: the list is
\* complete.
Return(page, more) ==
    /\ IF more
         THEN \E last \in page :
                /\ \A i \in page : ~After(last, i)
                /\ walk' = [walk EXCEPT !.pc = "open", !.refs = {}, !.seen = @ \cup page,
                              !.again = @ \/ page \cap walk.seen # {},
                              !.cursor = [time |-> UnixNano(article[last].time), id |-> last]]
         ELSE walk' = [walk EXCEPT !.pc = "closed", !.refs = {}, !.seen = @ \cup page,
                         !.again = @ \/ page \cap walk.seen # {}, !.cursor = None]
    /\ UNCHANGED <<env, article, subs, read>>

\* SQLite: one query, which fetches one row more than the page to see whether there
\* are more.
Page ==
    LET rest == From(Listed(walk.feed, walk.unread))
        page == Top(rest, env.limit)
    IN  /\ walk.pc = "open" /\ ~env.datastore
        /\ Return(page, rest \ page # {})

Window == IF 2 * env.limit > Cap THEN Cap ELSE 2 * env.limit

\* Order("-published_at") with a limit of n: of articles with the same date any.
Newest(T, S, n) ==
    /\ T \subseteq S
    /\ Cardinality(T) = IF Cardinality(S) <= n THEN Cardinality(S) ELSE n
    /\ \A i \in T, j \in S \ T : article[j].time <= article[i].time

OfFeed(f) == {i \in Stored : article[i].feed = f}

\* Datastore, first pass: the newest articles of every feed.  A feed whose query fails
\* is left out.  A client who asks for a feed he does not have gets an empty list.
Project ==
    /\ walk.pc = "open" /\ env.datastore
    /\ LET mine == {f \in subs : walk.feed # None => f = walk.feed}
       IN  \E got \in SUBSET mine : \E refs \in SUBSET {i \in Stored : article[i].feed \in got} :
             /\ got = mine \/ env.faults
             /\ \A f \in got : Newest(refs \cap OfFeed(f), OfFeed(f), Window)
             /\ walk' = [walk EXCEPT !.pc = "page", !.refs = refs]
    /\ UNCHANGED <<env, article, subs, read>>

\* startIdx stays 0 when no ref follows the cursor.
Rest == IF From(walk.refs) = {} THEN walk.refs ELSE From(walk.refs)

\* Second pass: the marks of the candidates, and the page.  Without the marks all count
\* as unread.
Fetch ==
    LET candidates == Top(Rest, IF walk.unread THEN Window ELSE env.limit)
    IN  /\ walk.pc = "page"
        /\ \E marked \in {read, {}} :
             LET page == Top(IF walk.unread THEN candidates \ marked ELSE candidates, env.limit)
             IN  /\ marked = read \/ env.faults
                 /\ Return(page, /\ Cardinality(page) = env.limit
                                 /\ candidates # page \/ Rest # candidates)

Next ==
    \/ \E i \in Ids : Mark(i) \/ \E a \in Article : Arrive(i, a)
    \/ \E f \in Feeds : ToggleFeed(f)
    \/ \E f \in Feeds \cup {None}, u \in BOOLEAN : Open(f, u)
    \/ Page \/ Project \/ Fetch

Spec == Init /\ [][Next]_vars

\* The client goes on asking for the next page.
FairSpec == Spec /\ WF_vars(Page \/ Project \/ Fetch)

-----------------------------------------------------------------------------
(* Correctness.                                                              *)

\* A cursor can hold the date of every article.
DatesFit == \A i \in Stored : UnixNano(article[i].time) = article[i].time

\* Where the pages are sound: all dates fit into a cursor; on SQLite, they are in one
\* zone; on Datastore, the whole list without filter, all feeds within the window, nothing
\* failing or unsubscribed.
Sound ==
    /\ DatesFit
    /\ IF env.datastore
         THEN ~walk.unread /\ ~env.churn /\ ~env.faults /\ Cardinality(Stored) <= Window
         ELSE ~env.zones

\* Following next_cursor returns no article twice, whatever arrives, is marked or is
\* subscribed to meanwhile (keyset pagination by published_at and id).
NoRepeat == Sound => ~walk.again

\* A list that ended has returned every article that belonged in it from the time it was
\* opened, whatever else changed meanwhile (the extra row decides whether it ended).
NoMiss == Sound /\ walk.pc = "closed" => walk.must \subseteq walk.seen

\* A client that follows next_cursor comes to the end of the list, although articles
\* arrive and change meanwhile.
WalkEnds == []<>(walk.pc = "closed" \/ ~Sound)

\* What the tests of the pages say, of every list and every deployment: the pages that a
\* client gets by following next_cursor do not overlap.
PagesDisjoint == ~walk.again
=============================================================================
