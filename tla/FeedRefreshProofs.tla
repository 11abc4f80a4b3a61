-------------------------- MODULE FeedRefreshProofs --------------------------
(***************************************************************************)
(* Proofs about FeedRefresh for every number of feeds, articles and        *)
(* overlapping refreshes and additions of feeds, with and without the      *)
(* scheduler.                                                              *)
(***************************************************************************)
EXTENDS FeedRefresh, FiniteSetTheorems, TLAPS

USE FeedsAssumption, TimeAssumption, EnvsAssumption, NoneAssumption

-----------------------------------------------------------------------------
(* Types.                                                                    *)

\* What a deployment may be.
LEMMA EnvType ==
  ASSUME TypeOK
  PROVE  /\ env.datastore \in BOOLEAN /\ env.scheduler \in BOOLEAN /\ env.maxConcurrent \in Nat
         /\ env.runs \subseteq Runs /\ env.adders \subseteq Runs /\ Writers \subseteq Runs
         /\ env.feeds \subseteq Feeds /\ env.articles \subseteq Articles
         /\ Slots \in Nat
  BY DEF TypeOK, Env, Slots, Writers

\* What an update of a feed may hold.
LEMMA WorkFields ==
  ASSUME NEW w \in Work
  PROVE  /\ w.pc \in PCs /\ w.snap \in Row \cup {None} /\ w.body \in SUBSET Articles
         /\ w.tag \in (SUBSET Articles) \cup {None} /\ w.todo \in SUBSET Articles
         /\ w.art \in Articles \cup {None} /\ w.saved \in BOOLEAN /\ w.ok \in BOOLEAN
         /\ w.out \in Row \cup {None} /\ w.new \in BOOLEAN
  BY DEF Work

\* What the columns of a feed may hold.
LEMMA RowFields ==
  ASSUME NEW w \in Row
  PROVE  /\ w.checked \in Ages \cup {None} /\ w.newest \in Ages \cup {None}
         /\ w.interval \in Ages /\ w.etag \in (SUBSET Articles) \cup {None} /\ w # None
  BY DEF Row

\* A feed that a run has finished with.
LEMMA DoneType ==
  /\ Done \in Work /\ LocalsOK(Done) /\ Done.pc = "done" /\ Done.snap = None /\ Done.out = None
  /\ Done.tag = None /\ Done.ok = FALSE
  BY DEF Done, Queue, Work, PCs, LocalsOK

\* The row of a feed that was just added.
LEMMA NewRowType ==
  NewRow \in Row /\ NewRow.etag = None
  BY DEF NewRow, Row, Ages

\* The row that tracking writes, and rows that get older, are rows.
LEMMA OlderType ==
  ASSUME NEW n \in Ages \cup {None}
  PROVE  Older(n) \in Ages \cup {None}
  BY DEF Older, Ages

\* Time passes for a row and leaves its ETag alone.
LEMMA LaterType ==
  ASSUME NEW w \in Row
  PROVE  Later(w) \in Row /\ Later(w).etag = w.etag
PROOF
  <1>1. Older(w.checked) \in Ages \cup {None} /\ Older(w.newest) \in Ages \cup {None} /\ w # None
    BY RowFields, OlderType
  <1> QED
    BY <1>1 DEF Later, Row

\* The running average stays a time.
LEMMA AverageType ==
  ASSUME NEW w \in Row
  PROVE  Average(w) \in Ages
PROOF
  <1>1. w.newest \in Ages \cup {None} /\ w.interval \in Ages
    BY RowFields
  <1>2. \A i, n \in Ages : (i * 7 + n * 3) \div 10 \in Ages
    BY DEF Ages
  <1> QED
    BY <1>1, <1>2 DEF Average

\* The tracked row takes the ETag of the answer exactly when the update went well.
LEMMA TrackedType ==
  ASSUME TypeOK, NEW w \in Work, w.snap \in Row, NEW cur \in Row
  PROVE  /\ Tracked(w, cur) \in Row
         /\ Tracked(w, cur).etag = IF w.ok /\ ~env.scheduler THEN w.tag ELSE cur.etag
PROOF
  <1> DEFINE new    == w.ok /\ w.saved
             newest == IF new THEN 0 ELSE w.snap.newest
             kept   == IF env.datastore /\ newest = None THEN cur.newest ELSE newest
             int    == IF new THEN Average(w.snap) ELSE w.snap.interval
             etag   == IF w.ok /\ ~env.scheduler THEN w.tag ELSE cur.etag
  <1>1. int \in Ages
    BY AverageType, RowFields
  <1>2. kept \in Ages \cup {None}
    <2>1. 0 \in Ages
      BY DEF Ages
    <2> QED
      BY <2>1, RowFields
  <1>3. etag \in (SUBSET Articles) \cup {None}
    BY WorkFields, RowFields
  <1>4. Tracked(w, cur) = [checked |-> 0, newest |-> kept, interval |-> int, etag |-> etag]
    BY DEF Tracked
  <1> HIDE DEF int, kept, etag
  <1>5. /\ Tracked(w, cur) \in Row /\ Tracked(w, cur).etag = etag
    BY <1>1, <1>2, <1>3, <1>4 DEF Row, Ages
  <1> QED
    BY <1>5 DEF etag

\* The update of one feed goes on as w and the others do not move.
LEMMA Moved ==
  ASSUME TypeOK, NEW r \in Runs, NEW f \in Feeds, NEW w \in Work, LocalsOK(w), Move(r, f, w)
  PROVE  /\ work' \in [Runs -> [Feeds -> Work]]
         /\ \A s \in Runs, g \in Feeds : LocalsOK(work'[s][g])
         /\ work'[r][f] = w
         /\ \A s \in Runs, g \in Feeds : s # r \/ g # f => work'[s][g] = work[s][g]
  BY DEF TypeOK, Move

-----------------------------------------------------------------------------
(* The inductive invariant.                                                  *)

Alone        == \A r, s \in Writers : r = s
Active(r, f) == work[r][f].pc \notin {"done", "queued"}
\* An update of r may become active: with one slot, none is.
Free(r)      == Slots <= 1 => \A f \in Feeds : ~Active(r, f)

\* Only the runs and the requests of the workload have updates in flight.
Confined == \A r \in Runs, f \in Feeds : work[r][f].pc # "done" => r \in Writers

\* With one slot a run updates one feed at a time.
OneActive ==
  Slots <= 1 => \A r \in Runs : \A f, g \in Feeds : Active(r, f) /\ Active(r, g) => f = g

\* Between Datastore's question whether it has an article and the Put, nobody else has
\* stored it: for the same feed if there is one run, for any feed if it has one slot.
PutFresh ==
  \A r \in Runs, f \in Feeds :
     work[r][f].pc = "put" =>
        /\ env.datastore
        /\ Alone => copies[f][work[r][f].art] = 0
        /\ Alone /\ Slots <= 1 => ~Stored(work[r][f].art)

\* What an ETag may stand for.
Safe            == {a \in Articles : Stored(a) \/ a \in skipped}
CoveredBy(e, S) == e = None \/ e \subseteq S

\* The ETags an update holds: those of the rows it has read, or is about to write, and
\* the one it got with the body, which counts once the body has been saved.
WorkTags(w, S) ==
  /\ w.snap # None => CoveredBy(w.snap.etag, S)
  /\ w.out # None => CoveredBy(w.out.etag, S)
  /\ w.ok => CoveredBy(w.tag, S)
  /\ w.pc \in {"queued", "fetch"} => ~w.ok
  /\ w.tag = w.body \/ CoveredBy(w.tag, S)

Tags ==
  /\ \A f \in Feeds : CoveredBy(row[f].etag, Safe)
  /\ list # None => \A f \in Feeds : list[f] # None => CoveredBy(list[f].etag, Safe)
  /\ \A r \in Runs, f \in Feeds : WorkTags(work[r][f], Safe)

Inv == TypeOK /\ Confined /\ OneActive /\ PutFresh /\ OneCopy /\ Tags

\* With one slot, a run that gets it has no active update.
LEMMA SlotFree ==
  ASSUME TypeOK, NEW r \in Runs, Slot(r)
  PROVE  Free(r)
PROOF
  <1> SUFFICES ASSUME Slots <= 1, NEW f \in Feeds
               PROVE  ~Active(r, f)
    BY DEF Free
  <1> DEFINE A == {g \in Feeds : work[r][g].pc \notin {"done", "queued"}}
  <1>1. IsFiniteSet(A) /\ Cardinality(A) \in Nat
    <2>1. IsFiniteSet(A)
      BY FS_Subset
    <2> QED
      BY <2>1, FS_CardinalityType
  <1>2. Cardinality(A) = 0
    BY <1>1, EnvType DEF Slot
  <1>3. A = {}
    BY <1>1, <1>2, FS_EmptySet
  <1> QED
    BY <1>3 DEF Active

\* What is covered stays covered when more articles are.
LEMMA CoveredMore ==
  ASSUME NEW S, NEW T, S \subseteq T
  PROVE  /\ \A e : CoveredBy(e, S) => CoveredBy(e, T)
         /\ \A w : WorkTags(w, S) => WorkTags(w, T)
  BY DEF CoveredBy, WorkTags

\* A step that stores or skips more articles covers more ETags.
LEMMA SafeGrows ==
  ASSUME skipped \subseteq skipped',
         \A f \in Feeds, a \in Articles : copies[f][a] > 0 => copies'[f][a] > 0
  PROVE  Safe \subseteq Safe'
  BY DEF Safe, Stored

\* The part of the invariant about updates in flight, when r's update of f goes on as w.
LEMMA MoveInv ==
  ASSUME Inv, NEW r \in Writers, NEW f \in Feeds, NEW w \in Work, LocalsOK(w), Move(r, f, w),
         UNCHANGED <<env, site, old>>, list' = list \/ list' = None,
         known' \subseteq Feeds, row' \in [Feeds -> Row],
         copies' \in [Feeds -> [Articles -> Nat]],
         skipped' \subseteq Articles, Safe \subseteq Safe',
         w.pc \notin {"done", "queued"} => Active(r, f) \/ Free(r),
         \A g \in Feeds : CoveredBy(row'[g].etag, Safe'),
         WorkTags(w, Safe')
  PROVE  TypeOK' /\ Confined' /\ OneActive' /\ Tags'
PROOF
  <1>1. TypeOK /\ r \in Runs
    BY EnvType DEF Inv
  <1>2. /\ work' \in [Runs -> [Feeds -> Work]]
        /\ \A s \in Runs, g \in Feeds : LocalsOK(work'[s][g])
        /\ work'[r][f] = w
        /\ \A s \in Runs, g \in Feeds : s # r \/ g # f => work'[s][g] = work[s][g]
    BY <1>1, Moved
  <1>3. TypeOK'
    BY <1>1, <1>2 DEF TypeOK
  <1>4. Confined'
    BY <1>2 DEF Inv, Confined, Writers
  <1>5. OneActive'
    <2> SUFFICES ASSUME Slots <= 1, NEW s \in Runs, NEW g \in Feeds, NEW h \in Feeds,
                        work'[s][g].pc \notin {"done", "queued"},
                        work'[s][h].pc \notin {"done", "queued"}, g # h
                 PROVE  FALSE
      BY DEF OneActive, Active, Slots
    <2>1. \A x \in Feeds : work'[s][x].pc \notin {"done", "queued"}
             => Active(s, x) \/ (s = r /\ x = f /\ Free(r))
      BY <1>2 DEF Active
    <2>2. CASE s = r /\ Free(r)
      BY <2>1, <2>2 DEF Free
    <2>3. CASE ~(s = r /\ Free(r))
      BY <2>1, <2>3 DEF Inv, OneActive
    <2> QED
      BY <2>2, <2>3
  <1>6. Tags'
    <2>1. list' # None => \A g \in Feeds : list'[g] # None => CoveredBy(list'[g].etag, Safe')
      BY CoveredMore DEF Inv, Tags
    <2>2. \A s \in Runs, g \in Feeds : WorkTags(work'[s][g], Safe')
      BY <1>2, CoveredMore DEF Inv, Tags
    <2> QED
      BY <2>1, <2>2 DEF Tags
  <1> QED
    BY <1>3, <1>4, <1>5, <1>6

\* An update that stores nothing.
LEMMA MoveKeeps ==
  ASSUME Inv, NEW r \in Writers, NEW f \in Feeds, NEW w \in Work, LocalsOK(w), Move(r, f, w),
         UNCHANGED <<env, site, copies, old>>, list' = list \/ list' = None,
         known' \subseteq Feeds, row' \in [Feeds -> Row],
         skipped \subseteq skipped', skipped' \subseteq Articles,
         w.pc \notin {"done", "queued"} => Active(r, f) \/ Free(r),
         w.pc = "put" => env.datastore /\ ~Stored(w.art),
         \A g \in Feeds : CoveredBy(row'[g].etag, Safe'),
         WorkTags(w, Safe')
  PROVE  Inv'
PROOF
  <1>1. TypeOK /\ r \in Runs
    BY EnvType DEF Inv
  <1>2. Safe \subseteq Safe'
    BY SafeGrows
  <1>3. copies' \in [Feeds -> [Articles -> Nat]]
    BY <1>1 DEF TypeOK
  <1>4. TypeOK' /\ Confined' /\ OneActive' /\ Tags'
    BY <1>2, <1>3, MoveInv
  <1>5. /\ work'[r][f] = w
        /\ \A s \in Runs, g \in Feeds : s # r \/ g # f => work'[s][g] = work[s][g]
    BY <1>1, Moved
  <1>6. PutFresh'
    <2> SUFFICES ASSUME NEW s \in Runs, NEW g \in Feeds, work'[s][g].pc = "put"
                 PROVE  /\ env.datastore
                        /\ Alone => copies[g][work'[s][g].art] = 0
                        /\ Alone /\ Slots <= 1 => ~Stored(work'[s][g].art)
      BY DEF PutFresh, Alone, Writers, Stored, Slots
    <2>1. CASE s = r /\ g = f
      <3>1. w.art \in Articles
        BY <1>5, <2>1, WorkFields DEF LocalsOK
      <3>2. copies[f][w.art] = 0
        BY <1>1, <1>5, <2>1, <3>1 DEF Stored, TypeOK
      <3> QED
        BY <1>5, <2>1, <3>2
    <2>2. CASE ~(s = r /\ g = f)
      BY <1>5, <2>2 DEF Inv, PutFresh
    <2> QED
      BY <2>1, <2>2
  <1>7. OneCopy'
    BY DEF Inv, OneCopy, Writers, Slots
  <1> QED
    BY <1>4, <1>6, <1>7 DEF Inv

\* An update that leaves the database alone.
LEMMA MoveOnly ==
  ASSUME Inv, NEW r \in Writers, NEW f \in Feeds, NEW w \in Work, LocalsOK(w), Move(r, f, w),
         UNCHANGED <<env, site, copies, old, known, row, skipped>>, list' = list \/ list' = None,
         w.pc \notin {"done", "queued"} => Active(r, f) \/ Free(r),
         w.pc = "put" => env.datastore /\ ~Stored(w.art),
         WorkTags(w, Safe)
  PROVE  Inv'
PROOF
  <1>1. Safe \subseteq Safe'
    BY SafeGrows
  <1>2. known' \subseteq Feeds /\ row' \in [Feeds -> Row] /\ skipped' \subseteq Articles
    BY DEF Inv, TypeOK
  <1>3. \A g \in Feeds : CoveredBy(row'[g].etag, Safe')
    BY <1>1, CoveredMore DEF Inv, Tags
  <1>4. WorkTags(w, Safe')
    BY <1>1, CoveredMore
  <1> QED
    BY <1>2, <1>3, <1>4, MoveKeeps

-----------------------------------------------------------------------------
(* One lemma per action of an update.                                        *)

\* An update of a queued feed starts in a free slot.
LEMMA StartInv ==
  ASSUME Inv, NEW r \in Writers, NEW f \in Feeds, Start(r, f)
  PROVE  Inv'
PROOF
  <1> DEFINE w == [work[r][f] EXCEPT !.pc = "fetch"]
  <1>1. r \in Runs /\ work[r][f] \in Work /\ LocalsOK(work[r][f]) /\ WorkTags(work[r][f], Safe)
    BY EnvType DEF Inv, TypeOK, Tags
  <1>2. work[r][f].pc = "queued"
    BY DEF Start
  <1>3. /\ w \in Work /\ w.pc = "fetch" /\ w.snap = work[r][f].snap /\ w.out = work[r][f].out
        /\ w.ok = work[r][f].ok /\ w.tag = work[r][f].tag /\ w.body = work[r][f].body
    BY <1>1 DEF Work, PCs
  <1>4. Move(r, f, w) /\ Slot(r) /\ UNCHANGED <<env, site, copies, old, known, list, row, skipped>>
    BY DEF Start, db
  <1> HIDE DEF w
  <1>5. LocalsOK(w) /\ WorkTags(w, Safe)
    BY <1>1, <1>2, <1>3 DEF LocalsOK, WorkTags
  <1>6. Free(r)
    BY <1>1, <1>4, SlotFree DEF Inv
  <1> QED
    BY <1>3, <1>4, <1>5, <1>6, MoveOnly

\* An update that ends and writes nothing.
LEMMA FinishInv ==
  ASSUME Inv, NEW r \in Writers, NEW f \in Feeds, Finish(r, f),
         UNCHANGED <<env, site, copies, old, known, row, skipped>>, list' = list \/ list' = None
  PROVE  Inv'
PROOF
  <1>1. WorkTags(Done, Safe)
    BY DoneType DEF WorkTags, CoveredBy
  <1> QED
    BY <1>1, DoneType, MoveOnly DEF Finish

\* A request has fetched the site of a feed that it is going to add.
LEMMA AddFetchInv ==
  ASSUME Inv, NEW r \in Writers, NEW f \in Feeds, AddFetch(r, f)
  PROVE  Inv'
PROOF
  <1>1. PICK b \in SUBSET site[f] :
           Move(r, f, [Queue("insert", NewRow) EXCEPT !.body = b, !.new = TRUE])
    BY DEF AddFetch
  <1> DEFINE w == [Queue("insert", NewRow) EXCEPT !.body = b, !.new = TRUE]
  <1>2. NewRow \in Row /\ NewRow.etag = None /\ NewRow # None
    BY NewRowType, RowFields
  <1>3. b \in SUBSET Articles
    BY <1>1 DEF Inv, TypeOK
  <1>4. /\ w \in Work /\ w.pc = "insert" /\ w.snap = NewRow /\ w.out = None
        /\ w.ok = FALSE /\ w.tag = None /\ w.body = b
    BY <1>2, <1>3 DEF Queue, Work, PCs
  <1>5. Move(r, f, w) /\ UNCHANGED <<env, site, copies, old, known, list, row, skipped>>
    BY <1>1 DEF AddFetch, db
  <1>6. Free(r)
    BY DEF AddFetch, Idle, Free, Active
  <1> HIDE DEF w
  <1>7. LocalsOK(w) /\ WorkTags(w, Safe)
    BY <1>2, <1>4 DEF LocalsOK, WorkTags, CoveredBy
  <1> QED
    BY <1>4, <1>5, <1>6, <1>7, MoveOnly

\* The site answers with its articles.
LEMMA FetchInv ==
  ASSUME Inv, NEW r \in Writers, NEW f \in Feeds, Fetch(r, f)
  PROVE  Inv'
PROOF
  <1>1. PICK e \in IF env.scheduler THEN {None} ELSE {site[f], work[r][f].snap.etag} :
           Move(r, f, [work[r][f] EXCEPT !.pc = "filter", !.body = site[f], !.tag = e])
    BY DEF Fetch
  <1> DEFINE w == [work[r][f] EXCEPT !.pc = "filter", !.body = site[f], !.tag = e]
  <1>2. r \in Runs /\ work[r][f] \in Work /\ LocalsOK(work[r][f]) /\ WorkTags(work[r][f], Safe)
    BY EnvType DEF Inv, TypeOK, Tags
  <1>3. work[r][f].pc = "fetch" /\ site[f] \in SUBSET Articles
    BY DEF Fetch, Inv, TypeOK
  <1>4. work[r][f].snap \in Row
    BY <1>2, <1>3, WorkFields DEF LocalsOK
  <1>5. e \in (SUBSET Articles) \cup {None} /\ (e = site[f] \/ CoveredBy(e, Safe))
    <2>1. CoveredBy(work[r][f].snap.etag, Safe)
      BY <1>2, <1>4, RowFields DEF WorkTags
    <2> QED
      BY <1>1, <1>3, <1>4, <2>1, RowFields DEF CoveredBy
  <1>6. /\ w \in Work /\ w.pc = "filter" /\ w.snap = work[r][f].snap /\ w.out = work[r][f].out
        /\ w.ok = work[r][f].ok /\ w.tag = e /\ w.body = site[f]
    BY <1>2, <1>3, <1>5 DEF Work, PCs
  <1>7. Move(r, f, w) /\ UNCHANGED <<env, site, copies, old, known, list, row, skipped>>
    BY <1>1 DEF Fetch, db
  <1> HIDE DEF w
  <1>8. LocalsOK(w) /\ WorkTags(w, Safe) /\ Active(r, f)
    BY <1>2, <1>3, <1>5, <1>6 DEF LocalsOK, WorkTags, Active
  <1> QED
    BY <1>6, <1>7, <1>8, MoveOnly, ZenonT(60)

\* The fetch fails, or the site answers 304.
LEMMA FetchNothingInv ==
  ASSUME Inv, NEW r \in Writers, NEW f \in Feeds, FetchNothing(r, f)
  PROVE  Inv'
PROOF
  <1> DEFINE w == [work[r][f] EXCEPT !.pc = "track"]
  <1>1. r \in Runs /\ work[r][f] \in Work /\ LocalsOK(work[r][f]) /\ WorkTags(work[r][f], Safe)
    BY EnvType DEF Inv, TypeOK, Tags
  <1>2. work[r][f].pc = "fetch"
    BY DEF FetchNothing
  <1>3. /\ w \in Work /\ w.pc = "track" /\ w.snap = work[r][f].snap /\ w.out = work[r][f].out
        /\ w.ok = work[r][f].ok /\ w.tag = work[r][f].tag /\ w.body = work[r][f].body
    BY <1>1 DEF Work, PCs
  <1>4. Move(r, f, w) /\ UNCHANGED <<env, site, copies, old, known, list, row, skipped>>
    BY DEF FetchNothing, db
  <1> HIDE DEF w
  <1>5. LocalsOK(w) /\ WorkTags(w, Safe) /\ Active(r, f)
    BY <1>1, <1>2, <1>3 DEF LocalsOK, WorkTags, Active
  <1> QED
    BY <1>3, <1>4, <1>5, MoveOnly

\* Saving: what the update knows of its ETag does not depend on the articles to save.
LEMMA SavingInv ==
  ASSUME Inv, NEW r \in Writers, NEW f \in Feeds, NEW w \in Work, Move(r, f, w),
         work[r][f].pc \in {"filter", "add", "put"}, w.pc \in {"add", "put"},
         w.snap = work[r][f].snap, w.out = work[r][f].out, w.ok = work[r][f].ok,
         w.tag = work[r][f].tag, w.body = work[r][f].body
  PROVE  /\ r \in Runs /\ work[r][f] \in Work /\ LocalsOK(work[r][f]) /\ Active(r, f)
         /\ WorkTags(w, Safe) /\ w.snap # None
PROOF
  <1>1. r \in Runs /\ work[r][f] \in Work /\ LocalsOK(work[r][f]) /\ WorkTags(work[r][f], Safe)
    BY EnvType DEF Inv, TypeOK, Tags
  <1>2. WorkTags(w, Safe)
    BY <1>1 DEF WorkTags
  <1> QED
    BY <1>1, <1>2 DEF LocalsOK, Active

\* The articles that are known are taken out.
LEMMA FilterInv ==
  ASSUME Inv, NEW r \in Writers, NEW f \in Feeds, Filter(r, f)
  PROVE  Inv'
PROOF
  <1>1. r \in Runs /\ work[r][f] \in Work
    BY EnvType DEF Inv, TypeOK
  <1>2. PICK K : Move(r, f, [work[r][f] EXCEPT !.pc = "add", !.todo = @ \cup (work[r][f].body \ K)])
    BY DEF Filter
  <1> DEFINE w == [work[r][f] EXCEPT !.pc = "add", !.todo = @ \cup (work[r][f].body \ K)]
  <1>3. /\ w \in Work /\ w.pc = "add" /\ w.snap = work[r][f].snap /\ w.out = work[r][f].out
        /\ w.ok = work[r][f].ok /\ w.tag = work[r][f].tag /\ w.body = work[r][f].body
    BY <1>1 DEF Work, PCs
  <1>4. Move(r, f, w) /\ UNCHANGED <<env, site, copies, old, known, list, row, skipped>>
    BY <1>2 DEF Filter, db
  <1>5. work[r][f].pc = "filter"
    BY DEF Filter
  <1> HIDE DEF w
  <1>6. WorkTags(w, Safe) /\ w.snap # None /\ Active(r, f)
    BY <1>3, <1>4, <1>5, SavingInv
  <1>7. LocalsOK(w)
    BY <1>3, <1>6 DEF LocalsOK
  <1> QED
    BY <1>3, <1>4, <1>6, <1>7, MoveOnly

\* A row is inserted: by SQLite if there is none, by Datastore after it has asked.
LEMMA CopyInv ==
  ASSUME Inv, NEW r \in Writers, NEW f \in Feeds, NEW a \in Articles,
         NEW w \in Work, LocalsOK(w), w.pc = "add", Move(r, f, w), WorkTags(w, Safe), Active(r, f),
         UNCHANGED <<env, site, old, known, row, list, skipped>>,
         copies' = [copies EXCEPT ![f][a] = copies[f][a] + 1],
         \/ ~env.datastore /\ ~Stored(a)
         \/ work[r][f].pc = "put" /\ work[r][f].art = a
  PROVE  Inv'
PROOF
  <1>1. TypeOK /\ r \in Runs
    BY EnvType DEF Inv
  <1>2. /\ copies' \in [Feeds -> [Articles -> Nat]]
        /\ \A g \in Feeds, b \in Articles : copies[g][b] \in Nat
        /\ \A g \in Feeds, b \in Articles :
              copies'[g][b] = IF g = f /\ b = a THEN copies[f][a] + 1 ELSE copies[g][b]
    BY <1>1 DEF TypeOK
  <1>3. Safe \subseteq Safe'
    BY <1>2, SafeGrows
  <1>4. known' \subseteq Feeds /\ row' \in [Feeds -> Row] /\ skipped' \subseteq Articles
    BY <1>1 DEF TypeOK
  <1>5. (\A g \in Feeds : CoveredBy(row'[g].etag, Safe')) /\ WorkTags(w, Safe')
    BY <1>3, CoveredMore DEF Inv, Tags
  <1>6. TypeOK' /\ Confined' /\ OneActive' /\ Tags'
    BY <1>2, <1>3, <1>4, <1>5, MoveInv
  <1>7. /\ work'[r][f] = w
        /\ \A s \in Runs, g \in Feeds : s # r \/ g # f => work'[s][g] = work[s][g]
    BY <1>1, Moved
  <1>8. PutFresh'
    <2> SUFFICES ASSUME NEW s \in Runs, NEW g \in Feeds, work'[s][g].pc = "put"
                 PROVE  /\ env.datastore
                        /\ Alone => copies'[g][work'[s][g].art] = 0
                        /\ Alone /\ Slots <= 1 => FALSE
      BY DEF PutFresh, Alone, Writers, Stored, Slots
    <2>1. (s # r \/ g # f) /\ work'[s][g] = work[s][g] /\ s \in Writers
      BY <1>7 DEF Inv, Confined, Writers
    <2>2. work[s][g] \in Work /\ LocalsOK(work[s][g])
      BY <1>1 DEF TypeOK
    <2>3. work[s][g].art \in Articles
      BY <2>1, <2>2, WorkFields DEF LocalsOK
    <2>4. env.datastore /\ (Alone => copies[g][work[s][g].art] = 0)
      BY <2>1 DEF Inv, PutFresh
    <2>5. Alone => s = r /\ g # f
      BY <2>1 DEF Alone
    <2>6. Alone => copies'[g][work'[s][g].art] = 0
      BY <1>2, <2>1, <2>3, <2>4, <2>5
    <2>7. Alone /\ Slots <= 1 => FALSE
      BY <2>1, <2>5 DEF Inv, OneActive, Active
    <2> QED
      BY <2>4, <2>6, <2>7
  <1>9. OneCopy'
    <2>1. /\ ~env.datastore \/ Alone => copies[f][a] = 0
          /\ ~env.datastore \/ (Alone /\ Slots <= 1) => \A g \in Feeds : copies[g][a] = 0
      <3>1. CASE ~Stored(a)
        BY <1>2, <3>1 DEF Stored
      <3>2. CASE work[r][f].pc = "put" /\ work[r][f].art = a
        BY <1>1, <1>2, <3>2 DEF Inv, PutFresh, Stored
      <3> QED
        BY <3>1, <3>2
    <2>2. ~env.datastore \/ Alone => \A g \in Feeds, b \in Articles : copies'[g][b] <= 1
      BY <1>2, <2>1 DEF Inv, OneCopy, Alone
    <2>3. ~env.datastore \/ (Alone /\ Slots <= 1)
             => \A b \in Articles : \A g, h \in Feeds :
                   copies'[g][b] > 0 /\ copies'[h][b] > 0 => g = h
      BY <1>2, <2>1 DEF Inv, OneCopy, Alone
    <2> QED
      BY <2>2, <2>3 DEF OneCopy, Alone, Writers, Slots
  <1> QED
    BY <1>6, <1>8, <1>9 DEF Inv

\* An article is looked up, and on SQLite inserted.
LEMMA AddArticleInv ==
  ASSUME Inv, NEW r \in Writers, NEW f \in Feeds, NEW a \in Articles, AddArticle(r, f, a)
  PROVE  Inv'
PROOF
  <1> DEFINE w     == work[r][f]
             saved == [w EXCEPT !.todo = @ \ {a}, !.saved = TRUE]
             ask   == [w EXCEPT !.pc = "put", !.art = a]
  <1>1. /\ r \in Runs /\ w \in Work /\ w.pc = "add"
        /\ UNCHANGED <<env, site, old, known, row, list, skipped>>
    BY EnvType DEF Inv, TypeOK, AddArticle
  <1>2. /\ saved \in Work /\ saved.pc = "add" /\ saved.snap = w.snap /\ saved.out = w.out
        /\ saved.ok = w.ok /\ saved.tag = w.tag /\ saved.body = w.body
    BY <1>1 DEF Work
  <1>3. /\ ask \in Work /\ ask.pc = "put" /\ ask.snap = w.snap /\ ask.out = w.out
        /\ ask.ok = w.ok /\ ask.tag = w.tag /\ ask.body = w.body /\ ask.art = a
    BY <1>1 DEF Work, PCs
  <1>4. \/ Stored(a) /\ Move(r, f, saved) /\ UNCHANGED copies
        \/ /\ ~Stored(a) /\ ~env.datastore
           /\ copies' = [copies EXCEPT ![f][a] = 1]
           /\ Move(r, f, saved)
        \/ /\ ~Stored(a) /\ env.datastore
           /\ Move(r, f, ask) /\ UNCHANGED copies
    BY DEF AddArticle
  <1> HIDE DEF saved, ask
  <1>5. ASSUME Move(r, f, saved)
        PROVE  WorkTags(saved, Safe) /\ LocalsOK(saved) /\ Active(r, f)
    BY <1>1, <1>2, <1>5, SavingInv DEF LocalsOK
  <1>6. ASSUME Move(r, f, ask)
        PROVE  WorkTags(ask, Safe) /\ LocalsOK(ask) /\ Active(r, f)
    BY <1>1, <1>3, <1>6, SavingInv DEF LocalsOK
  <1>7. CASE Stored(a) /\ Move(r, f, saved) /\ UNCHANGED copies
    BY <1>1, <1>2, <1>5, <1>7, MoveOnly
  <1>8. CASE /\ ~Stored(a) /\ ~env.datastore
             /\ copies' = [copies EXCEPT ![f][a] = 1]
             /\ Move(r, f, saved)
    <2>1. copies[f][a] + 1 = 1
      BY <1>8 DEF Inv, TypeOK, Stored
    <2>2. copies' = [copies EXCEPT ![f][a] = copies[f][a] + 1]
      BY <1>8, <2>1
    <2> QED
      BY <1>1, <1>2, <1>5, <1>8, <2>2, CopyInv
  <1>9. CASE ~Stored(a) /\ env.datastore /\ Move(r, f, ask) /\ UNCHANGED copies
    BY <1>1, <1>3, <1>6, <1>9, MoveOnly
  <1> QED
    BY <1>4, <1>7, <1>8, <1>9

\* Datastore puts the article it did not find.
LEMMA PutArticleInv ==
  ASSUME Inv, NEW r \in Writers, NEW f \in Feeds, PutArticle(r, f)
  PROVE  Inv'
PROOF
  <1> DEFINE w == work[r][f]
             x == [w EXCEPT !.pc = "add", !.todo = @ \ {w.art}, !.art = None, !.saved = TRUE]
  <1>1. r \in Runs /\ w \in Work /\ LocalsOK(w) /\ w.pc = "put"
    BY EnvType DEF Inv, TypeOK, PutArticle
  <1>2. w.art \in Articles
    BY <1>1, WorkFields DEF LocalsOK
  <1>3. /\ x \in Work /\ x.pc = "add" /\ x.snap = w.snap /\ x.out = w.out
        /\ x.ok = w.ok /\ x.tag = w.tag /\ x.body = w.body
    BY <1>1 DEF Work, PCs
  <1>4. /\ Move(r, f, x) /\ UNCHANGED <<env, site, old, known, row, list, skipped>>
        /\ copies' = [copies EXCEPT ![f][w.art] = copies[f][w.art] + 1]
    BY DEF PutArticle, Inv, TypeOK
  <1> HIDE DEF x
  <1>5. WorkTags(x, Safe) /\ LocalsOK(x) /\ Active(r, f)
    BY <1>1, <1>3, <1>4, SavingInv DEF LocalsOK
  <1> QED
    BY <1>1, <1>2, <1>3, <1>4, <1>5, CopyInv

\* The insert of an article fails.
LEMMA AddFailsInv ==
  ASSUME Inv, NEW r \in Writers, NEW f \in Feeds, NEW a \in Articles, AddFails(r, f, a)
  PROVE  Inv'
PROOF
  <1> DEFINE w == work[r][f]
             x == [w EXCEPT !.pc = "add", !.todo = @ \ {a}, !.art = None]
  <1>1. r \in Runs /\ w \in Work /\ w.pc \in {"add", "put"}
    BY EnvType DEF Inv, TypeOK, AddFails
  <1>2. /\ x \in Work /\ x.pc = "add" /\ x.snap = w.snap /\ x.out = w.out
        /\ x.ok = w.ok /\ x.tag = w.tag /\ x.body = w.body
    BY <1>1 DEF Work, PCs
  <1>3. Move(r, f, x) /\ UNCHANGED <<env, site, copies, old, known, list, row, skipped>>
    BY DEF AddFails, db
  <1> HIDE DEF x
  <1>4. WorkTags(x, Safe) /\ LocalsOK(x) /\ Active(r, f)
    BY <1>1, <1>2, <1>3, SavingInv DEF LocalsOK
  <1> QED
    BY <1>2, <1>3, <1>4, MoveOnly

\* All articles of the answer were tried.
LEMMA EndSaveInv ==
  ASSUME Inv, NEW r \in Writers, NEW f \in Feeds, EndSave(r, f)
  PROVE  Inv'
PROOF
  <1> DEFINE w  == work[r][f]
             ok == w.saved \/ w.body = {}
             x  == [w EXCEPT !.pc = "track", !.ok = ok]
  <1>1. r \in Runs /\ w \in Work /\ LocalsOK(w) /\ WorkTags(w, Safe) /\ w.pc = "add"
    BY EnvType DEF Inv, TypeOK, Tags, EndSave
  <1>2. /\ Move(r, f, x) /\ UNCHANGED <<env, site, copies, old, known, list, row>>
        /\ skipped' = IF w.saved THEN skipped \cup {a \in w.body : ~Stored(a)} ELSE skipped
    BY DEF EndSave, db
  <1>3. ok \in BOOLEAN /\ w.body \in SUBSET Articles /\ (ok => w.saved \/ w.body = {})
    BY <1>1, WorkFields
  <1> HIDE DEF ok
  <1>4. /\ x \in Work /\ x.pc = "track" /\ x.snap = w.snap /\ x.out = w.out
        /\ x.ok = ok /\ x.tag = w.tag /\ x.body = w.body
    BY <1>1, <1>3 DEF Work, PCs
  <1>5. skipped \subseteq skipped' /\ skipped' \subseteq Articles
    BY <1>2, <1>3 DEF Inv, TypeOK
  <1>6. Safe \subseteq Safe'
    BY <1>2, <1>5, SafeGrows
  <1>7. ok => w.body \subseteq Safe'
    BY <1>2, <1>3 DEF Safe, Stored
  <1>8. WorkTags(w, Safe')
    BY <1>1, <1>6, CoveredMore
  <1> HIDE DEF x
  <1>9. WorkTags(x, Safe')
    BY <1>4, <1>7, <1>8 DEF WorkTags, CoveredBy
  <1>10. LocalsOK(x) /\ Active(r, f)
    BY <1>1, <1>4 DEF LocalsOK, Active
  <1>11. /\ known' \subseteq Feeds /\ row' \in [Feeds -> Row]
         /\ \A g \in Feeds : CoveredBy(row'[g].etag, Safe')
    BY <1>2, <1>6, CoveredMore DEF Inv, TypeOK, Tags
  <1> QED
    BY <1>2, <1>4, <1>5, <1>9, <1>10, <1>11, MoveKeeps

-----------------------------------------------------------------------------
(* The actions that write the feeds table.                                   *)

\* The row of f becomes v, or stays, and the update goes on as w.
LEMMA RowInv ==
  ASSUME Inv, NEW r \in Writers, NEW f \in Feeds, NEW w \in Work, LocalsOK(w), Move(r, f, w),
         NEW v \in Row, CoveredBy(v.etag, Safe),
         row' = [row EXCEPT ![f] = v] \/ UNCHANGED row,
         UNCHANGED <<env, site, old, copies, list, skipped>>, known' \subseteq Feeds,
         Active(r, f), w.pc # "put",
         WorkTags(w, Safe)
  PROVE  Inv'
PROOF
  <1>1. Safe \subseteq Safe'
    BY SafeGrows
  <1>2. row' \in [Feeds -> Row] /\ \A g \in Feeds : row'[g] = v \/ row'[g] = row[g]
    BY DEF Inv, TypeOK
  <1>3. \A g \in Feeds : CoveredBy(row'[g].etag, Safe')
    BY <1>1, <1>2, CoveredMore DEF Inv, Tags
  <1>4. WorkTags(w, Safe') /\ skipped' \subseteq Articles
    BY <1>1, CoveredMore DEF Inv, TypeOK
  <1> QED
    BY <1>2, <1>3, <1>4, MoveKeeps

\* Where an update is after its tracking fields have been written.
LEMMA AfterTrackType ==
  ASSUME NEW w \in Work, LocalsOK(w), w.pc # "done", WorkTags(w, Safe)
  PROVE  /\ AfterTrack(w) \in Work /\ LocalsOK(AfterTrack(w)) /\ WorkTags(AfterTrack(w), Safe)
         /\ AfterTrack(w).pc # "put"
PROOF
  <1> DEFINE x == [w EXCEPT !.pc = "last", !.out = None]
  <1>1. /\ x \in Work /\ x.pc = "last" /\ x.snap = w.snap /\ x.out = None
        /\ x.ok = w.ok /\ x.tag = w.tag /\ x.body = w.body
    BY DEF Work, PCs
  <1>2. AfterTrack(w) = x \/ AfterTrack(w) = Done
    BY DEF AfterTrack
  <1> HIDE DEF x
  <1>3. LocalsOK(x) /\ WorkTags(x, Safe)
    BY <1>1 DEF LocalsOK, WorkTags
  <1>4. WorkTags(Done, Safe)
    BY DoneType DEF WorkTags, CoveredBy
  <1> QED
    BY <1>1, <1>2, <1>3, <1>4, DoneType

\* The row is brought up to date, or read for it.
LEMMA TrackInv ==
  ASSUME Inv, NEW r \in Writers, NEW f \in Feeds, Track(r, f)
  PROVE  Inv'
PROOF
  <1> DEFINE w == work[r][f]
             v == Tracked(w, row[f])
             x == [w EXCEPT !.pc = "trackPut", !.out = v]
  <1>1. r \in Runs /\ w \in Work /\ LocalsOK(w) /\ WorkTags(w, Safe) /\ w.pc = "track"
    BY EnvType DEF Inv, TypeOK, Tags, Track
  <1>2. w.snap \in Row /\ row[f] \in Row /\ CoveredBy(row[f].etag, Safe) /\ TypeOK
    BY <1>1, WorkFields DEF LocalsOK, Inv, TypeOK, Tags
  <1>3. v \in Row /\ v.etag = IF w.ok /\ ~env.scheduler THEN w.tag ELSE row[f].etag
    BY <1>1, <1>2, TrackedType
  <1>4. CoveredBy(v.etag, Safe)
    BY <1>1, <1>2, <1>3 DEF WorkTags
  <1>5. /\ UNCHANGED <<env, site, old, copies, list, skipped>> /\ Active(r, f)
        /\ known' \subseteq Feeds
    BY <1>1, <1>2 DEF Track, Active, TypeOK
  <1>6. \/ (row' = [row EXCEPT ![f] = v] \/ UNCHANGED row) /\ Move(r, f, AfterTrack(w))
        \/ Move(r, f, x) /\ UNCHANGED row
    BY DEF Track
  <1> HIDE DEF v
  <1>7. /\ x \in Work /\ x.pc = "trackPut" /\ x.snap = w.snap /\ x.out = v
        /\ x.ok = w.ok /\ x.tag = w.tag /\ x.body = w.body
    BY <1>1, <1>3 DEF Work, PCs
  <1> HIDE DEF x
  <1>8. LocalsOK(x) /\ WorkTags(x, Safe)
    BY <1>1, <1>3, <1>4, <1>7, RowFields DEF LocalsOK, WorkTags
  <1>9. /\ AfterTrack(w) \in Work /\ LocalsOK(AfterTrack(w)) /\ WorkTags(AfterTrack(w), Safe)
        /\ AfterTrack(w).pc # "put"
    BY <1>1, AfterTrackType
  <1> QED
    BY <1>3, <1>4, <1>5, <1>6, <1>7, <1>8, <1>9, RowInv

\* Datastore puts the tracked entity.
LEMMA TrackPutInv ==
  ASSUME Inv, NEW r \in Writers, NEW f \in Feeds, TrackPut(r, f)
  PROVE  Inv'
PROOF
  <1> DEFINE w == work[r][f]
  <1>1. r \in Runs /\ w \in Work /\ LocalsOK(w) /\ WorkTags(w, Safe) /\ w.pc = "trackPut"
    BY EnvType DEF Inv, TypeOK, Tags, TrackPut
  <1>2. w.out \in Row /\ CoveredBy(w.out.etag, Safe)
    BY <1>1, WorkFields DEF LocalsOK, WorkTags
  <1>3. /\ UNCHANGED <<env, site, old, copies, list, skipped>> /\ Active(r, f)
        /\ known' \subseteq Feeds
        /\ Move(r, f, AfterTrack(w)) /\ (row' = [row EXCEPT ![f] = w.out] \/ UNCHANGED row)
    BY <1>1 DEF TrackPut, Active, Inv, TypeOK
  <1>4. /\ AfterTrack(w) \in Work /\ LocalsOK(AfterTrack(w)) /\ WorkTags(AfterTrack(w), Safe)
        /\ AfterTrack(w).pc # "put"
    BY <1>1, AfterTrackType
  <1> QED
    BY <1>2, <1>3, <1>4, RowInv

\* The time of the fetch is stored, or the entity read for it.
LEMMA LastFetchInv ==
  ASSUME Inv, NEW r \in Writers, NEW f \in Feeds, LastFetch(r, f)
  PROVE  Inv'
PROOF
  <1> DEFINE w == work[r][f]
             x == [w EXCEPT !.pc = "lastPut", !.out = row[f]]
  <1>1. r \in Runs /\ w \in Work /\ LocalsOK(w) /\ WorkTags(w, Safe) /\ w.pc = "last"
    BY EnvType DEF Inv, TypeOK, Tags, LastFetch
  <1>2. row[f] \in Row /\ CoveredBy(row[f].etag, Safe)
    BY DEF Inv, TypeOK, Tags
  <1>3. /\ x \in Work /\ x.pc = "lastPut" /\ x.snap = w.snap /\ x.out = row[f]
        /\ x.ok = w.ok /\ x.tag = w.tag /\ x.body = w.body
    BY <1>1, <1>2 DEF Work, PCs
  <1>4. /\ UNCHANGED <<env, site, copies, old, known, list, row, skipped>>
        /\ Finish(r, f) \/ Move(r, f, x)
    BY DEF LastFetch, db
  <1> HIDE DEF x
  <1>5. LocalsOK(x) /\ WorkTags(x, Safe) /\ Active(r, f)
    BY <1>1, <1>2, <1>3, RowFields DEF LocalsOK, WorkTags, Active
  <1> QED
    BY <1>3, <1>4, <1>5, FinishInv, MoveOnly

\* Datastore puts the entity with the time of the fetch.
LEMMA LastFetchPutInv ==
  ASSUME Inv, NEW r \in Writers, NEW f \in Feeds, LastFetchPut(r, f)
  PROVE  Inv'
PROOF
  <1> DEFINE w == work[r][f]
  <1>1. r \in Runs /\ w \in Work /\ LocalsOK(w) /\ WorkTags(w, Safe) /\ w.pc = "lastPut"
    BY EnvType DEF Inv, TypeOK, Tags, LastFetchPut
  <1>2. w.out \in Row /\ CoveredBy(w.out.etag, Safe)
    BY <1>1, WorkFields DEF LocalsOK, WorkTags
  <1>3. /\ UNCHANGED <<env, site, old, copies, list, skipped>> /\ Active(r, f)
        /\ known' \subseteq Feeds
        /\ Move(r, f, Done) /\ (row' = [row EXCEPT ![f] = w.out] \/ UNCHANGED row)
    BY <1>1 DEF LastFetchPut, Active, Finish, Inv, TypeOK
  <1>4. WorkTags(Done, Safe)
    BY DoneType DEF WorkTags, CoveredBy
  <1> QED
    BY <1>2, <1>3, <1>4, DoneType, RowInv

\* A feed gets its row.
LEMMA InsertFeedInv ==
  ASSUME Inv, NEW r \in Writers, NEW f \in Feeds, InsertFeed(r, f)
  PROVE  Inv'
PROOF
  <1> DEFINE w == work[r][f]
             x == [w EXCEPT !.pc = "filter"]
  <1>1. r \in Runs /\ w \in Work /\ LocalsOK(w) /\ WorkTags(w, Safe) /\ w.pc = "insert"
    BY EnvType DEF Inv, TypeOK, Tags, InsertFeed
  <1>2. /\ UNCHANGED <<env, site, old, copies, list, skipped>> /\ Active(r, f)
        /\ known' \subseteq Feeds
        /\ Move(r, f, x) \/ Move(r, f, Done)
        /\ row' = [row EXCEPT ![f] = NewRow] \/ UNCHANGED row
    BY <1>1 DEF InsertFeed, Active, Finish, Inv, TypeOK
  <1>3. /\ x \in Work /\ x.pc = "filter" /\ x.snap = w.snap /\ x.out = w.out
        /\ x.ok = w.ok /\ x.tag = w.tag /\ x.body = w.body
    BY <1>1 DEF Work, PCs
  <1> HIDE DEF x
  <1>4. LocalsOK(x) /\ WorkTags(x, Safe) /\ WorkTags(Done, Safe)
    BY <1>1, <1>3, DoneType DEF LocalsOK, WorkTags, CoveredBy
  <1>5. NewRow \in Row /\ CoveredBy(NewRow.etag, Safe)
    BY NewRowType DEF CoveredBy
  <1> QED
    BY <1>2, <1>3, <1>4, <1>5, DoneType, RowInv

\* Any step of an update.
LEMMA UpdateInv ==
  ASSUME Inv, NEW r \in Writers, NEW f \in env.feeds, Update(r, f)
  PROVE  Inv'
PROOF
  <1>1. f \in Feeds
    BY EnvType DEF Inv
  <1>2. CASE Skip(r, f)
    BY <1>1, <1>2, FinishInv DEF Skip, db
  <1>3. CASE EndAdd(r, f)
    BY <1>1, <1>3, FinishInv DEF EndAdd, db
  <1> QED
    BY <1>1, <1>2, <1>3, InsertFeedInv, StartInv, FetchInv, FetchNothingInv, FilterInv,
       AddArticleInv, AddFailsInv,
       PutArticleInv, EndSaveInv, TrackInv, TrackPutInv, LastFetchInv, LastFetchPutInv DEF Update

-----------------------------------------------------------------------------
(* Whole runs, the sites and the clock.                                      *)

\* A run begins or stops: all its updates are at their start or over.
LEMMA RunInv ==
  ASSUME Inv, NEW r \in Writers, UNCHANGED <<env, site, old, copies, known, row, skipped>>,
         list' \in [Feeds -> Row \cup {None}] \cup {None},
         list' # None => \A f \in Feeds : list'[f] # None => CoveredBy(list'[f].etag, Safe),
         NEW W \in [Feeds -> Work], work' = [work EXCEPT ![r] = W],
         \A f \in Feeds : /\ LocalsOK(W[f]) /\ WorkTags(W[f], Safe)
                          /\ W[f].pc \in {"done", "queued"}
  PROVE  Inv'
PROOF
  <1>1. TypeOK /\ r \in Runs
    BY EnvType DEF Inv
  <1>2. /\ work' \in [Runs -> [Feeds -> Work]]
        /\ \A f \in Feeds : work'[r][f] = W[f]
        /\ \A s \in Runs, f \in Feeds : s # r => work'[s][f] = work[s][f]
    BY <1>1 DEF TypeOK
  <1>3. TypeOK'
    BY <1>1, <1>2 DEF TypeOK
  <1>4. Confined'
    BY <1>2 DEF Inv, Confined, Writers
  <1>5. OneActive'
    BY <1>2 DEF Inv, OneActive, Active, Slots
  <1>6. PutFresh'
    <2> SUFFICES ASSUME NEW s \in Runs, NEW f \in Feeds, work'[s][f].pc = "put"
                 PROVE  /\ env.datastore
                        /\ Alone => copies[f][work'[s][f].art] = 0
                        /\ Alone /\ Slots <= 1 => ~Stored(work'[s][f].art)
      BY DEF PutFresh, Alone, Writers, Stored, Slots
    <2>1. work'[s][f] = work[s][f]
      BY <1>2
    <2> QED
      BY <2>1 DEF Inv, PutFresh
  <1>7. OneCopy'
    BY DEF Inv, OneCopy, Writers, Slots
  <1>8. Tags'
    <2>1. Safe' = Safe
      BY DEF Safe, Stored
    <2>2. \A s \in Runs, f \in Feeds : WorkTags(work'[s][f], Safe)
      BY <1>2 DEF Inv, Tags
    <2> QED
      BY <2>1, <2>2 DEF Inv, Tags
  <1> QED
    BY <1>3, <1>4, <1>5, <1>6, <1>7, <1>8 DEF Inv

\* A run begins with the cached list or with the rows.
LEMMA BeginRunInv ==
  ASSUME Inv, NEW r \in Writers, BeginRun(r)
  PROVE  Inv'
PROOF
  <1> DEFINE there == [f \in Feeds |-> IF f \in known THEN row[f] ELSE None]
             W     == [f \in Feeds |->
                         IF f \in known /\ (env.scheduler \/ ShouldCheckFeed(RowOf(f)))
                           THEN Queue("queued", RowOf(f)) ELSE Done]
  <1>1. \A f \in Feeds : RowOf(f) \in Row /\ CoveredBy(RowOf(f).etag, Safe)
    BY DEF Inv, TypeOK, Tags, RowOf
  <1>2. /\ UNCHANGED <<env, site, old, copies, known, row, skipped>>
        /\ work' = [work EXCEPT ![r] = W] /\ (list' = list \/ list' = there)
    BY DEF BeginRun, db
  <1>3. \A f \in Feeds : W[f] = Queue("queued", RowOf(f)) \/ W[f] = Done
    OBVIOUS
  <1>4. \A f \in Feeds : /\ Queue("queued", RowOf(f)) \in Work
                         /\ Queue("queued", RowOf(f)).pc = "queued"
                         /\ LocalsOK(Queue("queued", RowOf(f)))
                         /\ WorkTags(Queue("queued", RowOf(f)), Safe)
    <2> TAKE f \in Feeds
    <2> DEFINE q == Queue("queued", RowOf(f))
    <2>1. RowOf(f) \in Row /\ CoveredBy(RowOf(f).etag, Safe) /\ "queued" \in PCs
      BY <1>1 DEF PCs
    <2>2. RowOf(f) # None
      BY <2>1, RowFields
    <2>3. /\ q \in Work /\ q.pc = "queued" /\ q.snap = RowOf(f) /\ q.out = None
          /\ q.tag = None /\ q.ok = FALSE
      BY <2>1 DEF Queue, Work
    <2> HIDE DEF q
    <2>4. LocalsOK(q) /\ WorkTags(q, Safe)
      BY <2>1, <2>2, <2>3 DEF LocalsOK, WorkTags, CoveredBy
    <2> QED
      BY <2>3, <2>4 DEF q
  <1>5. WorkTags(Done, Safe)
    BY DoneType DEF WorkTags, CoveredBy
  <1>6. W \in [Feeds -> Work]
    BY <1>4, DoneType
  <1>7. /\ list' \in [Feeds -> Row \cup {None}] \cup {None}
        /\ list' # None => \A f \in Feeds : list'[f] # None => CoveredBy(list'[f].etag, Safe)
    BY <1>2 DEF Inv, TypeOK, Tags
  <1> HIDE DEF W
  <1>8. \A f \in Feeds : /\ LocalsOK(W[f]) /\ WorkTags(W[f], Safe)
                         /\ W[f].pc \in {"done", "queued"}
    BY <1>3, <1>4, <1>5, DoneType
  <1> QED
    BY <1>2, <1>6, <1>7, <1>8, RunInv

\* A run ends half-way.
LEMMA CrashInv ==
  ASSUME Inv, NEW r \in Writers, Crash(r)
  PROVE  Inv'
PROOF
  <1> DEFINE W == [f \in Feeds |-> Done]
  <1>1. /\ UNCHANGED <<env, site, old, copies, known, row, skipped, list>>
        /\ work' = [work EXCEPT ![r] = W]
    BY DEF Crash, db
  <1>2. /\ list' \in [Feeds -> Row \cup {None}] \cup {None}
        /\ list' # None => \A f \in Feeds : list'[f] # None => CoveredBy(list'[f].etag, Safe)
    BY <1>1 DEF Inv, TypeOK, Tags
  <1>3. WorkTags(Done, Safe)
    BY DoneType DEF WorkTags, CoveredBy
  <1>4. W \in [Feeds -> Work] /\ \A f \in Feeds : W[f] = Done
    BY DoneType
  <1> HIDE DEF W
  <1> QED
    BY <1>1, <1>2, <1>3, <1>4, DoneType, RunInv

\* Steps that touch neither the updates in flight nor the rows.
LEMMA OutsideInv ==
  ASSUME Inv, UNCHANGED <<env, copies, known, row, work, skipped>>, old' \subseteq Articles,
         site' \in [Feeds -> SUBSET Articles], list' = list \/ list' = None
  PROVE  Inv'
PROOF
  <1>1. TypeOK'
    BY DEF Inv, TypeOK
  <1>2. Safe' = Safe
    BY DEF Safe, Stored
  <1>3. Tags'
    BY <1>2 DEF Inv, Tags
  <1>4. Confined' /\ OneActive' /\ PutFresh' /\ OneCopy'
    BY DEF Inv, Confined, Writers, OneActive, Active, PutFresh, Alone, Stored, Slots,
       OneCopy
  <1> QED
    BY <1>1, <1>3, <1>4 DEF Inv

\* Time passes and the cached list may expire.
LEMMA TickInv ==
  ASSUME Inv, Tick
  PROVE  Inv'
PROOF
  <1>1. TypeOK /\ UNCHANGED <<env, site, old, copies, known, skipped>>
    BY DEF Inv, Tick
  <1>2. Safe' = Safe
    BY <1>1 DEF Safe, Stored
  <1>3. row' \in [Feeds -> Row] /\ \A f \in Feeds : row'[f].etag = row[f].etag
    BY <1>1, LaterType DEF Tick, TypeOK
  <1>4. /\ list' \in [Feeds -> Row \cup {None}] \cup {None}
        /\ list' # None => /\ list # None
                           /\ \A f \in Feeds : list'[f] # None =>
                                list[f] # None /\ list'[f].etag = list[f].etag
    <2>1. CASE list = None
      BY <2>1 DEF Tick
    <2>2. CASE list # None
      <3>1. list \in [Feeds -> Row \cup {None}] /\ list' = [f \in Feeds |-> Later(list[f])]
        BY <1>1, <2>2 DEF Tick, TypeOK
      <3>2. Later(None) = None
        BY DEF Later
      <3>3. ASSUME NEW f \in Feeds
            PROVE  /\ Later(list[f]) \in Row \cup {None}
                   /\ Later(list[f]) # None => list[f] # None /\ Later(list[f]).etag = list[f].etag
        BY <3>1, <3>2, LaterType
      <3> QED
        BY <2>2, <3>1, <3>3
    <2> QED
      BY <2>1, <2>2
  <1>5. ASSUME NEW r \in Runs, NEW f \in Feeds
        PROVE  /\ work'[r][f] \in Work /\ LocalsOK(work'[r][f])
               /\ work'[r][f].pc = work[r][f].pc /\ work'[r][f].art = work[r][f].art
               /\ WorkTags(work[r][f], Safe) => WorkTags(work'[r][f], Safe)
    <2> DEFINE w    == work[r][f]
               snap == Later(w.snap)
               out  == Later(w.out)
               x    == [w EXCEPT !.snap = snap, !.out = out]
    <2>1. w \in Work /\ LocalsOK(w)
      BY <1>1 DEF TypeOK
    <2>2. /\ snap \in Row \cup {None} /\ (w.snap = None => snap = None)
          /\ w.snap # None => snap # None /\ snap.etag = w.snap.etag
          /\ out \in Row \cup {None} /\ (w.out = None => out = None)
          /\ w.out # None => out # None /\ out.etag = w.out.etag
      <3>1. Later(None) = None
        BY DEF Later
      <3> QED
        BY <2>1, <3>1, WorkFields, LaterType, RowFields
    <2>3. work'[r][f] = x
      BY DEF Tick
    <2> HIDE DEF snap, out
    <2>4. /\ x \in Work /\ x.pc = w.pc /\ x.snap = snap /\ x.out = out /\ x.art = w.art
          /\ x.ok = w.ok /\ x.tag = w.tag /\ x.body = w.body
      BY <2>1, <2>2 DEF Work
    <2> HIDE DEF x
    <2>5. LocalsOK(x) /\ (WorkTags(w, Safe) => WorkTags(x, Safe))
      BY <2>1, <2>2, <2>4 DEF LocalsOK, WorkTags
    <2> QED
      BY <2>3, <2>4, <2>5
  <1>6. work' \in [Runs -> [Feeds -> Work]]
    <2>1. work' = [r \in Runs |-> [f \in Feeds |-> work'[r][f]]]
      BY DEF Tick
    <2> QED
      BY <1>5, <2>1
  <1>7. TypeOK'
    BY <1>1, <1>3, <1>4, <1>5, <1>6 DEF TypeOK
  <1>8. Tags'
    BY <1>2, <1>3, <1>4, <1>5 DEF Inv, Tags
  <1>9. Confined' /\ OneActive'
    BY <1>1, <1>5 DEF Inv, Confined, Writers, OneActive, Active, Slots
  <1>10. PutFresh'
    <2> SUFFICES ASSUME NEW s \in Runs, NEW f \in Feeds, work'[s][f].pc = "put"
                 PROVE  /\ env.datastore
                        /\ Alone => copies[f][work'[s][f].art] = 0
                        /\ Alone /\ Slots <= 1 => ~Stored(work'[s][f].art)
      BY <1>1 DEF PutFresh, Alone, Writers, Stored, Slots
    <2> QED
      BY <1>5 DEF Inv, PutFresh
  <1>11. OneCopy'
    BY <1>1 DEF Inv, OneCopy, Writers, Slots
  <1> QED
    BY <1>7, <1>8, <1>9, <1>10, <1>11 DEF Inv

-----------------------------------------------------------------------------
(* The theorems.                                                             *)

\* The invariant holds initially.
LEMMA InitInv ==
  ASSUME Init
  PROVE  Inv
PROOF
  <1>1. NewRow \in Row /\ NewRow.etag = None
    BY NewRowType
  <1>2. \A r \in Runs, f \in Feeds : work[r][f] = Done
    BY DEF Init
  <1>3. TypeOK
    <2>1. known \subseteq Feeds
      BY DEF Init, Env
    <2> QED
      BY <1>1, <2>1, DoneType DEF Init, TypeOK
  <1>4. Confined /\ OneActive /\ PutFresh
    BY <1>2, DoneType DEF Confined, OneActive, Active, PutFresh
  <1>5. OneCopy
    BY DEF Init, OneCopy
  <1>6. WorkTags(Done, Safe)
    BY DoneType DEF WorkTags, CoveredBy
  <1>7. Tags
    BY <1>1, <1>2, <1>6 DEF Init, Tags, CoveredBy
  <1> QED
    BY <1>3, <1>4, <1>5, <1>7 DEF Inv

\* Every step keeps the invariant.
LEMMA NextInv ==
  ASSUME Inv, [Next]_vars
  PROVE  Inv'
PROOF
  <1>1. TypeOK
    BY DEF Inv
  <1>2. CASE \/ \E r \in env.runs : BeginRun(r)
             \/ \E r \in env.adders, f \in env.feeds : AddFetch(r, f)
             \/ \E r \in Writers : Crash(r) \/ \E f \in env.feeds : Update(r, f)
    <2>1. ASSUME NEW r \in env.runs, BeginRun(r)
          PROVE  Inv'
      BY <2>1, BeginRunInv DEF Writers
    <2>2. ASSUME NEW r \in env.adders, NEW f \in env.feeds, AddFetch(r, f)
          PROVE  Inv'
      BY <1>1, <2>2, EnvType, AddFetchInv DEF Writers
    <2> QED
      BY <1>2, <2>1, <2>2, CrashInv, UpdateInv
  <1>3. ASSUME NEW f \in env.feeds, NEW a \in env.articles, Publish(f, a)
        PROVE  Inv'
    <2>1. /\ site' \in [Feeds -> SUBSET Articles] /\ old' \subseteq Articles
          /\ UNCHANGED <<env, copies, known, row, work, skipped, list>>
      BY <1>1, <1>3, EnvType DEF Publish, db, TypeOK
    <2> QED
      BY <2>1, OutsideInv
  <1>4. ASSUME NEW a \in env.articles, GrowOld(a)
        PROVE  Inv'
    <2>1. /\ site' \in [Feeds -> SUBSET Articles] /\ old' \subseteq Articles
          /\ UNCHANGED <<env, copies, known, row, work, skipped, list>>
      BY <1>1, <1>4, EnvType DEF GrowOld, db, TypeOK
    <2> QED
      BY <2>1, OutsideInv
  <1>5. CASE DropList \/ UNCHANGED vars
    <2>1. /\ site' \in [Feeds -> SUBSET Articles] /\ old' \subseteq Articles
          /\ UNCHANGED <<env, copies, known, row, work, skipped>> /\ (list' = list \/ list' = None)
      BY <1>1, <1>5 DEF DropList, db, vars, TypeOK
    <2> QED
      BY <2>1, OutsideInv
  <1>6. CASE Tick
    BY <1>6, TickInv
  <1> QED
    BY <1>2, <1>3, <1>4, <1>5, <1>6 DEF Next

\* Rows, entities about to be put and the locals of an update keep their types; the
\* running average stays a time.
THEOREM TypeCorrect == Spec => []TypeOK
PROOF
  <1>1. Inv => TypeOK
    BY DEF Inv
  <1> QED
    BY <1>1, InitInv, NextInv, PTL DEF Spec

\* However many runs and requests to add feeds overlap and whatever fails, SQLite stores an
\* article once; Datastore does for a feed if nobody else writes at the same time, and for
\* all feeds if there is one slot too.
THEOREM OneCopyHolds == Spec => []OneCopy
PROOF
  <1>1. Inv => OneCopy
    BY DEF Inv
  <1> QED
    BY <1>1, InitInv, NextInv, PTL DEF Spec

\* An ETag that matches the site hides no article that was neither stored nor skipped,
\* although it comes from rows a run has read earlier or from the cached feed list.
THEOREM EtagFreshHolds == Spec => []EtagFresh
PROOF
  <1>1. Inv => EtagFresh
    <2> SUFFICES ASSUME Inv, NEW f \in Feeds, NEW a \in Articles,
                        row[f].etag = site[f], a \in site[f]
                 PROVE  Stored(a) \/ a \in skipped
      BY DEF EtagFresh
    <2>1. site[f] # None
      BY DEF Inv, TypeOK
    <2> QED
      BY <2>1 DEF Inv, Tags, CoveredBy, Safe
  <1> QED
    BY <1>1, InitInv, NextInv, PTL DEF Spec
=============================================================================
