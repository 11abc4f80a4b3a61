---------------------------- MODULE PagingProofs ----------------------------
(***************************************************************************)
(* Proofs about Paging for every set of feeds, articles, dates and         *)
(* deployments: the types, and that the pages of a list neither overlap    *)
(* nor leave anything out, on both backends where Sound holds.             *)
(***************************************************************************)
EXTENDS Paging, FiniteSetTheorems, WellFoundedInduction, TLAPS

USE SetsAssumption, CapAssumption, NanoAssumption, EnvsAssumption, NoneAssumption

\* Every article id has an article or none.
LEMMA ArticleField ==
  ASSUME TypeOK, NEW i \in Stored
  PROVE  /\ i \in Ids /\ i \in Nat
         /\ article[i] \in Article
         /\ article[i].feed \in Feeds /\ article[i].time \in Times /\ article[i].time \in Nat
         /\ article[i].zone \in -1..1
  BY DEF TypeOK, Stored, Article

\* Whatever its date, an article has a cursor.
LEMMA CursorType ==
  ASSUME TypeOK, NEW i \in Stored
  PROVE  [time |-> UnixNano(article[i].time), id |-> i] \in Cursor
PROOF
  <1>1. article[i].time \in Nat /\ i \in Ids
    BY ArticleField
  <1>2. UnixNano(article[i].time) \in Int
    BY <1>1 DEF UnixNano
  <1> QED
    BY <1>1, <1>2 DEF Cursor

\* The fields of the client's list.
LEMMA WalkFields ==
  ASSUME NEW w \in Walk
  PROVE  /\ w.pc \in {"closed", "open", "page"} /\ w.feed \in Feeds \cup {None}
         /\ w.unread \in BOOLEAN /\ w.cursor \in Cursor \cup {None}
         /\ w.refs \subseteq Ids /\ w.seen \subseteq Ids /\ w.again \in BOOLEAN
         /\ w.must \subseteq Ids
  BY DEF Walk

\* A page that is returned leaves the types as they are.
LEMMA ReturnType ==
  ASSUME TypeOK, NEW page \in SUBSET Stored, NEW more \in BOOLEAN, Return(page, more)
  PROVE  TypeOK'
PROOF
  <1>1. walk \in Walk /\ page \subseteq Ids
    BY DEF TypeOK, Stored
  <1>2. article' = article /\ env' = env /\ subs' = subs /\ read' = read
    BY DEF Return
  <1>3. CASE more
    <2>1. PICK last \in page :
            walk' = [walk EXCEPT !.pc = "open", !.refs = {}, !.seen = @ \cup page,
                       !.again = @ \/ page \cap walk.seen # {},
                       !.cursor = [time |-> UnixNano(article[last].time), id |-> last]]
      BY <1>3 DEF Return
    <2>2. [time |-> UnixNano(article[last].time), id |-> last] \in Cursor
      BY CursorType
    <2>3. walk' \in Walk
      BY <1>1, <2>1, <2>2, ZenonT(60) DEF Walk
    <2>4. /\ walk'.seen = walk.seen \cup page /\ walk'.refs = {} /\ walk'.must = walk.must
          /\ walk'.cursor.id = last /\ walk'.cursor.time = UnixNano(article[last].time)
      BY <1>1, <2>1 DEF Walk
    <2>5. \A i \in walk'.seen \cup walk'.refs \cup walk'.must : article[i] # None
      BY <2>4 DEF TypeOK, Stored
    <2> QED
      BY <1>2, <2>3, <2>4, <2>5 DEF TypeOK
  <1>4. CASE ~more
    <2>1. walk' = [walk EXCEPT !.pc = "closed", !.refs = {}, !.seen = @ \cup page,
                     !.again = @ \/ page \cap walk.seen # {}, !.cursor = None]
      BY <1>4 DEF Return
    <2>2. walk' \in Walk
      BY <1>1, <2>1 DEF Walk
    <2>3. /\ walk'.seen = walk.seen \cup page /\ walk'.refs = {} /\ walk'.must = walk.must
          /\ walk'.cursor = None
      BY <1>1, <2>1 DEF Walk
    <2>4. \A i \in walk'.seen \cup walk'.refs \cup walk'.must : article[i] # None
      BY <2>3 DEF TypeOK, Stored
    <2> QED
      BY <1>2, <2>2, <2>3, <2>4 DEF TypeOK
  <1> QED
    BY <1>3, <1>4

\* Forgetting articles that an open list owed leaves its type as it is.
LEMMA DropType ==
  ASSUME TypeOK, NEW S, Drop(S)
  PROVE  /\ walk' \in Walk /\ walk'.must \subseteq walk.must
         /\ walk'.seen = walk.seen /\ walk'.refs = walk.refs /\ walk'.cursor = walk.cursor
  BY DEF TypeOK, Drop, Walk

\* Every step keeps the types.
LEMMA StepType ==
  ASSUME TypeOK, Next
  PROVE  TypeOK'
PROOF
  <1> USE DEF TypeOK
  <1>0. walk \in Walk
    OBVIOUS
  <1>1. CASE \E i \in Ids : Mark(i)
    <2>1. PICK i \in Ids : Mark(i)
      BY <1>1
    <2>2. /\ walk' \in Walk /\ walk'.must \subseteq walk.must /\ walk'.seen = walk.seen
          /\ walk'.refs = walk.refs /\ walk'.cursor = walk.cursor
      BY <2>1, DropType DEF Mark
    <2> QED
      BY <2>1, <2>2 DEF Mark
  <1>2. CASE \E i \in Ids, a \in Article : Arrive(i, a)
    <2>1. PICK i \in Ids, a \in Article : Arrive(i, a)
      BY <1>2
    <2>2. a # None /\ \A j \in Ids : article'[j] = IF j = i THEN a ELSE article[j]
      BY <2>1 DEF Arrive
    <2>3. \A j \in walk.seen \cup walk.refs \cup walk.must : j \in Ids /\ j # i
      BY <2>1, WalkFields DEF Arrive
    <2>4. /\ article' \in [Ids -> Article \cup {None}]
          /\ env' = env /\ subs' = subs /\ read' = read /\ walk' = walk
      BY <2>1 DEF Arrive
    <2>5. \A j \in walk.seen \cup walk.refs \cup walk.must : article'[j] = article[j]
      BY <2>2, <2>3
    <2> QED
      BY <2>4, <2>5
  <1>3. CASE \E f \in Feeds : ToggleFeed(f)
    <2>1. PICK f \in Feeds : ToggleFeed(f)
      BY <1>3
    <2>2. /\ walk' \in Walk /\ walk'.must \subseteq walk.must /\ walk'.seen = walk.seen
          /\ walk'.refs = walk.refs /\ walk'.cursor = walk.cursor
      BY <2>1, DropType DEF ToggleFeed
    <2> QED
      BY <2>1, <2>2 DEF ToggleFeed
  <1>4. CASE \E f \in Feeds \cup {None}, u \in BOOLEAN : Open(f, u)
    <2>1. PICK f \in Feeds \cup {None}, u \in BOOLEAN : Open(f, u)
      BY <1>4
    <2>2. Listed(f, u) \subseteq Stored /\ Stored \subseteq Ids
      BY DEF Listed, Stored
    <2>3. walk' \in Walk
      BY <2>1, <2>2 DEF Open, Walk
    <2>4. walk'.cursor = None /\ walk'.seen = {} /\ walk'.refs = {} /\ walk'.must = Listed(f, u)
      BY <2>1 DEF Open
    <2>5. \A i \in walk'.seen \cup walk'.refs \cup walk'.must : article[i] # None
      BY <2>2, <2>4 DEF Stored
    <2> QED
      BY <2>1, <2>3, <2>4, <2>5 DEF Open
  <1>5. CASE Page
    <2> DEFINE rest == From(Listed(walk.feed, walk.unread))
               page == Top(rest, env.limit)
    <2>1. page \in SUBSET Stored
      BY DEF Top, From, Listed
    <2>2. Return(page, rest \ page # {})
      BY <1>5 DEF Page
    <2> HIDE DEF page, rest
    <2> QED
      BY <2>1, <2>2, ReturnType
  <1>6. CASE Project
    <2>1. PICK R \in SUBSET Stored : walk' = [walk EXCEPT !.pc = "page", !.refs = R]
      BY <1>6 DEF Project
    <2>2. R \subseteq Stored /\ Stored \subseteq Ids
      BY DEF Stored
    <2>3. /\ walk' \in Walk /\ walk'.refs = R /\ walk'.seen = walk.seen /\ walk'.must = walk.must
          /\ walk'.cursor = walk.cursor
      BY <1>0, <2>1, <2>2 DEF Walk
    <2>4. env' = env /\ article' = article /\ subs' = subs /\ read' = read
      BY <1>6 DEF Project
    <2> QED
      BY <2>2, <2>3, <2>4 DEF Stored
  <1>7. CASE Fetch
    <2> DEFINE candidates == Top(Rest, IF walk.unread THEN Window ELSE env.limit)
               page(m) == Top(IF walk.unread THEN candidates \ m ELSE candidates, env.limit)
    <2>1. PICK m \in {read, {}} :
            Return(page(m), Cardinality(page(m)) = env.limit
                              /\ (candidates # page(m) \/ Rest # candidates))
      BY <1>7 DEF Fetch
    <2>2. walk.refs \subseteq Stored
      BY <1>0, WalkFields DEF Stored
    <2>3. page(m) \in SUBSET Stored
      BY <2>2 DEF Top, Rest, From
    <2> HIDE DEF page, candidates
    <2> QED
      BY <2>1, <2>3, ReturnType
  <1> QED
    BY <1>1, <1>2, <1>3, <1>4, <1>5, <1>6, <1>7 DEF Next

\* The types hold initially.
LEMMA InitType ==
  ASSUME Init
  PROVE  TypeOK
  BY DEF Init, TypeOK, Walk

\* Every reachable state is well typed, on both backends: the cursor of a list has the id
\* and the date, as nanoseconds hold it, of one article that was returned, and no page names an article that is
\* not stored (getUserArticlesPaginated).
THEOREM TypeCorrect == Spec => []TypeOK
PROOF
  <1>1. TypeOK /\ UNCHANGED vars => TypeOK'
    BY DEF TypeOK, vars
  <1> QED
    BY <1>1, InitType, StepType, PTL DEF Spec

-----------------------------------------------------------------------------
(* Counting.                                                                 *)

\* A set of natural numbers that is not empty has a least element.
LEMMA Least ==
  ASSUME NEW T \in SUBSET Nat, T # {}
  PROVE  \E n \in T : \A m \in T : n <= m
PROOF
  <1> DEFINE R == OpToRel(<, Nat)
  <1>1. IsWellFoundedOn(R, Nat)
    BY NatLessThanWellFounded
  <1>2. \A m, n \in Nat : m < n => <<m, n>> \in R
    BY DEF OpToRel
  <1> HIDE DEF R
  <1>3. PICK n \in T : \A m \in T : ~(<<m, n>> \in R)
    BY <1>1, WFMin
  <1>4. n \in Nat /\ \A m \in T : m \in Nat /\ ~(m < n)
    BY <1>2, <1>3
  <1> QED
    BY <1>4

\* Sets of articles are finite.
LEMMA StoredFinite ==
  ASSUME NEW S \in SUBSET Stored
  PROVE  IsFiniteSet(S) /\ Cardinality(S) \in Nat
PROOF
  <1>1. S \in SUBSET Ids
    BY DEF Stored
  <1> QED
    BY <1>1, FS_Subset, FS_CardinalityType

-----------------------------------------------------------------------------
(* The order of a list: Datastore, or SQLite with dates in one zone.         *)

\* Every date is in the server's zone.
OneZone == \A i \in Stored : article[i].zone = 0

\* Dates compare as they should, also with that of a cursor: Datastore compares instants,
\* SQLite texts.
Ordered == DatesFit /\ (env.datastore \/ OneZone)

\* j comes after the date and the id of i.
Later(i, j) == \/ article[j].time < article[i].time
               \/ article[j].time = article[i].time /\ j < i

\* Instants, and the texts of dates in one zone, compare like the dates.
LEMMA OrderIsDate ==
  ASSUME TypeOK, Ordered, NEW i \in Stored, NEW j \in Stored
  PROVE  After(i, j) <=> Later(i, j)
PROOF
  <1>1. article[i].time \in Nat /\ article[j].time \in Nat /\ i \in Nat /\ j \in Nat
    BY ArticleField
  <1>2. CASE env.datastore
    <2>1. KeyOf(i) = article[i].time /\ KeyOf(j) = article[j].time
      BY <1>2 DEF KeyOf, Key
    <2> QED
      BY <2>1 DEF After, Later
  <1>3. CASE ~env.datastore
    <2>1. KeyOf(i) = 3 * article[i].time /\ KeyOf(j) = 3 * article[j].time
      BY <1>1, <1>3 DEF KeyOf, Key, OneZone, Ordered
    <2> QED
      BY <1>1, <2>1 DEF After, Later
  <1> QED
    BY <1>2, <1>3

\* The cursor of an article lies where the article lies.
LEMMA CursorIsDate ==
  ASSUME TypeOK, Ordered, NEW c \in Cursor, NEW j \in Stored,
         c.id \in Stored, c.time = UnixNano(article[c.id].time)
  PROVE  Beyond(c, j) <=> Later(c.id, j)
PROOF
  <1>1. /\ article[j].time \in Nat /\ c.time \in Nat /\ c.id \in Nat /\ j \in Nat
        /\ c.time = article[c.id].time
    BY ArticleField DEF Ordered, DatesFit
  <1>2. CASE env.datastore
    <2>1. KeyOf(j) = article[j].time /\ Key(c.time, 0) = c.time
      BY <1>2 DEF KeyOf, Key
    <2> QED
      BY <1>1, <2>1 DEF Beyond, Later
  <1>3. CASE ~env.datastore
    <2>1. KeyOf(j) = 3 * article[j].time /\ Key(c.time, 0) = 3 * c.time
      BY <1>1, <1>3 DEF KeyOf, Key, OneZone, Ordered
    <2> QED
      BY <1>1, <2>1 DEF Beyond, Later
  <1> QED
    BY <1>2, <1>3

\* Later is a strict total order of the stored articles.
LEMMA LaterTransitive ==
  ASSUME TypeOK, NEW i \in Stored, NEW j \in Stored, NEW k \in Stored, Later(i, j), Later(j, k)
  PROVE  Later(i, k)
PROOF
  <1>1. /\ article[i].time \in Nat /\ article[j].time \in Nat /\ article[k].time \in Nat
        /\ i \in Nat /\ j \in Nat /\ k \in Nat
    BY ArticleField
  <1> QED
    BY <1>1 DEF Later

\* The order of the listing is total.
LEMMA LaterTotal ==
  ASSUME TypeOK, NEW i \in Stored, NEW j \in Stored
  PROVE  /\ i = j \/ Later(i, j) \/ Later(j, i)
         /\ ~Later(i, i)
PROOF
  <1>1. article[i].time \in Nat /\ article[j].time \in Nat /\ i \in Nat /\ j \in Nat
    BY ArticleField
  <1> QED
    BY <1>1 DEF Later

-----------------------------------------------------------------------------
(* Top: ORDER BY published_at DESC, id DESC LIMIT n.                         *)

\* How many articles of S come before x.
Rank(S, x) == Cardinality({y \in S : After(y, x)})

\* The rank is a number, and ascends in the list.
LEMMA RankAscends ==
  ASSUME TypeOK, Ordered, NEW S \in SUBSET Stored, NEW i \in S, NEW j \in S, Later(i, j)
  PROVE  Rank(S, i) < Rank(S, j)
PROOF
  <1> DEFINE B(x) == {y \in S : After(y, x)}
  <1>1. B(i) \subseteq B(j)
    <2>1. SUFFICES ASSUME NEW y \in S, After(y, i) PROVE After(y, j)
      OBVIOUS
    <2>2. Later(y, i)
      BY <2>1, OrderIsDate
    <2>3. Later(y, j)
      BY <2>2, LaterTransitive
    <2> QED
      BY <2>3, OrderIsDate
  <1>2. i \in B(j) /\ i \notin B(i)
    BY OrderIsDate, LaterTotal
  <1>3. B(i) \in SUBSET Stored /\ B(j) \in SUBSET Stored
    OBVIOUS
  <1>4. Rank(S, i) = Cardinality(B(i)) /\ Rank(S, j) = Cardinality(B(j))
    BY DEF Rank
  <1> HIDE DEF B
  <1>5. /\ IsFiniteSet(B(j)) /\ Cardinality(B(i)) \in Nat /\ Cardinality(B(j)) \in Nat
    BY <1>3, StoredFinite
  <1>6. /\ Cardinality(B(i)) <= Cardinality(B(j))
        /\ Cardinality(B(j)) = Cardinality(B(i)) => B(j) = B(i)
    BY <1>1, <1>5, FS_Subset
  <1> QED
    BY <1>2, <1>4, <1>5, <1>6

\* Ranks are below the number of articles.
LEMMA RankBound ==
  ASSUME TypeOK, Ordered, NEW S \in SUBSET Stored, NEW i \in S
  PROVE  Rank(S, i) \in Nat /\ Rank(S, i) < Cardinality(S)
PROOF
  <1> DEFINE B == {y \in S : After(y, i)}
  <1>1. B \in SUBSET S /\ i \notin B
    BY OrderIsDate, LaterTotal
  <1>2. Rank(S, i) = Cardinality(B)
    BY DEF Rank
  <1> HIDE DEF B
  <1>3. IsFiniteSet(S) /\ Cardinality(S) \in Nat /\ Cardinality(B) \in Nat
    BY <1>1, StoredFinite
  <1>4. Cardinality(B) <= Cardinality(S) /\ (Cardinality(S) = Cardinality(B) => S = B)
    BY <1>1, <1>3, FS_Subset
  <1> QED
    BY <1>1, <1>2, <1>3, <1>4

\* What a query of n rows leaves out comes after every row it returns.
LEMMA TopIsFirst ==
  ASSUME TypeOK, Ordered, NEW S \in SUBSET Stored, NEW n \in Nat,
         NEW i \in S \ Top(S, n), NEW j \in Top(S, n)
  PROVE  Later(j, i)
PROOF
  <1>1. i \in S /\ j \in S /\ ~(Rank(S, i) < n) /\ Rank(S, j) < n
    BY DEF Top, Rank
  <1>2. Rank(S, i) \in Nat /\ Rank(S, j) \in Nat
    BY <1>1, RankBound
  <1>3. ~(Rank(S, i) < Rank(S, j)) /\ i # j
    BY <1>1, <1>2
  <1> QED
    BY <1>1, <1>3, RankAscends, LaterTotal

\* A query that may return as many rows as there are returns them all.
LEMMA TopAll ==
  ASSUME TypeOK, Ordered, NEW S \in SUBSET Stored, NEW n \in Nat, Cardinality(S) <= n
  PROVE  Top(S, n) = S
PROOF
  <1>1. ASSUME NEW i \in S PROVE Rank(S, i) < n
    <2>1. Rank(S, i) \in Nat /\ Rank(S, i) < Cardinality(S) /\ Cardinality(S) \in Nat
      BY RankBound, StoredFinite
    <2> QED
      BY <2>1
  <1> QED
    BY <1>1 DEF Top, Rank

\* A query that leaves something out returns exactly n rows, and the first n of them are
\* the same rows.
LEMMA TopCount ==
  ASSUME TypeOK, Ordered, NEW S \in SUBSET Stored, NEW n \in Nat
  PROVE  /\ Top(S, n) # S => Cardinality(Top(S, n)) = n
         /\ Top(Top(S, n), n) = Top(S, n)
PROOF
  <1> DEFINE P == Top(S, n)
  <1>1. P \subseteq S /\ P \in SUBSET Stored /\ \A i \in S : i \in P <=> Rank(S, i) < n
    BY DEF Top, Rank
  <1>2. IsFiniteSet(P) /\ Cardinality(P) \in Nat
    BY <1>1, StoredFinite
  <1> HIDE DEF P
  <1>3. ASSUME P # {} PROVE Cardinality(P) <= n
    <2> DEFINE T == {Cardinality(P) - Rank(P, i) : i \in P}
    <2>1. \A i \in P : Rank(P, i) \in Nat /\ Rank(P, i) < Cardinality(P)
      BY <1>1, RankBound
    <2>2. \A i \in P : Cardinality(P) - Rank(P, i) \in Nat
      BY <1>2, <2>1
    <2>3. T \in SUBSET Nat /\ T # {}
      BY <1>3, <2>2
    <2>4. PICK t \in T : \A s \in T : t <= s
      BY <2>3, Least
    <2>5. PICK i \in P : t = Cardinality(P) - Rank(P, i)
      OBVIOUS
    <2>6. ASSUME NEW j \in P PROVE Rank(P, j) <= Rank(P, i)
      <3>1. Cardinality(P) - Rank(P, i) <= Cardinality(P) - Rank(P, j)
        BY <2>4, <2>5
      <3> QED
        BY <1>2, <2>1, <3>1
    <2>7. ASSUME NEW j \in P, j # i PROVE After(j, i)
      <3>1. ~(Rank(P, i) < Rank(P, j))
        BY <2>1, <2>6
      <3>2. Later(j, i)
        BY <1>1, <2>7, <3>1, RankAscends, LaterTotal
      <3> QED
        BY <1>1, <3>2, OrderIsDate
    <2> DEFINE B == {y \in S : After(y, i)}
    <2>8. P \ {i} \in SUBSET B /\ B \in SUBSET Stored /\ Cardinality(B) < n
      BY <1>1, <2>7 DEF Rank
    <2> HIDE DEF B
    <2>9. IsFiniteSet(B) /\ Cardinality(B) \in Nat
      BY <2>8, StoredFinite
    <2>10. Cardinality(P \ {i}) = Cardinality(P) - 1
      BY <1>2, FS_RemoveElement, Zenon
    <2>11. Cardinality(P \ {i}) <= Cardinality(B)
      BY <2>8, <2>9, FS_Subset
    <2> QED
      BY <1>2, <2>8, <2>9, <2>10, <2>11
  <1>4. Cardinality(P) <= n
    <2>1. CASE P = {}
      BY <2>1, FS_EmptySet
    <2> QED
      BY <1>3, <2>1
  <1>5. ASSUME P # S PROVE Cardinality(P) >= n
    <2> DEFINE T == {Rank(S, i) : i \in S \ P}
    <2>1. \A i \in S : Rank(S, i) \in Nat
      BY RankBound
    <2>2. T \in SUBSET Nat /\ T # {}
      BY <1>1, <1>5, <2>1
    <2>3. PICK t \in T : \A s \in T : t <= s
      BY <2>2, Least
    <2>4. PICK i \in S \ P : t = Rank(S, i)
      OBVIOUS
    <2> DEFINE B == {y \in S : After(y, i)}
    <2>5. ASSUME NEW y \in S, After(y, i) PROVE y \in P
      <3>1. Later(y, i)
        BY <2>5, OrderIsDate
      <3>2. Rank(S, y) < Rank(S, i)
        BY <3>1, RankAscends
      <3>3. y \notin P => Rank(S, i) <= Rank(S, y)
        BY <2>3, <2>4
      <3> QED
        BY <2>1, <3>2, <3>3
    <2>6. B \in SUBSET P /\ ~(Cardinality(B) < n)
      BY <1>1, <2>5 DEF Rank
    <2> HIDE DEF B
    <2>7. Cardinality(B) <= Cardinality(P) /\ Cardinality(B) \in Nat
      BY <1>2, <2>6, FS_Subset, FS_CardinalityType
    <2> QED
      BY <1>2, <2>6, <2>7
  <1> QED
    BY <1>1, <1>2, <1>4, <1>5, TopAll DEF P

-----------------------------------------------------------------------------
(* The pages of a list.                                                      *)

\* What was returned lies up to the cursor, what is still owed lies beyond it.
Split(w) ==
    /\ w.cursor = None => w.seen = {}
    /\ w.cursor # None => /\ \A i \in w.seen : ~Later(w.cursor.id, i)
                          /\ \A i \in w.must \ w.seen : Later(w.cursor.id, i)

\* The inductive invariant, wherever the pages are sound.  On Datastore a cursor is only
\* given when something follows it, so that startIdx is never left at 0.
PagesInv ==
    /\ Ordered
    /\ ~walk.again
    /\ walk.pc = "closed" => walk.must \subseteq walk.seen
    /\ walk.pc # "closed" => Split(walk) /\ walk.must \subseteq Listed(walk.feed, walk.unread)
    /\ walk.pc = "page" => /\ env.datastore /\ walk.must \subseteq walk.refs
                          /\ walk.refs \subseteq Listed(walk.feed, walk.unread)
    /\ env.datastore /\ walk.pc # "closed" /\ walk.cursor # None =>
         \E i \in IF walk.pc = "page" THEN walk.refs ELSE Listed(walk.feed, walk.unread) :
           Later(walk.cursor.id, i)

\* The articles of a list are stored.
LEMMA WalkStored ==
  ASSUME TypeOK
  PROVE  /\ walk.seen \subseteq Stored /\ walk.must \subseteq Stored /\ walk.refs \subseteq Stored
         /\ walk.cursor # None => /\ walk.cursor \in Cursor /\ walk.cursor.id \in walk.seen
                                  /\ walk.cursor.time = UnixNano(article[walk.cursor.id].time)
  BY WalkFields DEF TypeOK, Stored

\* From selects what comes after the cursor.
LEMMA FromIsLater ==
  ASSUME TypeOK, Ordered, NEW S \in SUBSET Stored
  PROVE  From(S) = IF walk.cursor = None THEN S ELSE {i \in S : Later(walk.cursor.id, i)}
PROOF
  <1>1. CASE walk.cursor = None
    BY <1>1 DEF From
  <1>2. CASE walk.cursor # None
    <2>1. /\ walk.cursor \in Cursor /\ walk.cursor.id \in Stored
          /\ walk.cursor.time = UnixNano(article[walk.cursor.id].time)
      BY <1>2, WalkStored
    <2>2. \A i \in S : Beyond(walk.cursor, i) <=> Later(walk.cursor.id, i)
      BY <2>1, CursorIsDate
    <2> QED
      BY <1>2, <2>2 DEF From
  <1> QED
    BY <1>1, <1>2

\* The rows that follow the cursor come after everything that was returned, and
\* everything owed that was among the rows still is.
LEMMA FromIsNew ==
  ASSUME TypeOK, Ordered, Split(walk), NEW S \in SUBSET Stored, walk.must \subseteq S
  PROVE  /\ From(S) \in SUBSET Stored /\ From(S) \subseteq S
         /\ From(S) \cap walk.seen = {}
         /\ walk.cursor # None => \A i \in From(S) : Later(walk.cursor.id, i)
         /\ walk.must \ walk.seen \subseteq From(S)
  BY FromIsLater DEF Split

\* The answer to a request for a page: the first of the rows that follow the cursor, and a
\* cursor exactly if there are more.
LEMMA ReturnKeeps ==
  ASSUME TypeOK, Ordered, Split(walk), ~walk.again, walk.pc # "closed",
         walk.must \subseteq Listed(walk.feed, walk.unread),
         NEW rest \in SUBSET Stored, rest \subseteq Listed(walk.feed, walk.unread) \/ ~env.datastore,
         rest \cap walk.seen = {},
         walk.cursor # None => \A i \in rest : Later(walk.cursor.id, i),
         walk.must \ walk.seen \subseteq rest,
         NEW page, page = Top(rest, env.limit),
         NEW more \in BOOLEAN, more <=> rest \ page # {}, Return(page, more)
  PROVE  PagesInv'
PROOF
  <1>1. walk \in Walk /\ env.limit \in Nat
    BY DEF TypeOK, Env
  <1>2. page \subseteq rest /\ page \subseteq Stored
    BY DEF Top
  <1>3. \A i \in rest \ page, j \in page : Later(j, i)
    BY <1>1, TopIsFirst
  <1>4. article' = article /\ env' = env /\ subs' = subs /\ read' = read
    BY DEF Return
  <1>5. Ordered' /\ (\A F, u : Listed(F, u)' = Listed(F, u)) /\ \A i, j : Later(i, j)' <=> Later(i, j)
    BY <1>4 DEF Ordered, DatesFit, OneZone, Stored, Listed, Later
  <1>6. walk.seen \subseteq Stored /\ page \cap walk.seen = {}
    BY <1>2, WalkStored
  <1>7. CASE more
    <2>1. PICK last \in page :
            /\ \A i \in page : ~After(last, i)
            /\ walk' = [walk EXCEPT !.pc = "open", !.refs = {}, !.seen = @ \cup page,
                          !.again = @ \/ page \cap walk.seen # {},
                          !.cursor = [time |-> UnixNano(article[last].time), id |-> last]]
      BY <1>7 DEF Return
    <2>2. /\ walk'.pc = "open" /\ walk'.seen = walk.seen \cup page /\ walk'.must = walk.must
          /\ walk'.feed = walk.feed /\ walk'.unread = walk.unread
          /\ walk'.cursor = [time |-> UnixNano(article[last].time), id |-> last]
      BY <1>1, <2>1 DEF Walk
    <2>3. ~walk'.again
      BY <1>1, <1>6, <2>1 DEF Walk
    <2>4. walk'.cursor # None /\ walk'.cursor.id = last
      <3>1. [time |-> UnixNano(article[last].time), id |-> last] \in Cursor
        BY <1>2, CursorType
      <3> QED
        BY <2>2, <3>1
    <2>5. ASSUME NEW i \in page PROVE ~Later(last, i)
      BY <1>2, <2>1, OrderIsDate
    <2>6. ASSUME NEW i \in walk.seen PROVE ~Later(last, i)
      <3>1. walk.cursor # None
        BY <2>6 DEF Split
      <3>2. Later(walk.cursor.id, last) /\ ~Later(walk.cursor.id, i)
        BY <1>2, <3>1 DEF Split
      <3>3. walk.cursor.id \in Stored /\ i \in Stored /\ last \in Stored
        BY <1>2, <1>6, <3>1, WalkStored
      <3> QED
        BY <3>2, <3>3, LaterTransitive
    <2>7. ASSUME NEW i \in walk.must, i \notin walk.seen \cup page PROVE Later(last, i)
      BY <1>3, <2>7
    <2>8. Split(walk)'
      BY <1>4, <2>2, <2>4, <2>5, <2>6, <2>7 DEF Split, Later
    <2>9. walk'.must \subseteq Listed(walk.feed, walk.unread)'
      BY <1>5, <2>2
    <2>10. env.datastore => \E i \in Listed(walk.feed, walk.unread)' : Later(walk.cursor.id, i)'
      <3>1. PICK i \in rest : i \notin page
        BY <1>7
      <3>2. Later(last, i)
        BY <1>3, <3>1
      <3>3. Later(walk.cursor.id, i)'
        BY <1>4, <2>4, <3>2 DEF Later
      <3> QED
        BY <1>5, <2>2, <3>3
    <2> QED
      BY <1>4, <1>5, <2>2, <2>3, <2>8, <2>9, <2>10 DEF PagesInv
  <1>8. CASE ~more
    <2>1. walk' = [walk EXCEPT !.pc = "closed", !.refs = {}, !.seen = @ \cup page,
                     !.again = @ \/ page \cap walk.seen # {}, !.cursor = None]
      BY <1>8 DEF Return
    <2>2. walk'.pc = "closed" /\ walk'.seen = walk.seen \cup page /\ walk'.must = walk.must
      BY <1>1, <2>1 DEF Walk
    <2>3. ~walk'.again
      BY <1>1, <1>6, <2>1 DEF Walk
    <2>4. walk'.must \subseteq walk'.seen
      BY <1>8, <2>2
    <2> QED
      BY <1>5, <2>2, <2>3, <2>4 DEF PagesInv
  <1> QED
    BY <1>7, <1>8

\* SQLite: one page more keeps the invariant.
LEMMA PageKeeps ==
  ASSUME TypeOK, PagesInv, Page
  PROVE  PagesInv'
PROOF
  <1> DEFINE L == Listed(walk.feed, walk.unread)
             rest == From(L)
             page == Top(rest, env.limit)
  <1>1. walk.pc = "open" /\ ~env.datastore /\ Return(page, rest \ page # {})
    BY DEF Page
  <1>2. /\ L \in SUBSET Stored /\ Ordered /\ Split(walk) /\ ~walk.again /\ walk.must \subseteq L
    BY <1>1 DEF PagesInv, Listed
  <1> HIDE DEF L
  <1>3. /\ rest \in SUBSET Stored /\ rest \cap walk.seen = {}
        /\ walk.cursor # None => \A i \in rest : Later(walk.cursor.id, i)
        /\ walk.must \ walk.seen \subseteq rest
    BY <1>2, FromIsNew
  <1>4. page = Top(rest, env.limit)
    OBVIOUS
  <1> HIDE DEF rest, page
  <1>5. (rest \ page # {}) \in BOOLEAN
    OBVIOUS
  <1> QED
    BY <1>1, <1>2, <1>3, <1>4, <1>5, ReturnKeeps DEF L

\* Datastore, first pass: when every feed fits into the window the refs are the list.
LEMMA ProjectKeeps ==
  ASSUME TypeOK, PagesInv, Sound, Project
  PROVE  PagesInv'
PROOF
  <1> DEFINE mine == {f \in subs : walk.feed # None => f = walk.feed}
  <1>1. /\ env.datastore /\ walk.pc = "open" /\ walk.unread = FALSE
        /\ Cardinality(Stored) <= Window /\ walk \in Walk
    BY WalkFields DEF Project, Sound, TypeOK
  <1>2. PICK R \in SUBSET {i \in Stored : article[i].feed \in mine} :
           /\ \A f \in mine : Newest(R \cap OfFeed(f), OfFeed(f), Window)
           /\ walk' = [walk EXCEPT !.pc = "page", !.refs = R]
    BY <1>1 DEF Project, Sound
  <1>3. Window \in Nat
    BY DEF Window, TypeOK, Env
  <1>4. ASSUME NEW f \in mine PROVE OfFeed(f) \subseteq R
    <2>1. OfFeed(f) \in SUBSET Stored /\ Stored \in SUBSET Stored
      BY DEF OfFeed
    <2>2. /\ IsFiniteSet(Stored) /\ Cardinality(Stored) \in Nat
          /\ IsFiniteSet(OfFeed(f)) /\ Cardinality(OfFeed(f)) \in Nat
      BY <2>1, StoredFinite
    <2>3. Cardinality(OfFeed(f)) <= Cardinality(Stored)
      BY <2>1, <2>2, FS_Subset
    <2>4. Cardinality(OfFeed(f)) <= Window
      BY <1>1, <1>3, <2>2, <2>3
    <2>5. Cardinality(R \cap OfFeed(f)) = Cardinality(OfFeed(f))
      BY <1>2, <1>4, <2>4 DEF Newest
    <2>6. R \cap OfFeed(f) = OfFeed(f)
      <3>1. R \cap OfFeed(f) \in SUBSET OfFeed(f)
        OBVIOUS
      <3> QED
        BY <2>2, <2>5, <3>1, FS_Subset, Zenon
    <2> QED
      BY <2>6
  <1>5. R = Listed(walk.feed, walk.unread)
    <2>1. \A i \in Stored : i \in Listed(walk.feed, walk.unread) <=> article[i].feed \in mine
      BY <1>1 DEF Listed
    <2>2. Listed(walk.feed, walk.unread) \subseteq Stored
      BY DEF Listed
    <2> HIDE DEF mine
    <2>3. \A i \in Stored : article[i].feed \in mine => i \in R
      BY <1>4 DEF OfFeed
    <2> QED
      BY <1>2, <2>1, <2>2, <2>3
  <1>6. /\ walk'.pc = "page" /\ walk'.refs = R /\ walk'.seen = walk.seen /\ walk'.must = walk.must
        /\ walk'.cursor = walk.cursor /\ walk'.feed = walk.feed /\ walk'.unread = walk.unread
        /\ walk'.again = walk.again
    BY <1>1, <1>2 DEF Walk
  <1>7. article' = article /\ env' = env /\ subs' = subs /\ read' = read
    BY DEF Project
  <1>8. /\ Ordered' /\ Listed(walk.feed, walk.unread)' = Listed(walk.feed, walk.unread)
        /\ \A i : Later(walk.cursor.id, i)' <=> Later(walk.cursor.id, i)
    BY <1>6, <1>7 DEF PagesInv, Ordered, DatesFit, OneZone, Stored, Listed, Later
  <1>9. Split(walk)'
    BY <1>1, <1>6, <1>8 DEF PagesInv, Split
  <1> QED
    BY <1>1, <1>5, <1>6, <1>7, <1>8, <1>9 DEF PagesInv

\* Datastore, second pass: something follows the cursor, and a page is full whenever it is
\* not the rest.
LEMMA FetchKeeps ==
  ASSUME TypeOK, PagesInv, Sound, Fetch
  PROVE  PagesInv'
PROOF
  <1> DEFINE rest == From(walk.refs)
             page == Top(rest, env.limit)
  <1>1. /\ walk.pc = "page" /\ env.datastore /\ walk.unread = FALSE /\ Ordered /\ ~walk.again
        /\ Split(walk) /\ walk.must \subseteq walk.refs /\ env.limit \in Nat
        /\ walk.must \subseteq Listed(walk.feed, walk.unread)
    BY WalkFields DEF Fetch, Sound, PagesInv, TypeOK, Env
  <1>2. walk.refs \in SUBSET Stored
    BY WalkStored
  <1>3. /\ rest \in SUBSET Stored /\ rest \subseteq walk.refs /\ rest \cap walk.seen = {}
        /\ walk.cursor # None => \A i \in rest : Later(walk.cursor.id, i)
        /\ walk.must \ walk.seen \subseteq rest
    BY <1>1, <1>2, FromIsNew
  <1>4. Rest = rest
    <2>1. CASE walk.cursor = None
      BY <2>1 DEF Rest, From
    <2>2. CASE walk.cursor # None
      <3>1. rest # {}
        BY <1>1, <1>2, <2>2, FromIsLater DEF PagesInv
      <3> QED
        BY <3>1 DEF Rest
    <2> QED
      BY <2>1, <2>2
  <1> HIDE DEF rest
  <1>5. Top(page, env.limit) = page /\ (page # rest => Cardinality(page) = env.limit)
    BY <1>1, <1>3, TopCount
  <1>6. page = Top(rest, env.limit) /\ page \subseteq rest
    BY DEF Top
  <1>7. Return(page, Cardinality(page) = env.limit /\ (page # page \/ rest # page))
    <2>1. Top(Rest, IF walk.unread THEN Window ELSE env.limit) = page
      BY <1>1, <1>4
    <2> QED
      BY <1>1, <1>4, <1>5, <2>1 DEF Fetch
  <1> HIDE DEF page
  <1> DEFINE more == Cardinality(page) = env.limit /\ (page # page \/ rest # page)
  <1>8. more \in BOOLEAN /\ (more <=> rest \ page # {})
    BY <1>5, <1>6
  <1>9. Return(page, more)
    BY <1>7
  <1> HIDE DEF more
  <1>10. rest \subseteq Listed(walk.feed, walk.unread)
    BY <1>1, <1>3 DEF PagesInv
  <1> QED
    BY <1>1, <1>3, <1>6, <1>8, <1>9, <1>10, ReturnKeeps

\* What happens between two pages keeps the invariant: an article that arrives was never
\* returned and is not owed (its date fits into a cursor), and what leaves the list is no
\* longer owed.
LEMMA ChangeKeeps ==
  ASSUME TypeOK, Sound, Sound', PagesInv,
         \/ \E i \in Ids, a \in Article : Arrive(i, a)
         \/ \E i \in Ids : Mark(i)
         \/ \E f \in Feeds : ToggleFeed(f)
  PROVE  PagesInv'
PROOF
  <1>1. /\ walk.seen \subseteq Stored /\ walk.must \subseteq Stored /\ walk.refs \subseteq Stored
        /\ walk \in Walk
        /\ walk.cursor # None => walk.cursor.id \in walk.seen
    BY WalkStored DEF TypeOK
  <1>2. CASE \E i \in Ids, a \in Article : Arrive(i, a)
    <2>1. PICK i \in Ids, a \in Article : Arrive(i, a)
      BY <1>2
    <2>2. /\ i \notin Stored
          /\ ~env.zones => a.zone = 0
          /\ env' = env /\ subs' = subs /\ read' = read /\ walk' = walk
          /\ article' = [article EXCEPT ![i] = a] /\ article \in [Ids -> Article \cup {None}]
      BY <2>1 DEF Arrive, Stored, TypeOK
    <2>3. \A j \in Stored : article'[j] = article[j] /\ j \in Ids
      BY <2>2 DEF Stored
    <2>4. Stored' = Stored \cup {i} /\ article'[i] = a
      <3>1. a # None
        OBVIOUS
      <3> QED
        BY <2>2, <3>1 DEF Stored
    <2>5. Ordered'
      BY <2>2, <2>3, <2>4 DEF Ordered, OneZone, PagesInv, Sound
    <2>6. walk.cursor # None =>
            \A k \in Stored : Later(walk.cursor.id, k)' <=> Later(walk.cursor.id, k)
      BY <1>1, <2>2, <2>3 DEF Later
    <2>7. walk.pc # "closed" => Split(walk)'
      BY <1>1, <2>2, <2>6 DEF Split, PagesInv
    <2>8. /\ Listed(walk.feed, walk.unread) \subseteq Listed(walk.feed, walk.unread)'
          /\ Listed(walk.feed, walk.unread) \subseteq Stored
      BY <2>2, <2>3, <2>4 DEF Listed
    <2>9. env.datastore /\ walk.pc # "closed" /\ walk.cursor # None =>
            \E j \in (IF walk.pc = "page" THEN walk.refs ELSE Listed(walk.feed, walk.unread))' :
              Later(walk.cursor.id, j)'
      BY <1>1, <2>2, <2>6, <2>8 DEF PagesInv
    <2> QED
      BY <2>2, <2>5, <2>7, <2>8, <2>9 DEF PagesInv
  <1>3. ASSUME NEW S, Drop(S), article' = article, env' = env,
               walk.pc # "closed" => Listed(walk.feed, walk.unread) \ S
                                       \subseteq Listed(walk.feed, walk.unread)',
               env.datastore => Listed(walk.feed, walk.unread)' = Listed(walk.feed, walk.unread)
        PROVE  PagesInv'
    <2>1. /\ walk'.pc = walk.pc /\ walk'.seen = walk.seen /\ walk'.again = walk.again
          /\ walk'.cursor = walk.cursor /\ walk'.feed = walk.feed /\ walk'.unread = walk.unread
          /\ walk'.refs = walk.refs
          /\ walk'.must = IF walk.pc = "closed" THEN walk.must ELSE walk.must \ S
      BY <1>1, <1>3 DEF Drop, Walk
    <2>2. Ordered' /\ \A k : Later(walk.cursor.id, k)' <=> Later(walk.cursor.id, k)
      BY <1>3, <2>1 DEF Ordered, DatesFit, OneZone, Stored, PagesInv, Later
    <2>3. walk.pc # "closed" => Split(walk)'
      BY <2>1, <2>2 DEF Split, PagesInv
    <2>4. walk.pc # "closed" => walk'.must \subseteq Listed(walk.feed, walk.unread)'
      BY <1>3, <2>1 DEF PagesInv
    <2>5. walk.pc = "page" => walk'.refs \subseteq Listed(walk.feed, walk.unread)'
      BY <1>3, <2>1 DEF PagesInv
    <2>6. env.datastore /\ walk.pc # "closed" /\ walk.cursor # None =>
            \E j \in (IF walk.pc = "page" THEN walk.refs ELSE Listed(walk.feed, walk.unread))' :
              Later(walk.cursor.id, j)'
      BY <1>3, <2>1, <2>2 DEF PagesInv
    <2> QED
      BY <1>3, <2>1, <2>2, <2>3, <2>4, <2>5, <2>6 DEF PagesInv
  <1>4. CASE \E i \in Ids : Mark(i)
    <2>1. PICK i \in Ids : Mark(i)
      BY <1>4
    <2> DEFINE S == IF walk.unread THEN {i} ELSE {}
    <2>2. /\ Drop(S) /\ article' = article /\ subs' = subs /\ env' = env
          /\ walk'.feed = walk.feed /\ walk'.unread = walk.unread
          /\ read' \subseteq read \cup {i} /\ read \ {i} \subseteq read'
      BY <1>1, <2>1 DEF Mark, Drop, Walk
    <2>3. Listed(walk.feed, walk.unread) \ S \subseteq Listed(walk.feed, walk.unread)'
      BY <2>2 DEF Listed, Stored
    <2>4. env.datastore => Listed(walk.feed, walk.unread)' = Listed(walk.feed, walk.unread)
      BY <2>2 DEF Listed, Stored, Sound
    <2> QED
      BY <1>3, <2>2, <2>3, <2>4
  <1>5. CASE \E f \in Feeds : ToggleFeed(f)
    <2>1. PICK f \in Feeds : ToggleFeed(f)
      BY <1>5
    <2> DEFINE S == {i \in Stored : article[i].feed = f}
    <2>2. /\ Drop(S) /\ article' = article /\ read' = read /\ env' = env /\ env.churn
          /\ walk'.feed = walk.feed /\ walk'.unread = walk.unread
          /\ subs \ {f} \subseteq subs'
      BY <1>1, <2>1 DEF ToggleFeed, Drop, Walk
    <2>3. Listed(walk.feed, walk.unread) \ S \subseteq Listed(walk.feed, walk.unread)'
      BY <2>2 DEF Listed, Stored
    <2>4. ~env.datastore
      BY <2>2 DEF Sound
    <2> QED
      BY <1>3, <2>2, <2>3, <2>4
  <1> QED
    BY <1>2, <1>4, <1>5

\* A list that is opened owes all it lists.
LEMMA OpenKeeps ==
  ASSUME TypeOK, Ordered, NEW f, NEW u, Open(f, u)
  PROVE  PagesInv'
PROOF
  <1>1. /\ walk'.pc = "open" /\ walk'.feed = f /\ walk'.unread = u /\ walk'.cursor = None
        /\ walk'.seen = {} /\ ~walk'.again /\ walk'.must = Listed(f, u)
        /\ article' = article /\ subs' = subs /\ read' = read /\ env' = env
    BY DEF Open
  <1>2. Ordered' /\ Split(walk)'
    BY <1>1 DEF Ordered, DatesFit, OneZone, Stored, Split
  <1>3. walk'.must \subseteq Listed(walk.feed, walk.unread)'
    BY <1>1 DEF Listed, Stored
  <1> QED
    BY <1>1, <1>2, <1>3 DEF PagesInv

\* On SQLite in one zone the dates are in order, whatever the lists.
Dated == env.datastore \/ env.zones \/ OneZone

\* No step stores a date of another zone unless publishers use them.
LEMMA DatedStep ==
  ASSUME TypeOK, Dated, Next
  PROVE  Dated'
PROOF
  <1>1. env' = env
    BY DEF Next, Mark, Arrive, ToggleFeed, Open, Page, Project, Fetch, Return
  <1>2. CASE \E i \in Ids, a \in Article : Arrive(i, a)
    <2>1. PICK i \in Ids, a \in Article : Arrive(i, a)
      BY <1>2
    <2>2. /\ ~env.zones => a.zone = 0
          /\ article' = [article EXCEPT ![i] = a] /\ article \in [Ids -> Article \cup {None}]
      BY <2>1 DEF Arrive, TypeOK
    <2>3. \A j \in Ids : article'[j] = IF j = i THEN a ELSE article[j]
      BY <2>2
    <2> QED
      BY <1>1, <2>2, <2>3 DEF Dated, OneZone, Stored
  <1>3. CASE article' = article
    BY <1>1, <1>3 DEF Dated, OneZone, Stored
  <1>4. article' = article \/ \E i \in Ids, a \in Article : Arrive(i, a)
    BY DEF Next, Mark, ToggleFeed, Open, Page, Project, Fetch, Return
  <1> QED
    BY <1>2, <1>3, <1>4

\* Articles are never removed, so that a list which still fits into the window of
\* Datastore did so before; only opening a list makes another one of it.
LEMMA SoundBefore ==
  ASSUME TypeOK, Next, Sound'
  PROVE  Sound \/ \E f \in Feeds \cup {None}, u \in BOOLEAN : Open(f, u)
PROOF
  <1>1. SUFFICES ASSUME ~\E f \in Feeds \cup {None}, u \in BOOLEAN : Open(f, u) PROVE Sound
    OBVIOUS
  <1>2. env' = env
    BY DEF Next, Mark, Arrive, ToggleFeed, Open, Page, Project, Fetch, Return
  <1>3. walk'.unread = walk.unread
    <2>1. walk \in Walk
      BY DEF TypeOK
    <2>2. CASE \/ \E i \in Ids, a \in Article : Arrive(i, a)
               \/ \E i \in Ids : Mark(i)
               \/ \E f \in Feeds : ToggleFeed(f)
      BY <2>1, <2>2 DEF Arrive, Mark, ToggleFeed, Drop, Walk
    <2>3. ASSUME NEW page, NEW more, Return(page, more) PROVE walk'.unread = walk.unread
      <3>1. CASE more
        BY <2>1, <2>3, <3>1 DEF Return, Walk
      <3>2. CASE ~more
        BY <2>1, <2>3, <3>2 DEF Return, Walk
      <3> QED
        BY <3>1, <3>2
    <2>4. CASE Page
      BY <2>3, <2>4 DEF Page
    <2>5. CASE Fetch
      BY <2>3, <2>5 DEF Fetch
    <2>6. CASE Project
      BY <2>1, <2>6 DEF Project, Walk
    <2> QED
      BY <1>1, <2>2, <2>4, <2>5, <2>6 DEF Next
  <1>4. Stored \subseteq Stored' /\ Stored' \in SUBSET Ids
    <2>1. CASE article' = article
      BY <2>1 DEF Stored
    <2>2. CASE \E i \in Ids, a \in Article : Arrive(i, a)
      BY <2>2 DEF Arrive, Stored, TypeOK
    <2> QED
      BY <2>1, <2>2 DEF Next, Mark, ToggleFeed, Open, Page, Project, Fetch, Return
  <1>5. Cardinality(Stored) <= Cardinality(Stored')
        /\ Cardinality(Stored) \in Nat /\ Cardinality(Stored') \in Nat
    <2>1. IsFiniteSet(Stored')
      BY <1>4, FS_Subset
    <2> QED
      BY <1>4, <2>1, FS_Subset, FS_CardinalityType
  <1>6. Window' = Window /\ Window \in Nat
    BY <1>2 DEF Window, TypeOK, Env
  <1>7. DatesFit
    <2>1. \A i \in Stored : article'[i] = article[i]
      <3>1. CASE \E i \in Ids, a \in Article : Arrive(i, a)
        BY <3>1 DEF Arrive, Stored, TypeOK
      <3> QED
        BY <3>1 DEF Next, Mark, ToggleFeed, Open, Page, Project, Fetch, Return
    <2> QED
      BY <1>4, <2>1 DEF Sound, DatesFit
  <1> QED
    BY <1>2, <1>3, <1>5, <1>6, <1>7 DEF Sound

\* Every step keeps the invariant of sound lists.
LEMMA StepKeeps ==
  ASSUME TypeOK, Dated, Sound => PagesInv, [Next]_vars
  PROVE  Dated' /\ (Sound => PagesInv)'
PROOF
  <1>1. CASE UNCHANGED vars
    BY <1>1 DEF vars, Dated, Sound, DatesFit, Window, PagesInv, Ordered, OneZone, Stored, Split, Later, Listed
  <1>2. CASE Next
    <2>1. Dated'
      BY <1>2, DatedStep
    <2>2. SUFFICES ASSUME Sound' PROVE PagesInv'
      BY <2>1
    <2>3. CASE \E f \in Feeds \cup {None}, u \in BOOLEAN : Open(f, u)
      <3>1. PICK f \in Feeds \cup {None}, u \in BOOLEAN : Open(f, u)
        BY <2>3
      <3>2. env' = env /\ article' = article
        BY <3>1 DEF Open
      <3>3. Ordered
        BY <2>2, <3>2 DEF Dated, Ordered, Sound, DatesFit, Stored
      <3> QED
        BY <3>1, <3>3, OpenKeeps
    <2>4. CASE Sound
      <3>1. PagesInv
        BY <2>4
      <3> QED
        BY <1>2, <2>2, <2>3, <2>4, <3>1, PageKeeps, ProjectKeeps, FetchKeeps, ChangeKeeps DEF Next
    <2> QED
      BY <1>2, <2>2, <2>3, <2>4, SoundBefore
  <1> QED
    BY <1>1, <1>2

\* The invariant of sound lists holds in every reachable state.
LEMMA PagesHold == Spec => [](Sound => PagesInv)
PROOF
  <1>1. Init => Dated /\ (Sound => PagesInv)
    BY DEF Init, Dated, PagesInv, Ordered, DatesFit, OneZone, Stored
  <1> QED
    BY <1>1, StepKeeps, TypeCorrect, PTL DEF Spec

\* No article is returned on two pages of a list, for any page size and whatever arrives,
\* is marked or is subscribed to between two pages, as long as the cursors' nanoseconds can
\* hold the dates: on SQLite with dates in one zone, and on Datastore for the unfiltered
\* list of stable subscriptions within the window.
THEOREM NoRepeatHolds == Spec => []NoRepeat
PROOF
  <1>1. (Sound => PagesInv) => NoRepeat
    BY DEF PagesInv, NoRepeat
  <1> QED
    BY <1>1, PagesHold, PTL

\* A list that ended has returned every article that was in it all the time, on both
\* backends under the same conditions.
THEOREM NoMissHolds == Spec => []NoMiss
PROOF
  <1>1. (Sound => PagesInv) => NoMiss
    BY DEF PagesInv, NoMiss
  <1> QED
    BY <1>1, PagesHold, PTL
=============================================================================
