---------------------------- MODULE AddFeedProofs ---------------------------
(* Theorems about AddFeed, for any numbers of users, urls, requests and      *)
(* goroutines and any limit.                                                 *)
EXTENDS AddFeed, FiniteSetTheorems, TLAPS

USE SetsAssumption, LimitAssumption, EnvsAssumption, NoneAssumption

-----------------------------------------------------------------------------
(* Types.                                                                    *)

WorkerOK(q) ==
    /\ q \in Worker
    /\ q.pc # "free" => q.user # None
    /\ q.pc \in {"save", "subscribe"} => q.fid # None
HandlerOK(q) == q \in Handler /\ (q.pc # "idle" => q.user # None)

WorkersOK  == worker \in [Workers -> Worker] /\ \A w \in Workers : WorkerOK(worker[w])
HandlersOK == handler \in [Handlers -> Handler] /\ \A h \in Handlers : HandlerOK(handler[h])
TablesOK   ==
    /\ env \in Envs
    /\ feed \in [FeedIDs -> URLs \cup {None}]
    /\ subs \in [Users -> SUBSET FeedIDs]

\* The three parts of TypeOK.
LEMMA TypeSplit ==
  /\ TypeOK <=> TablesOK /\ HandlersOK /\ WorkersOK
  /\ TypeOK' <=> TablesOK' /\ HandlersOK' /\ WorkersOK'
  BY DEF TypeOK, TablesOK, HandlersOK, WorkersOK, HandlerOK, WorkerOK

\* A workload uses what the constants give it.
LEMMA EnvType ==
  ASSUME TypeOK
  PROVE  /\ env.handlers \subseteq Handlers /\ env.workers \subseteq Workers
         /\ env.users \subseteq Users /\ env.urls \subseteq URLs
  <1>1. env \in Env
    BY DEF TypeOK
  <1> QED
    BY <1>1 DEF Env

\* A goroutine that does not run, and a request that is not there.
LEMMA NothingType ==
  /\ WorkerOK(Free) /\ Free.pc = "free"
  /\ HandlerOK(NoHandler) /\ NoHandler.pc = "idle"
  <1>1. Free \in Worker /\ Free.pc = "free"
    BY DEF Free, Worker
  <1>2. NoHandler \in Handler /\ NoHandler.pc = "idle"
    BY DEF NoHandler, Handler
  <1> QED
    BY <1>1, <1>2 DEF WorkerOK, HandlerOK

\* One goroutine moves on.
LEMMA WorkerMove ==
  ASSUME WorkersOK, NEW w, NEW q, WorkerOK(q), worker' = [worker EXCEPT ![w] = q]
  PROVE  WorkersOK'
  BY DEF WorkersOK, WorkerOK

\* One request moves on.
LEMMA HandlerMove ==
  ASSUME HandlersOK, NEW h, NEW q, HandlerOK(q), handler' = [handler EXCEPT ![h] = q]
  PROVE  HandlersOK'
  BY DEF HandlersOK, HandlerOK

\* A goroutine goes on to its next call.
LEMMA GotoType ==
  ASSUME WorkersOK, NEW w \in Workers, NEW pc \in {"find", "fetch", "insert", "subscribe"},
         Goto(w, pc), worker[w].pc # "free",
         pc = "subscribe" => worker[w].fid # None
  PROVE  WorkersOK'
  <1> DEFINE q == [worker[w] EXCEPT !.pc = pc]
  <1>1. WorkerOK(worker[w])
    BY DEF WorkersOK
  <1>2. q \in Worker /\ q.pc = pc /\ q.user = worker[w].user /\ q.fid = worker[w].fid
    BY <1>1 DEF WorkerOK, Worker
  <1>3. WorkerOK(q)
    BY <1>1, <1>2 DEF WorkerOK
  <1>4. worker' = [worker EXCEPT ![w] = q]
    BY DEF Goto
  <1> QED
    BY <1>3, <1>4, WorkerMove

\* What Done makes of a goroutine.
LEMMA DoneEffect ==
  ASSUME WorkersOK, NEW w \in Workers, Done(w), worker[w].pc # "free"
  PROVE  /\ WorkersOK'
         /\ worker'[w].pc \in {"free", "done"}
         /\ \A v \in Workers \ {w} : worker'[v] = worker[v]
  <1> DEFINE q == IF worker[w].late THEN Free ELSE [worker[w] EXCEPT !.pc = "done"]
  <1>1. WorkerOK(worker[w]) /\ worker \in [Workers -> Worker]
    BY DEF WorkersOK
  <1>2. worker' = [worker EXCEPT ![w] = q]
    BY DEF Done
  <1>3. WorkerOK(q) /\ q.pc \in {"free", "done"}
    <2>1. CASE worker[w].late
      BY <2>1, NothingType
    <2>2. CASE ~worker[w].late
      <3>1. q \in Worker /\ q.pc = "done" /\ q.user = worker[w].user
        BY <1>1, <2>2 DEF WorkerOK, Worker
      <3> QED
        BY <1>1, <3>1 DEF WorkerOK
    <2> QED
      BY <2>1, <2>2
  <1> QED
    BY <1>1, <1>2, <1>3, WorkerMove

\* Return keeps the requests well typed.
LEMMA ReturnType ==
  ASSUME HandlersOK, NEW h \in Handlers, handler[h].pc # "idle", Return(h)
  PROVE  HandlersOK'
  <1>1. CASE Answer(h)
    BY <1>1, NothingType, HandlerMove DEF Answer
  <1>2. CASE handler' = [handler EXCEPT ![h].pc = "check", ![h].worker = None]
    <2> DEFINE q == [handler[h] EXCEPT !.pc = "check", !.worker = None]
    <2>1. HandlerOK(handler[h])
      BY DEF HandlersOK
    <2>2. q \in Handler /\ q.user = handler[h].user
      BY <2>1 DEF HandlerOK, Handler
    <2>3. HandlerOK(q)
      BY <2>1, <2>2 DEF HandlerOK
    <2>4. handler' = [handler EXCEPT ![h] = q]
      BY <1>2
    <2> QED
      BY <2>3, <2>4, HandlerMove
  <1> QED
    BY <1>1, <1>2 DEF Return

-----------------------------------------------------------------------------
(* What a step does to the requests and goroutines that may still subscribe  *)
(* their user.                                                               *)

Running(q)  == q.pc \notin {"free", "done"}
Active(u)   == {w \in Workers : Running(worker[w]) /\ worker[w].user = u}
Admitted(u) == {h \in Handlers : handler[h].pc = "start" /\ handler[h].user = u}

\* The requests and goroutines are those of the workload.
Within ==
    /\ \A h \in Handlers : handler[h].pc # "idle" => h \in env.handlers
    /\ \A w \in Workers : worker[w].pc # "free" => w \in env.workers

\* No other request or goroutine than those of the workload comes.
StaysWithin ==
    /\ env' = env
    /\ \A h \in Handlers : handler'[h].pc # "idle" => handler[h].pc # "idle" \/ h \in env.handlers
    /\ \A w \in Workers : worker'[w].pc # "free" => worker[w].pc # "free" \/ w \in env.workers

\* No request is admitted.
NoneAdmitted ==
    \A h \in Handlers : handler'[h].pc = "start"
                          => handler[h].pc = "start" /\ handler'[h].user = handler[h].user

\* No request is admitted, no goroutine starts, no user gets a feed.
Calm ==
    /\ NoneAdmitted
    /\ \A w \in Workers : Running(worker'[w])
                           => Running(worker[w]) /\ worker'[w].user = worker[w].user
    /\ \A u \in Users : subs'[u] \subseteq subs[u]

\* A request of user u passes the check.
Admits(u) ==
    /\ CanUserAddFeed(u)
    /\ UNCHANGED <<subs, worker>>
    /\ \A h \in Handlers : handler'[h].pc = "start"
          => \/ handler'[h].user = u
             \/ handler[h].pc = "start" /\ handler'[h].user = handler[h].user

\* The admitted request h starts goroutine w for its user.
Starts(h, w) ==
    /\ handler[h].pc = "start" /\ handler'[h].pc # "start"
    /\ \A x \in Handlers \ {h} : handler'[x] = handler[x]
    /\ worker'[w].user = handler[h].user
    /\ \A v \in Workers \ {w} : worker'[v] = worker[v]
    /\ subs' = subs

\* Goroutine w subscribes its user to feed f and ends.
Subscribes(w, f) ==
    /\ Running(worker[w]) /\ ~Running(worker'[w])
    /\ \A v \in Workers \ {w} : worker'[v] = worker[v]
    /\ subs' = [subs EXCEPT ![worker[w].user] = @ \cup {f}]
    /\ handler' = handler

\* A step of one of these kinds, which keeps the types.
Effect ==
    /\ TypeOK'
    /\ StaysWithin
    /\ \/ Calm
       \/ \E u \in Users : Admits(u)
       \/ \E h \in Handlers, w \in Workers : Starts(h, w)
       \/ \E w \in Workers, f \in FeedIDs : Subscribes(w, f)

\* A request arrives.
LEMMA BeginEffect ==
  ASSUME TypeOK, NEW h \in env.handlers, NEW u \in Users, NEW S \in SUBSET URLs,
         handler' = [handler EXCEPT ![h] = [NoHandler EXCEPT !.pc = "check", !.user = u,
                                              !.todo = S]],
         UNCHANGED <<env, feed, subs, worker>>
  PROVE  Effect
  <1> DEFINE q == [NoHandler EXCEPT !.pc = "check", !.user = u, !.todo = S]
  <1>1. q \in Handler /\ q.user = u /\ q.pc = "check"
    BY DEF NoHandler, Handler
  <1>2. HandlerOK(q)
    BY <1>1 DEF HandlerOK
  <1>3. HandlersOK'
    BY <1>2, TypeSplit, HandlerMove
  <1>4. \A x \in Handlers : (handler'[x] = q /\ x = h) \/ handler'[x] = handler[x]
    BY TypeSplit DEF HandlersOK
  <1> HIDE DEF q
  <1>5. StaysWithin /\ Calm
    BY <1>1, <1>4 DEF StaysWithin, Calm, NoneAdmitted
  <1> QED
    BY <1>3, <1>5, TypeSplit DEF Effect, TablesOK, WorkersOK

\* A request moves on to the place of q, or ends.
LEMMA HandlerStep ==
  ASSUME TypeOK, NEW h \in Handlers, handler[h].pc # "idle", NEW q, HandlerOK(q),
         handler' = [handler EXCEPT ![h] = q]
  PROVE  /\ HandlersOK'
         /\ handler'[h] = q
         /\ \A x \in Handlers \ {h} : handler'[x] = handler[x]
         /\ \A x \in Handlers : handler'[x].pc # "idle" => handler[x].pc # "idle"
  <1>1. HandlersOK' /\ HandlersOK
    BY TypeSplit, HandlerMove
  <1>2. handler'[h] = q /\ \A x \in Handlers \ {h} : handler'[x] = handler[x]
    BY <1>1 DEF HandlersOK
  <1> QED
    BY <1>1, <1>2

\* The limit is checked and the request may be admitted.
LEMMA CheckEffect ==
  ASSUME TypeOK, NEW h \in Handlers, Check(h)
  PROVE  Effect
  <1> DEFINE p == handler[h]
  <1>0. /\ HandlerOK(p) /\ p.pc = "check" /\ p.user \in Users
        /\ UNCHANGED <<env, feed, subs, worker>>
    BY TypeSplit DEF Check, HandlersOK, HandlerOK, Handler
  <1>1. CASE Answer(h)
    <2>1. /\ HandlersOK' /\ handler'[h] = NoHandler
          /\ \A x \in Handlers \ {h} : handler'[x] = handler[x]
          /\ \A x \in Handlers : handler'[x].pc # "idle" => handler[x].pc # "idle"
      BY <1>0, <1>1, NothingType, HandlerStep DEF Answer
    <2>2. StaysWithin /\ Calm
      BY <1>0, <2>1, NothingType DEF StaysWithin, Calm, NoneAdmitted
    <2> QED
      BY <1>0, <2>1, <2>2, TypeSplit DEF Effect, TablesOK, WorkersOK
  <1>2. CASE CanUserAddFeed(p.user) /\ handler' = [handler EXCEPT ![h].pc = "start"]
    <2> DEFINE n == [handler[h] EXCEPT !.pc = "start"]
    <2>1. n \in Handler /\ n.user = p.user /\ n.pc = "start"
      BY <1>0 DEF HandlerOK, Handler
    <2>2. HandlerOK(n)
      BY <1>0, <2>1 DEF HandlerOK
    <2>3. handler' = [handler EXCEPT ![h] = n]
      BY <1>2
    <2> HIDE DEF n
    <2>4. /\ HandlersOK' /\ handler'[h] = n
          /\ \A x \in Handlers \ {h} : handler'[x] = handler[x]
          /\ \A x \in Handlers : handler'[x].pc # "idle" => handler[x].pc # "idle"
      BY <1>0, <2>2, <2>3, HandlerStep
    <2>5. StaysWithin
      BY <1>0, <2>4 DEF StaysWithin
    <2>6. Admits(p.user)
      BY <1>0, <1>2, <2>1, <2>4 DEF Admits
    <2> QED
      BY <1>0, <2>4, <2>5, <2>6, TypeSplit DEF Effect, TablesOK, WorkersOK
  <1> QED
    BY <1>1, <1>2 DEF Check

\* An admitted request starts its goroutine.
LEMMA StartEffect ==
  ASSUME TypeOK, NEW h \in Handlers, Start(h)
  PROVE  Effect
  <1> DEFINE p == handler[h]
  <1>1. /\ HandlerOK(p) /\ p.pc = "start" /\ p.user \in Users /\ p.todo \subseteq URLs
        /\ UNCHANGED <<env, feed, subs>>
    BY TypeSplit DEF Start, HandlersOK, HandlerOK, Handler
  <1>2. PICK w \in env.workers, url \in p.todo :
               /\ worker' = [worker EXCEPT ![w] = [Free EXCEPT !.pc = "discover",
                                                  !.user = p.user, !.url = url]]
               /\ handler' = [handler EXCEPT ![h].pc = "wait", ![h].worker = w,
                                          ![h].todo = @ \ {url}]
    BY DEF Start
  <1>3. w \in Workers
    BY EnvType
  <1> DEFINE q == [Free EXCEPT !.pc = "discover", !.user = p.user, !.url = url]
             n == [handler[h] EXCEPT !.pc = "wait", !.worker = w, !.todo = @ \ {url}]
  <1>4. q \in Worker /\ q.pc = "discover" /\ q.user = p.user
    BY <1>1 DEF Free, Worker
  <1>5. WorkerOK(q)
    BY <1>1, <1>4 DEF WorkerOK
  <1>6. WorkersOK'
    BY <1>2, <1>5, TypeSplit, WorkerMove
  <1>7. n \in Handler /\ n.user = p.user /\ n.pc = "wait"
    BY <1>1, <1>3 DEF HandlerOK, Handler
  <1>8. HandlerOK(n)
    BY <1>1, <1>7 DEF HandlerOK
  <1>9. handler' = [handler EXCEPT ![h] = n]
    BY <1>2
  <1>10. worker'[w] = q /\ \A v \in Workers \ {w} : worker'[v] = worker[v]
    BY <1>2, <1>3 DEF TypeOK
  <1> HIDE DEF n, q
  <1>11. /\ HandlersOK' /\ handler'[h] = n
         /\ \A x \in Handlers \ {h} : handler'[x] = handler[x]
         /\ \A x \in Handlers : handler'[x].pc # "idle" => handler[x].pc # "idle"
    BY <1>1, <1>8, <1>9, HandlerStep
  <1>12. StaysWithin
    BY <1>1, <1>2, <1>10, <1>11 DEF StaysWithin
  <1>13. Starts(h, w)
    BY <1>1, <1>4, <1>7, <1>10, <1>11 DEF Starts
  <1> QED
    BY <1>1, <1>3, <1>6, <1>11, <1>12, <1>13, TypeSplit DEF Effect, TablesOK

\* Return admits nobody.
LEMMA ReturnEffect ==
  ASSUME TypeOK, NEW h \in Handlers, handler[h].pc # "idle", Return(h)
  PROVE  NoneAdmitted /\ \A x \in Handlers : handler'[x].pc # "idle" => handler[x].pc # "idle"
  <1>0. handler \in [Handlers -> Handler] /\ handler[h] \in Handler
    BY DEF TypeOK
  <1>1. \A x \in Handlers \ {h} : handler'[x] = handler[x]
    BY <1>0 DEF Return, Answer
  <1>2. handler'[h].pc \in {"idle", "check"}
    <2>1. CASE Answer(h)
      BY <1>0, <2>1, NothingType DEF Answer
    <2>2. CASE handler' = [handler EXCEPT ![h].pc = "check", ![h].worker = None]
      BY <1>0, <2>2 DEF Handler
    <2> QED
      BY <2>1, <2>2 DEF Return
  <1> QED
    BY <1>1, <1>2 DEF NoneAdmitted

\* A request stops waiting.
LEMMA WaitEffect ==
  ASSUME TypeOK, NEW h \in Handlers, Finish(h) \/ Timeout(h)
  PROVE  Effect
  <1> DEFINE w == handler[h].worker
  <1>0. WorkersOK /\ HandlersOK /\ TablesOK /\ worker \in [Workers -> Worker]
    BY TypeSplit DEF WorkersOK
  <1>1. HandlersOK' /\ UNCHANGED <<env, feed, subs>>
    BY <1>0, ReturnType DEF Finish, Timeout
  <1>4. NoneAdmitted /\ \A x \in Handlers : handler'[x].pc # "idle" => handler[x].pc # "idle"
    BY ReturnEffect DEF Finish, Timeout
  <1>2. CASE Finish(h)
    <2>1. worker' = [worker EXCEPT ![w] = Free]
      BY <1>2 DEF Finish
    <2>2. WorkersOK'
      BY <1>0, <2>1, NothingType, WorkerMove
    <2>3. \A v \in Workers : worker'[v] = Free \/ worker'[v] = worker[v]
      BY <1>0, <2>1
    <2> QED
      BY <1>0, <1>1, <1>4, <2>2, <2>3, NothingType, TypeSplit DEF Effect, StaysWithin, Calm, Running, TablesOK
  <1>3. CASE Timeout(h)
    <2>1. worker' = [worker EXCEPT ![w].late = TRUE]
      BY <1>3 DEF Timeout
    <2>2. CASE w \notin Workers
      <3>1. worker' = worker
        BY <1>0, <2>1, <2>2
      <3> QED
        BY <1>0, <1>1, <1>4, <3>1, TypeSplit DEF Effect, StaysWithin, Calm, TablesOK, WorkersOK
    <2>3. CASE w \in Workers
      <3> DEFINE q == [worker[w] EXCEPT !.late = TRUE]
      <3>1. WorkerOK(worker[w])
        BY <1>0, <2>3 DEF WorkersOK
      <3>2. /\ q \in Worker /\ q.pc = worker[w].pc /\ q.user = worker[w].user
            /\ q.fid = worker[w].fid
        BY <3>1 DEF WorkerOK, Worker
      <3>3. WorkerOK(q)
        BY <3>1, <3>2 DEF WorkerOK
      <3>4. worker' = [worker EXCEPT ![w] = q]
        BY <2>1
      <3>5. WorkersOK'
        BY <1>0, <3>3, <3>4, WorkerMove
      <3>6. \A v \in Workers : v # w => worker'[v] = worker[v]
        BY <1>0, <3>4
      <3>7. worker'[w] = q
        BY <1>0, <2>3, <3>4
      <3>8. \A v \in Workers : worker'[v].pc = worker[v].pc /\ worker'[v].user = worker[v].user
        BY <3>2, <3>6, <3>7
      <3> QED
        BY <1>0, <1>1, <1>4, <3>5, <3>8, TypeSplit DEF Effect, StaysWithin, Calm, Running, TablesOK
    <2> QED
      BY <2>2, <2>3
  <1> QED
    BY <1>2, <1>3

\* A goroutine goes on or ends, without a subscription.
LEMMA GoOnEffect ==
  ASSUME TypeOK, NEW w \in Workers, Running(worker[w]), WorkersOK', TablesOK', UNCHANGED <<env, handler>>,
         \A u \in Users : subs'[u] \subseteq subs[u],
         \A v \in Workers \ {w} : worker'[v] = worker[v],
         ~Running(worker'[w]) \/ worker'[w].user = worker[w].user
  PROVE  Effect
  <1>1. TypeOK'
    BY TypeSplit DEF HandlersOK
  <1>2. StaysWithin
    BY DEF StaysWithin, Running
  <1>3. Calm
    BY DEF Calm, NoneAdmitted
  <1> QED
    BY <1>1, <1>2, <1>3 DEF Effect

\* Goroutine w ends.
LEMMA DoneStep ==
  ASSUME TypeOK, NEW w \in Workers, Running(worker[w]), Done(w), TablesOK', UNCHANGED <<env, subs, handler>>
  PROVE  Effect
  <1>1. worker[w].pc # "free"
    BY DEF Running
  <1>2. /\ WorkersOK' /\ worker'[w].pc \in {"free", "done"}
        /\ \A v \in Workers \ {w} : worker'[v] = worker[v]
    BY <1>1, DoneEffect, TypeSplit
  <1> QED
    BY <1>2, GoOnEffect DEF Running

\* Goroutine w makes its next call.
LEMMA GotoStep ==
  ASSUME TypeOK, NEW w \in Workers, Running(worker[w]), TablesOK', UNCHANGED <<env, subs, handler>>,
         NEW pc \in {"find", "fetch", "insert", "subscribe"}, Goto(w, pc),
         pc = "subscribe" => worker[w].fid # None
  PROVE  Effect
  <1>1. WorkersOK /\ worker \in [Workers -> Worker] /\ worker[w] \in Worker
    BY TypeSplit DEF WorkersOK
  <1>2. WorkersOK'
    BY <1>1, GotoType DEF Running
  <1>3. worker'[w] = [worker[w] EXCEPT !.pc = pc] /\ \A v \in Workers \ {w} : worker'[v] = worker[v]
    BY <1>1 DEF Goto
  <1>4. worker'[w].user = worker[w].user
    BY <1>1, <1>3 DEF Worker
  <1> QED
    BY <1>2, <1>3, <1>4, GoOnEffect

\* Goroutine w has found or made feed f.
LEMMA FeedStep ==
  ASSUME TypeOK, NEW w \in Workers, Running(worker[w]), TablesOK', UNCHANGED <<env, subs, handler>>,
         NEW f \in FeedIDs, NEW pc \in {"save", "subscribe"},
         worker' = [worker EXCEPT ![w].pc = pc, ![w].fid = f]
  PROVE  Effect
  <1> DEFINE q == [worker[w] EXCEPT !.pc = pc, !.fid = f]
  <1>1. WorkersOK /\ worker \in [Workers -> Worker] /\ WorkerOK(worker[w])
    BY TypeSplit DEF WorkersOK
  <1>2. q \in Worker /\ q.pc = pc /\ q.fid = f /\ q.user = worker[w].user
    BY <1>1 DEF WorkerOK, Worker
  <1>3. WorkerOK(q)
    BY <1>1, <1>2 DEF WorkerOK, Running
  <1>4. worker' = [worker EXCEPT ![w] = q]
    OBVIOUS
  <1>5. WorkersOK'
    BY <1>1, <1>3, <1>4, WorkerMove
  <1>6. worker'[w] = q /\ \A v \in Workers \ {w} : worker'[v] = worker[v]
    BY <1>1, <1>4
  <1> QED
    BY <1>2, <1>5, <1>6, GoOnEffect

\* The steps of a goroutine.
LEMMA WorkerEffect ==
  ASSUME TypeOK, NEW w \in Workers, Network(w) \/ Database(w)
  PROVE  Effect
  <1>0. WorkersOK /\ HandlersOK /\ TablesOK
    BY TypeSplit
  <1>1. CASE Discover(w)
    <2>1. TablesOK' /\ Running(worker[w]) /\ UNCHANGED <<env, subs, handler>>
      BY <1>0, <1>1 DEF Discover, TablesOK, Running
    <2>2. Goto(w, "find") \/ Done(w)
      BY <1>1 DEF Discover
    <2> QED
      BY <2>1, <2>2, DoneStep, GotoStep
  <1>2. CASE Fetch(w)
    <2>1. TablesOK' /\ Running(worker[w]) /\ UNCHANGED <<env, subs, handler>>
      BY <1>0, <1>2 DEF Fetch, TablesOK, Running
    <2>2. Goto(w, "insert") \/ Done(w)
      BY <1>2 DEF Fetch
    <2> QED
      BY <2>1, <2>2, DoneStep, GotoStep
  <1>3. CASE Save(w)
    <2>1. TablesOK' /\ Running(worker[w]) /\ UNCHANGED <<env, subs, handler>> /\ worker[w].pc = "save"
      BY <1>0, <1>3 DEF Save, TablesOK, Running
    <2>2. Goto(w, "subscribe") \/ Done(w)
      BY <1>3 DEF Save
    <2>3. worker[w].fid # None
      BY <1>0, <2>1 DEF WorkersOK, WorkerOK
    <2> QED
      BY <2>1, <2>2, <2>3, DoneStep, GotoStep
  <1>4. CASE Find(w)
    <2>1. TablesOK' /\ Running(worker[w]) /\ UNCHANGED <<env, subs, handler>>
      BY <1>0, <1>4 DEF Find, TablesOK, Running
    <2>2. CASE Goto(w, "fetch") \/ Done(w)
      BY <2>1, <2>2, DoneStep, GotoStep
    <2>3. CASE \E f \in FeedsOf(worker[w].url) :
                 worker' = [worker EXCEPT ![w].pc = "subscribe", ![w].fid = f]
      BY <2>1, <2>3, FeedStep DEF FeedsOf
    <2> QED
      BY <1>4, <2>2, <2>3 DEF Find
  <1>5. CASE Insert(w)
    <2>1. Running(worker[w]) /\ UNCHANGED <<env, subs, handler>>
      BY <1>5 DEF Insert, Running
    <2>2. worker[w].url \in URLs \cup {None}
      BY <1>0 DEF WorkersOK, Worker
    <2>3. CASE Done(w) /\ UNCHANGED feed
      <3>1. TablesOK'
        BY <1>0, <2>1, <2>3 DEF TablesOK
      <3> QED
        BY <2>1, <2>3, <3>1, DoneStep
    <2>4. ASSUME NEW f \in FeedIDs, feed' = [feed EXCEPT ![f] = worker[w].url],
                 worker' = [worker EXCEPT ![w].pc = "save", ![w].fid = f]
          PROVE  Effect
      <3>1. TablesOK'
        BY <1>0, <2>1, <2>2, <2>4 DEF TablesOK
      <3> QED
        BY <2>1, <2>4, <3>1, FeedStep
    <2> QED
      BY <1>5, <2>3, <2>4 DEF Insert
  <1>6. CASE Subscribe(w)
    <2>1. /\ Running(worker[w]) /\ UNCHANGED <<env, feed, handler>> /\ Done(w)
          /\ worker[w].pc = "subscribe"
      BY <1>6 DEF Subscribe, Running
    <2>2. CASE UNCHANGED subs
      <3>1. TablesOK'
        BY <1>0, <2>1, <2>2 DEF TablesOK
      <3> QED
        BY <2>1, <2>2, <3>1, DoneStep
    <2>3. CASE subs' = [subs EXCEPT ![worker[w].user] = @ \cup {worker[w].fid}]
      <3>1. worker[w].fid \in FeedIDs /\ worker[w].user \in Users
        BY <1>0, <2>1 DEF WorkersOK, WorkerOK, Worker
      <3>2. TablesOK'
        BY <1>0, <2>1, <2>3, <3>1 DEF TablesOK
      <3>3. /\ WorkersOK' /\ worker'[w].pc \in {"free", "done"}
            /\ \A v \in Workers \ {w} : worker'[v] = worker[v]
        BY <1>0, <2>1, DoneEffect
      <3>4. HandlersOK'
        BY <1>0, <2>1 DEF HandlersOK
      <3>5. TypeOK'
        BY <3>2, <3>3, <3>4, TypeSplit
      <3>6. Subscribes(w, worker[w].fid)
        BY <2>1, <2>3, <3>3 DEF Subscribes, Running
      <3>7. StaysWithin
        BY <2>1, <3>3 DEF StaysWithin, Running
      <3> QED
        BY <3>1, <3>5, <3>6, <3>7 DEF Effect
    <2> QED
      BY <1>6, <2>2, <2>3 DEF Subscribe
  <1> QED
    BY <1>1, <1>2, <1>3, <1>4, <1>5, <1>6 DEF Network, Database

\* Every step.
LEMMA NextEffect ==
  ASSUME TypeOK, [Next]_vars
  PROVE  Effect
  <1>0. WorkersOK /\ HandlersOK /\ TablesOK
    BY TypeSplit
  <1>1. ASSUME NEW h \in env.handlers, NEW u \in Users, NEW url \in URLs, BeginAdd(h, u, url)
        PROVE  Effect
    <2>1. {url} \in SUBSET URLs
      OBVIOUS
    <2> QED
      BY <1>1, <2>1, BeginEffect DEF BeginAdd
  <1>2. ASSUME NEW h \in env.handlers, NEW u \in Users, NEW S \in SUBSET URLs, BeginImport(h, u, S)
        PROVE  Effect
    <2>1. S \ Subscribed(u) \in SUBSET URLs
      OBVIOUS
    <2> QED
      BY <1>2, <2>1, BeginEffect DEF BeginImport
  <1>3. ASSUME NEW u \in Users, NEW f \in FeedIDs, Unsubscribe(u, f)
        PROVE  Effect
    <2>1. \A v \in Users : subs'[v] \subseteq subs[v]
      BY <1>0, <1>3 DEF Unsubscribe, TablesOK
    <2>2. TablesOK'
      BY <1>0, <1>3 DEF Unsubscribe, TablesOK
    <2> QED
      BY <1>0, <1>3, <2>1, <2>2, TypeSplit DEF Unsubscribe, Effect, StaysWithin, Calm,
         NoneAdmitted, WorkersOK, HandlersOK
  <1>4. CASE UNCHANGED vars
    BY <1>0, <1>4, TypeSplit DEF vars, Effect, StaysWithin, Calm, NoneAdmitted, WorkersOK,
       HandlersOK, TablesOK
  <1>5. ASSUME NEW h \in Handlers, Serve(h)
        PROVE  Effect
    BY <1>5, CheckEffect, StartEffect, WaitEffect DEF Serve
  <1> QED
    BY <1>1, <1>2, <1>3, <1>4, <1>5, WorkerEffect, EnvType DEF Next

\* The server starts well typed.
LEMMA InitType == Init => TypeOK
  <1> SUFFICES ASSUME Init PROVE TypeOK
    OBVIOUS
  <1>1. WorkersOK
    BY NothingType DEF Init, WorkersOK, WorkerOK
  <1>2. HandlersOK
    BY NothingType DEF Init, HandlersOK, HandlerOK
  <1>3. TablesOK
    BY DEF Init, TablesOK
  <1> QED
    BY <1>1, <1>2, <1>3, TypeSplit

\* The tables, requests and goroutines keep their types: a goroutine always knows its
\* user, and one that saves or subscribes knows its feed (addFeedForUserInternal).
THEOREM TypeCorrect == Spec => []TypeOK
  <1>1. TypeOK /\ [Next]_vars => TypeOK'
    BY NextEffect DEF Effect
  <1> QED
    BY <1>1, InitType, PTL DEF Spec

-----------------------------------------------------------------------------
(* One feed per url.                                                         *)

\* On SQLite a url is one feed, whatever requests and goroutines overlap (the UNIQUE
\* url of the feeds table; AddFeed).
THEOREM OneFeedHolds == Spec => []OneFeedPerURL
  <1>1. Init => OneFeedPerURL
    BY DEF Init, OneFeedPerURL
  <1>2. TypeOK /\ OneFeedPerURL /\ [Next]_vars => OneFeedPerURL'
    <2> SUFFICES ASSUME TypeOK, OneFeedPerURL, [Next]_vars PROVE OneFeedPerURL'
      OBVIOUS
    <2>1. CASE UNCHANGED <<env, feed>>
      BY <2>1 DEF OneFeedPerURL
    <2>2. ASSUME NEW w \in Workers, Insert(w), ~UNCHANGED feed
          PROVE  OneFeedPerURL'
      <3>1. PICK f \in FeedIDs : /\ env.datastore \/ FeedsOf(worker[w].url) = {}
                                 /\ feed' = [feed EXCEPT ![f] = worker[w].url]
        BY <2>2 DEF Insert
      <3>2. env' = env /\ feed \in [FeedIDs -> URLs \cup {None}]
        BY <2>2, SMTT(30) DEF Insert, TypeOK
      <3> QED
        BY <3>1, <3>2 DEF OneFeedPerURL, FeedsOf
    <2>3. \/ UNCHANGED <<env, feed>>
          \/ \E w \in Workers : Insert(w) /\ ~UNCHANGED feed
      BY Zenon DEF Next, vars, BeginAdd, BeginImport, Serve, Check, Start, Finish, Timeout, Network, Discover,
             Fetch, Database, Find, Insert, Save, Subscribe, Unsubscribe
    <2> QED
      BY <2>1, <2>2, <2>3
  <1> QED
    BY <1>1, <1>2, TypeCorrect, PTL DEF Spec

-----------------------------------------------------------------------------
(* The feed limit.                                                           *)

\* The inductive form of LimitOverrun: every request that was admitted and every
\* goroutine that runs may still add one.
LimitInv ==
    \A u \in Trial :
        Cardinality(subs[u]) + Cardinality(Active(u)) + Cardinality(Admitted(u)) + 1
          <= Limit + Cardinality(env.handlers) + Cardinality(env.workers)

\* Everything that is counted is finite.
LEMMA Finite ==
  ASSUME TypeOK, Within, NEW u \in Users
  PROVE  /\ IsFiniteSet(subs[u]) /\ Cardinality(subs[u]) \in Nat
         /\ IsFiniteSet(Active(u)) /\ Cardinality(Active(u)) \in Nat
         /\ Cardinality(Active(u)) <= Cardinality(env.workers)
         /\ Cardinality(env.workers) \in Nat
         /\ IsFiniteSet(Admitted(u)) /\ Cardinality(Admitted(u)) \in Nat
         /\ Cardinality(Admitted(u)) <= Cardinality(env.handlers)
         /\ Cardinality(env.handlers) \in Nat
  <1>1. subs[u] \in SUBSET FeedIDs /\ IsFiniteSet(FeedIDs)
    BY DEF TypeOK
  <1>2. Active(u) \in SUBSET env.workers
    BY DEF Active, Within, Running
  <1>3. Admitted(u) \in SUBSET env.handlers
    BY DEF Admitted, Within
  <1>4. /\ env.workers \in SUBSET Workers /\ IsFiniteSet(Workers)
        /\ env.handlers \in SUBSET Handlers /\ IsFiniteSet(Handlers)
    BY EnvType
  <1>5. IsFiniteSet(env.workers) /\ IsFiniteSet(env.handlers)
    BY <1>4, FS_Subset
  <1>6. /\ IsFiniteSet(subs[u])
        /\ IsFiniteSet(Active(u)) /\ Cardinality(Active(u)) <= Cardinality(env.workers)
        /\ IsFiniteSet(Admitted(u)) /\ Cardinality(Admitted(u)) <= Cardinality(env.handlers)
    BY <1>1, <1>2, <1>3, <1>5, FS_Subset
  <1> QED
    BY <1>5, <1>6, FS_CardinalityType

\* The same of the next state.
LEMMA FiniteNext ==
  ASSUME TypeOK', Within', NEW u \in Users
  PROVE  /\ Cardinality(subs'[u]) \in Nat
         /\ Cardinality(Active(u)') \in Nat /\ Cardinality(Active(u)') <= Cardinality(env'.workers)
         /\ Cardinality(Admitted(u)') \in Nat /\ Cardinality(Admitted(u)') <= Cardinality(env'.handlers)
  <1>1. subs'[u] \in SUBSET FeedIDs /\ IsFiniteSet(FeedIDs)
    BY DEF TypeOK
  <1>2. Active(u)' \in SUBSET env'.workers
    BY DEF Active, Within, Running
  <1>3. Admitted(u)' \in SUBSET env'.handlers
    BY DEF Admitted, Within
  <1>4. /\ env'.workers \in SUBSET Workers /\ IsFiniteSet(Workers)
        /\ env'.handlers \in SUBSET Handlers /\ IsFiniteSet(Handlers)
    BY DEF TypeOK, Env
  <1>5. IsFiniteSet(env'.workers) /\ IsFiniteSet(env'.handlers)
    BY <1>4, FS_Subset
  <1>6. /\ IsFiniteSet(subs'[u])
        /\ IsFiniteSet(Active(u)') /\ Cardinality(Active(u)') <= Cardinality(env'.workers)
        /\ IsFiniteSet(Admitted(u)') /\ Cardinality(Admitted(u)') <= Cardinality(env'.handlers)
    BY <1>1, <1>2, <1>3, <1>5, FS_Subset
  <1> QED
    BY <1>6, FS_CardinalityType

\* The requests and goroutines stay those of the workload, and a step that starts
\* nothing, admits one, turns an admission into a goroutine or a goroutine into a
\* subscription keeps the sum.
LEMMA LimitStep ==
  ASSUME TypeOK, Within, LimitInv, [Next]_vars
  PROVE  Within' /\ LimitInv'
  <1>1. Effect /\ TypeOK' /\ StaysWithin /\ env' = env
    BY NextEffect DEF Effect, StaysWithin
  <1>2. Within'
    BY <1>1 DEF Within, StaysWithin
  <1>3. LimitInv'
    <2> SUFFICES ASSUME NEW u \in Trial
                 PROVE  Cardinality(subs'[u]) + Cardinality(Active(u)') + Cardinality(Admitted(u)') + 1
                          <= Limit + Cardinality(env.handlers) + Cardinality(env.workers)
      BY <1>1 DEF LimitInv
    <2> DEFINE Kept == Cardinality(subs'[u]) + Cardinality(Active(u)') + Cardinality(Admitted(u)') + 1
                         <= Limit + Cardinality(env.handlers) + Cardinality(env.workers)
    <2>0. u \in Users
      OBVIOUS
    <2>1. /\ IsFiniteSet(subs[u]) /\ Cardinality(subs[u]) \in Nat
          /\ IsFiniteSet(Active(u)) /\ Cardinality(Active(u)) \in Nat
          /\ Cardinality(Active(u)) <= Cardinality(env.workers)
          /\ Cardinality(env.workers) \in Nat
          /\ IsFiniteSet(Admitted(u)) /\ Cardinality(Admitted(u)) \in Nat
          /\ Cardinality(Admitted(u)) <= Cardinality(env.handlers)
          /\ Cardinality(env.handlers) \in Nat
      BY <2>0, Finite
    <2>2. /\ Cardinality(subs'[u]) \in Nat
          /\ Cardinality(Active(u)') \in Nat /\ Cardinality(Active(u)') <= Cardinality(env.workers)
          /\ Cardinality(Admitted(u)') \in Nat /\ Cardinality(Admitted(u)') <= Cardinality(env.handlers)
      BY <1>1, <1>2, <2>0, FiniteNext
    <2>3. Cardinality(subs[u]) + Cardinality(Active(u)) + Cardinality(Admitted(u)) + 1
            <= Limit + Cardinality(env.handlers) + Cardinality(env.workers)
      BY DEF LimitInv
    <2>4. CASE /\ subs'[u] \subseteq subs[u] /\ Active(u)' \subseteq Active(u)
               /\ Admitted(u)' \subseteq Admitted(u)
      <3>1. /\ Cardinality(subs'[u]) <= Cardinality(subs[u])
            /\ Cardinality(Active(u)') <= Cardinality(Active(u))
            /\ Cardinality(Admitted(u)') <= Cardinality(Admitted(u))
        BY <2>1, <2>4, FS_Subset
      <3> QED
        BY <2>1, <2>2, <2>3, <3>1
    <2>5. CASE Calm
      <3>1. /\ subs'[u] \subseteq subs[u] /\ Active(u)' \subseteq Active(u)
            /\ Admitted(u)' \subseteq Admitted(u)
        BY <2>0, <2>5 DEF Calm, NoneAdmitted, Active, Admitted
      <3> QED
        BY <2>4, <3>1
    <2>6. ASSUME NEW v \in Users, Admits(v)
          PROVE  Kept
      <3>1. CASE u = v
        <4>1. Cardinality(subs[u]) < Limit /\ subs'[u] = subs[u]
          BY <2>6, <3>1 DEF Admits, CanUserAddFeed
        <4> QED
          BY <2>1, <2>2, <4>1
      <3>2. CASE u # v
        <4>1. /\ subs'[u] \subseteq subs[u] /\ Active(u)' \subseteq Active(u)
              /\ Admitted(u)' \subseteq Admitted(u)
          BY <2>6, <3>2 DEF Admits, Active, Admitted
        <4> QED
          BY <2>4, <4>1
      <3> QED
        BY <3>1, <3>2
    <2>7. ASSUME NEW h \in Handlers, NEW w \in Workers, Starts(h, w)
          PROVE  Kept
      <3>1. CASE u = handler[h].user
        <4>1. h \in Admitted(u) /\ Admitted(u)' = Admitted(u) \ {h}
          BY <2>7, <3>1 DEF Starts, Admitted
        <4>2. Cardinality(Admitted(u)') = Cardinality(Admitted(u)) - 1
          BY <2>1, <4>1, FS_RemoveElement, ZenonT(60)
        <4>3. Active(u)' \subseteq Active(u) \cup {w}
          BY <2>7 DEF Starts, Active
        <4>4. /\ IsFiniteSet(Active(u) \cup {w})
              /\ Cardinality(Active(u) \cup {w}) <= Cardinality(Active(u)) + 1
          <5>1. /\ IsFiniteSet(Active(u) \cup {w})
                /\ Cardinality(Active(u) \cup {w}) = IF w \in Active(u) THEN Cardinality(Active(u))
                                                     ELSE Cardinality(Active(u)) + 1
            BY <2>1, FS_AddElement
          <5> QED
            BY <2>1, <5>1
        <4>5. Cardinality(Active(u)') <= Cardinality(Active(u) \cup {w})
          BY <4>3, <4>4, FS_Subset
        <4>6. Cardinality(Active(u) \cup {w}) \in Nat
          BY <4>4, FS_CardinalityType
        <4>7. subs'[u] = subs[u]
          BY <2>7 DEF Starts
        <4> QED
          BY <2>1, <2>2, <2>3, <4>2, <4>4, <4>5, <4>6, <4>7
      <3>2. CASE u # handler[h].user
        <4>1. /\ subs'[u] \subseteq subs[u] /\ Active(u)' \subseteq Active(u)
              /\ Admitted(u)' \subseteq Admitted(u)
          BY <2>7, <3>2 DEF Starts, Active, Admitted
        <4> QED
          BY <2>4, <4>1
      <3> QED
        BY <3>1, <3>2
    <2>8. ASSUME NEW w \in Workers, NEW f \in FeedIDs, Subscribes(w, f)
          PROVE  Kept
      <3>0. subs \in [Users -> SUBSET FeedIDs] /\ Admitted(u)' = Admitted(u)
        BY <2>8 DEF TypeOK, Subscribes, Admitted
      <3>1. CASE u = worker[w].user
        <4>1. subs'[u] = subs[u] \cup {f}
          BY <2>0, <2>8, <3>0, <3>1 DEF Subscribes
        <4>2. w \in Active(u)
          BY <2>8, <3>1 DEF Subscribes, Active
        <4>3. Active(u)' = Active(u) \ {w}
          BY <2>8 DEF Subscribes, Active
        <4>4. Cardinality(subs'[u]) <= Cardinality(subs[u]) + 1
          <5>1. Cardinality(subs[u] \cup {f}) = IF f \in subs[u] THEN Cardinality(subs[u])
                                                ELSE Cardinality(subs[u]) + 1
            BY <2>1, FS_AddElement
          <5> QED
            BY <2>1, <4>1, <5>1
        <4>5. Cardinality(Active(u)') = Cardinality(Active(u)) - 1
          BY <2>1, <4>2, <4>3, FS_RemoveElement, ZenonT(60)
        <4> QED
          BY <2>1, <2>2, <2>3, <3>0, <4>4, <4>5
      <3>2. CASE u # worker[w].user
        <4>1. subs'[u] = subs[u]
          BY <2>0, <2>8, <3>0, <3>2 DEF Subscribes
        <4>2. Active(u)' \subseteq Active(u)
          BY <2>8 DEF Subscribes, Active
        <4> QED
          BY <2>4, <3>0, <4>1, <4>2
      <3> QED
        BY <3>1, <3>2
    <2> QED
      BY <1>1, <2>5, <2>6, <2>7, <2>8 DEF Effect
  <1> QED
    BY <1>2, <1>3

\* For any limit and any numbers of requests and goroutines that can be there at a time,
\* a trial user exceeds the limit by no more than the requests and goroutines beside the
\* one that passes the check last (CanUserAddFeed is asked before the body is read and
\* the goroutine started, not when it ends).
THEOREM OverrunHolds == Spec => []LimitOverrun
  <1>1. Init => Within /\ LimitInv
    <2> SUFFICES ASSUME Init PROVE Within /\ LimitInv
      OBVIOUS
    <2>1. Within /\ TypeOK
      BY NothingType, InitType DEF Init, Within
    <2>2. ASSUME NEW u \in Trial
          PROVE  Cardinality(subs[u]) + Cardinality(Active(u)) + Cardinality(Admitted(u)) + 1
                   <= Limit + Cardinality(env.handlers) + Cardinality(env.workers)
      <3>1. subs[u] = {} /\ Active(u) = {} /\ Admitted(u) = {}
        BY NothingType DEF Init, Active, Running, Admitted
      <3>2. Cardinality(env.workers) \in Nat /\ Cardinality(env.handlers) \in Nat
        BY <2>1, Finite
      <3> QED
        BY <3>1, <3>2, FS_EmptySet
    <2> QED
      BY <2>1, <2>2 DEF LimitInv
  <1>2. TypeOK /\ Within /\ LimitInv /\ [Next]_vars => Within' /\ LimitInv'
    BY LimitStep
  <1>3. TypeOK /\ Within /\ LimitInv => LimitOverrun
    <2> SUFFICES ASSUME TypeOK, Within, LimitInv, NEW u \in Trial
                 PROVE  Cardinality(subs[u]) + 1
                          <= Limit + Cardinality(env.handlers) + Cardinality(env.workers)
      BY DEF LimitOverrun
    <2>1. /\ Cardinality(subs[u]) \in Nat /\ Cardinality(Active(u)) \in Nat
          /\ Cardinality(Admitted(u)) \in Nat
          /\ Cardinality(env.workers) \in Nat /\ Cardinality(env.handlers) \in Nat
      BY Finite
    <2>2. Cardinality(subs[u]) + Cardinality(Active(u)) + Cardinality(Admitted(u)) + 1
            <= Limit + Cardinality(env.handlers) + Cardinality(env.workers)
      BY DEF LimitInv
    <2> QED
      BY <2>1, <2>2
  <1> QED
    BY <1>1, <1>2, <1>3, TypeCorrect, PTL DEF Spec
=============================================================================
